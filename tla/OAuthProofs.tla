---------------------------- MODULE OAuthProofs -----------------------------
(***************************************************************************)
(* Proofs about the authorization server, for any tasks, users, clients,   *)
(* forms and life times: its types, and what its codes and tokens allow.   *)
(***************************************************************************)
EXTENDS OAuthProperties, TLAPS

(* What the next call of a task tells about its locals.                    *)
ControlOf(t) ==
  LET l == local[t] IN
  /\ pc[t] = "idle" => l = NoLocals
  /\ pc[t] \in {"principal", "client", "grant"} =>
       l.client \in Clients /\ l.user \in Users /\ l.uri \in Uris /\ l.proof \in Challenges
  /\ pc[t] = "redeem" => l.token \in DOMAIN codes
  /\ pc[t] = "rotate" => l.token \in DOMAIN refresh
  /\ Exchanging(t) => l.token \in DOMAIN grantOf /\ l.client \in Clients /\ l.user \in Users
  /\ pc[t] \in {"token", "bearer", "run"} => l.token \in DOMAIN access

Control == \A t \in Tasks : ControlOf(t)

(* The numbers that a task has drawn and not yet stored.                   *)
Reserves(t, n) ==
  \/ pc[t] \in {"grant", "access"} /\ n = local[t].fresh
  \/ pc[t] \in {"access", "refresh"} /\ n = Partner(local[t].fresh)

NumbersApart ==
  \A t \in Tasks : \A n : Reserves(t, n) =>
    /\ n \in 1..minted
    /\ n \notin DOMAIN grantOf
    /\ \A u \in Tasks : Reserves(u, n) => u = t

IInv == TypeOK /\ Control /\ NumbersApart

(* The part of TypeOK about the tables.                                    *)
TablesOK ==
  /\ DOMAIN clients \subseteq Clients
  /\ \A c \in DOMAIN clients : clients[c] \subseteq Uris
  /\ users \in [Users -> User]
  /\ minted \in Nat /\ now \in Nat /\ budget \in Nat
  /\ DOMAIN codes \cup DOMAIN access \cup DOMAIN refresh = DOMAIN grantOf
  /\ DOMAIN grantOf \subseteq 1..minted
  /\ \A x \in DOMAIN codes : codes[x] \in Code
  /\ \A x \in DOMAIN access : access[x] \in Access
  /\ \A x \in DOMAIN refresh : refresh[x] \in Refresh
  /\ \A x \in DOMAIN grantOf : grantOf[x] \in DOMAIN codes

(* No row goes away, and what is new in the tables was drawn by t.         *)
Grown(t) ==
  /\ DOMAIN codes \subseteq DOMAIN codes'
  /\ DOMAIN access \subseteq DOMAIN access'
  /\ DOMAIN refresh \subseteq DOMAIN refresh'
  /\ DOMAIN grantOf \subseteq DOMAIN grantOf'
  /\ \A n \in DOMAIN grantOf' \ DOMAIN grantOf : Reserves(t, n)
  /\ minted' >= minted

(* A call that leaves the tables alone.                                    *)
LEMMA TablesUntouched ==
  ASSUME IInv, NEW t \in Tasks, UNCHANGED <<tables, now>>, budget' \in Nat
  PROVE  TablesOK' /\ Grown(t)
<1>1. TablesOK'
  BY DEF IInv, TypeOK, TablesOK, tables
<1>2. Grown(t)
  BY DEF IInv, TypeOK, Grown, tables
<1> QED
  BY <1>1, <1>2

(* A step of one task keeps the invariant if it does so for the tables and *)
(* for the control state and the numbers of that task.                     *)
LEMMA OneTaskMoves ==
  ASSUME IInv, TablesOK', NEW t \in Tasks, Grown(t),
         NEW c \in Calls \cup {"idle"}, NEW l \in Local,
         pc' = [pc EXCEPT ![t] = c], local' = [local EXCEPT ![t] = l],
         reply' \in [Tasks -> Replies], ControlOf(t)',
         \A n : Reserves(t, n)' =>
           n \in 1..minted' /\ n \notin DOMAIN grantOf' /\ (Reserves(t, n) \/ n > minted)
  PROVE  IInv'
<1>1. TypeOK'
  BY DEF IInv, TypeOK, TablesOK
<1>2. pc'[t] = c /\ local'[t] = l
  BY DEF IInv, TypeOK
<1>3. \A u \in Tasks \ {t} : pc'[u] = pc[u] /\ local'[u] = local[u]
  BY DEF IInv, TypeOK
<1>4. Control'
  <2> SUFFICES ASSUME NEW u \in Tasks, u # t PROVE ControlOf(u)'
    BY DEF Control
  <2>1. ControlOf(u)
    BY DEF IInv, Control
  <2> QED
    BY <1>3, <2>1 DEF ControlOf, Grown, Exchanging
<1>5. \A u \in Tasks \ {t} : \A n : Reserves(u, n)' <=> Reserves(u, n)
  BY <1>3 DEF Reserves
<1>6. NumbersApart'
  <2> SUFFICES ASSUME NEW u \in Tasks, NEW n, Reserves(u, n)'
               PROVE  /\ n \in 1..minted'
                      /\ n \notin DOMAIN grantOf'
                      /\ \A v \in Tasks : Reserves(v, n)' => v = u
    BY DEF NumbersApart
  <2>0. minted \in Nat /\ minted' \in Nat /\ minted' >= minted /\ NumbersApart
    BY DEF IInv, TypeOK, TablesOK, Grown
  <2>1. CASE u = t
    BY <1>5, <2>0, <2>1 DEF NumbersApart
  <2>2. CASE u # t
    <3>1. Reserves(u, n) /\ n \in 1..minted /\ n \notin DOMAIN grantOf
      BY <1>5, <2>0, <2>2 DEF NumbersApart
    <3>2. \A v \in Tasks : Reserves(v, n) => v = u
      BY <2>0, <3>1 DEF NumbersApart
    <3>3. n \notin DOMAIN grantOf'
      BY <2>2, <3>1, <3>2 DEF Grown
    <3>4. \A v \in Tasks : Reserves(v, n)' => v = u
      BY <1>5, <2>0, <2>2, <3>1, <3>2
    <3> QED
      BY <2>0, <3>1, <3>3, <3>4
  <2> QED
    BY <2>1, <2>2
<1> QED
  BY <1>1, <1>4, <1>6 DEF IInv

(* The locals of a task at rest.                                           *)
LEMMA NoLocalsType == NoLocals \in Local
  BY DEF NoLocals, Local

(* A step that answers keeps the invariant if it keeps the tables.         *)
LEMMA AnswerInv ==
  ASSUME IInv, TablesOK', NEW t \in Tasks, Grown(t), NEW outcome \in Replies,
         Answer(t, outcome)
  PROVE  IInv'
<1>1. pc'[t] = "idle" /\ local'[t] = NoLocals /\ reply' \in [Tasks -> Replies]
  BY DEF Answer, IInv, TypeOK
<1>2. ControlOf(t)'
  BY <1>1 DEF ControlOf, Exchanging
<1>3. \A n : ~Reserves(t, n)'
  BY <1>1 DEF Reserves
<1> QED
  BY <1>1, <1>2, <1>3, NoLocalsType, OneTaskMoves DEF Answer

(* So does one that goes on with locals l and draws no numbers.            *)
LEMMA GotoInv ==
  ASSUME IInv, TablesOK', NEW t \in Tasks, Grown(t), NEW c \in Calls, NEW l \in Local,
         c \notin {"grant", "access", "refresh"},
         Goto(t, c), local' = [local EXCEPT ![t] = l], ControlOf(t)'
  PROVE  IInv'
<1>1. pc'[t] = c /\ reply' \in [Tasks -> Replies]
  BY DEF Goto, IInv, TypeOK
<1>2. \A n : ~Reserves(t, n)'
  BY <1>1 DEF Reserves
<1> QED
  BY <1>1, <1>2, OneTaskMoves DEF Goto

(* The control state of the acting task.                                   *)
LEMMA TaskFacts ==
  ASSUME IInv, NEW t \in Tasks
  PROVE  TypeOK /\ ControlOf(t) /\ local[t] \in Local
BY DEF IInv, TypeOK, Control

----------------------------------------------------------------------------
(* A request arrives with typed locals and nothing drawn.                  *)
LEMMA BeginInv ==
  ASSUME IInv, NEW t \in Tasks, NEW c \in {"principal", "redeem", "rotate", "token"},
         NEW l \in Local, Begin(t, c, l), ControlOf(t)'
  PROVE  IInv'
<1>1. budget' \in Nat
  BY DEF IInv, TypeOK, Begin
<1>2. TablesOK' /\ Grown(t)
  BY <1>1, TablesUntouched DEF Begin
<1>3. pc'[t] = c /\ reply' \in [Tasks -> Replies]
  BY DEF Begin, IInv, TypeOK, Replies
<1>4. \A n : ~Reserves(t, n)'
  BY <1>3 DEF Reserves
<1>5. c \in Calls
  BY DEF Calls
<1> QED
  BY <1>2, <1>3, <1>4, <1>5, OneTaskMoves DEF Begin

(* The four kinds of request.                                              *)
LEMMA ArriveInv ==
  ASSUME IInv, NEW t \in Tasks, Arrive(t)
  PROVE  IInv'
<1>0. /\ pc \in [Tasks -> Calls \cup {"idle"}] /\ local \in [Tasks -> Local] /\ now \in Nat
      /\ DOMAIN codes \cup DOMAIN access \cup DOMAIN refresh \subseteq Nat
  BY DEF IInv, TypeOK
<1>1. CASE BeginConsent(t)
  <2>1. PICK u \in Users, f \in ConsentForms :
          Begin(t, "principal",
                [NoLocals EXCEPT !.user = u, !.client = f.client, !.uri = f.uri,
                                 !.proof = f.challenge, !.scope = f.scope])
    BY <1>1 DEF BeginConsent
  <2> DEFINE l == [NoLocals EXCEPT !.user = u, !.client = f.client, !.uri = f.uri,
                                   !.proof = f.challenge, !.scope = f.scope]
  <2>2. f \in ConsentForm
    BY ConstantsAssumption DEF ConstantsAssumption
  <2>3. /\ l \in Local
        /\ l.client \in Clients /\ l.user \in Users /\ l.uri \in Uris /\ l.proof \in Challenges
    BY <2>2 DEF NoLocals, Local, ConsentForm
  <2>4. pc'[t] = "principal" /\ local'[t] = l
    BY <1>0, <2>1 DEF Begin
  <2> HIDE DEF l
  <2>5. ControlOf(t)'
    BY <2>3, <2>4 DEF ControlOf, Exchanging
  <2> QED
    BY <2>1, <2>3, <2>5, BeginInv DEF l
<1>2. CASE BeginExchange(t)
  <2>1. PICK x \in DOMAIN codes, f \in TokenForms :
          Begin(t, "redeem",
                [NoLocals EXCEPT !.token = x, !.client = f.client, !.uri = f.uri,
                                 !.proof = f.verifier, !.at = now])
    BY <1>2 DEF BeginExchange
  <2> DEFINE l == [NoLocals EXCEPT !.token = x, !.client = f.client, !.uri = f.uri,
                                   !.proof = f.verifier, !.at = now]
  <2>2. f \in TokenForm
    BY ConstantsAssumption DEF ConstantsAssumption
  <2>3. l \in Local /\ l.token \in DOMAIN codes
    BY <1>0, <2>2 DEF NoLocals, Local, TokenForm
  <2>4. pc'[t] = "redeem" /\ local'[t] = l /\ codes' = codes
    BY <1>0, <2>1 DEF Begin, tables
  <2> HIDE DEF l
  <2>5. ControlOf(t)'
    BY <2>3, <2>4 DEF ControlOf, Exchanging
  <2> QED
    BY <2>1, <2>3, <2>5, BeginInv DEF l
<1>3. CASE BeginRefresh(t)
  <2>1. PICK x \in DOMAIN refresh, f \in TokenForms :
          Begin(t, "rotate", [NoLocals EXCEPT !.token = x, !.client = f.client, !.at = now])
    BY <1>3 DEF BeginRefresh
  <2> DEFINE l == [NoLocals EXCEPT !.token = x, !.client = f.client, !.at = now]
  <2>2. f \in TokenForm
    BY ConstantsAssumption DEF ConstantsAssumption
  <2>3. l \in Local /\ l.token \in DOMAIN refresh
    BY <1>0, <2>2 DEF NoLocals, Local, TokenForm
  <2>4. pc'[t] = "rotate" /\ local'[t] = l /\ refresh' = refresh
    BY <1>0, <2>1 DEF Begin, tables
  <2> HIDE DEF l
  <2>5. ControlOf(t)'
    BY <2>3, <2>4 DEF ControlOf, Exchanging
  <2> QED
    BY <2>1, <2>3, <2>5, BeginInv DEF l
<1>4. CASE BeginCall(t)
  <2>1. PICK a \in DOMAIN access :
          Begin(t, "token", [NoLocals EXCEPT !.token = a, !.at = now])
    BY <1>4 DEF BeginCall
  <2> DEFINE l == [NoLocals EXCEPT !.token = a, !.at = now]
  <2>2. l \in Local /\ l.token \in DOMAIN access
    BY <1>0 DEF NoLocals, Local
  <2>3. pc'[t] = "token" /\ local'[t] = l /\ access' = access
    BY <1>0, <2>1 DEF Begin, tables
  <2> HIDE DEF l
  <2>4. ControlOf(t)'
    BY <2>2, <2>3 DEF ControlOf, Exchanging
  <2> QED
    BY <2>1, <2>2, <2>4, BeginInv DEF l
<1> QED
  BY <1>1, <1>2, <1>3, <1>4 DEF Arrive

----------------------------------------------------------------------------
(* The user's role narrows the requested scopes.                           *)
LEMMA ReadPrincipalInv ==
  ASSUME IInv, NEW t \in Tasks, ReadPrincipal(t)
  PROVE  IInv'
<1> DEFINE u == users[local[t].user]
           S == EffectiveScopes(u.role, local[t].scope)
           l == [local[t] EXCEPT !.scope = S]
<1>1. pc[t] = "principal" /\ TypeOK /\ ControlOf(t) /\ local[t] \in Local
  BY TaskFacts DEF ReadPrincipal
<1>2. TablesOK' /\ Grown(t)
  BY <1>1, TablesUntouched DEF ReadPrincipal, TypeOK
<1>3. CASE Answer(t, "login")
  BY <1>2, <1>3, AnswerInv DEF Replies
<1>4. CASE Goto(t, "client") /\ local' = [local EXCEPT ![t].scope = EffectiveScopes(u.role, @)]
  <2>1. S \subseteq Scopes
    BY <1>1 DEF EffectiveScopes, Local
  <2>2. /\ l \in Local /\ local' = [local EXCEPT ![t] = l]
        /\ l.client = local[t].client /\ l.user = local[t].user
        /\ l.uri = local[t].uri /\ l.proof = local[t].proof
    BY <1>1, <1>4, <2>1 DEF Local, TypeOK
  <2>3. pc'[t] = "client" /\ local'[t] = l
    BY <1>1, <1>4, <2>2 DEF Goto, TypeOK
  <2> HIDE DEF l
  <2>4. ControlOf(t)'
    BY <1>1, <2>2, <2>3 DEF ControlOf, Exchanging
  <2> QED
    BY <1>2, <1>4, <2>2, <2>4, GotoInv DEF Calls
<1> QED
  BY <1>3, <1>4 DEF ReadPrincipal

(* A registered client gets a number for its code.                         *)
LEMMA ReadClientInv ==
  ASSUME IInv, NEW t \in Tasks, ReadClient(t)
  PROVE  IInv'
<1> DEFINE l == [local[t] EXCEPT !.fresh = minted + 1, !.at = now]
<1>1. pc[t] = "client" /\ TypeOK /\ ControlOf(t) /\ local[t] \in Local
  BY TaskFacts DEF ReadClient
<1>2. TablesOK' /\ Grown(t)
  BY <1>1 DEF ReadClient, TypeOK, TablesOK, Grown
<1>3. CASE Answer(t, "invalid_request") \/ Answer(t, "denied")
  BY <1>2, <1>3, AnswerInv DEF Replies
<1>4. CASE /\ minted' = minted + 1 /\ Goto(t, "grant")
           /\ local' = [local EXCEPT ![t].fresh = minted + 1, ![t].at = now]
  <2>0. minted + 1 \in Nat /\ now \in Nat
    BY <1>1 DEF TypeOK
  <2> DEFINE m == minted + 1
  <2> HIDE DEF m
  <2>1. /\ l \in Local /\ local' = [local EXCEPT ![t] = l] /\ l.fresh = m
        /\ l.client = local[t].client /\ l.user = local[t].user
        /\ l.uri = local[t].uri /\ l.proof = local[t].proof
    <3>1. local' = [local EXCEPT ![t].fresh = m, ![t].at = now] /\ m \in Nat
      BY <1>4, <2>0 DEF m
    <3>2. l = [local[t] EXCEPT !.fresh = m, !.at = now]
      BY DEF m
    <3> QED
      BY <1>1, <2>0, <3>1, <3>2 DEF Local, TypeOK
  <2>2. pc'[t] = "grant" /\ local'[t] = l /\ reply' \in [Tasks -> Replies]
    BY <1>1, <1>4, <2>1 DEF Goto, TypeOK
  <2> HIDE DEF l
  <2>3. ControlOf(t)'
    BY <1>1, <2>1, <2>2 DEF ControlOf, Exchanging
  <2>4. \A n : Reserves(t, n)' => n = minted + 1
    BY <2>1, <2>2 DEF Reserves, m
  <2>5. minted + 1 \in 1..minted' /\ minted + 1 \notin DOMAIN grantOf' /\ minted + 1 > minted
    BY <1>1, <1>4 DEF TypeOK, ReadClient
  <2> QED
    BY <1>2, <1>4, <2>1, <2>2, <2>3, <2>4, <2>5, OneTaskMoves DEF Calls, Goto
<1> QED
  BY <1>3, <1>4 DEF ReadClient

(* The new code is typed and is a grant of its own.                        *)
LEMMA StoreCodeInv ==
  ASSUME IInv, NEW t \in Tasks, StoreCode(t)
  PROVE  IInv'
<1> DEFINE l == local[t]
           row == [client |-> l.client, user |-> l.user, uri |-> l.uri, scope |-> l.scope,
                   challenge |-> l.proof, expires |-> l.at + CodeTtl, consumed |-> FALSE]
<1>1. pc[t] = "grant" /\ TypeOK /\ ControlOf(t) /\ local[t] \in Local
  BY TaskFacts DEF StoreCode
<1>2. row \in Code
  BY <1>1, ConstantsAssumption DEF ConstantsAssumption, Local, ControlOf, Code
<1>3. Reserves(t, l.fresh) /\ l.fresh \in 1..minted
  BY <1>1 DEF Reserves, IInv, NumbersApart
<1>4. codes' = Put(codes, l.fresh, row) /\ grantOf' = Put(grantOf, l.fresh, l.fresh)
  BY DEF StoreCode
<1> HIDE DEF row
<1> DEFINE n == l.fresh
<1>5. /\ DOMAIN codes' = DOMAIN codes \cup {n} /\ codes'[n] = row
      /\ \A j \in DOMAIN codes \ {n} : codes'[j] = codes[j]
  BY <1>4 DEF Put
<1>6. /\ DOMAIN grantOf' = DOMAIN grantOf \cup {n} /\ grantOf'[n] = n
      /\ \A j \in DOMAIN grantOf \ {n} : grantOf'[j] = grantOf[j]
  BY <1>4 DEF Put
<1>7. UNCHANGED <<clients, users, access, refresh, minted, now, budget>>
  BY DEF StoreCode
<1> HIDE DEF l, n
<1>8. TablesOK'
  <2>1. \A x \in DOMAIN codes' : codes'[x] \in Code
    BY <1>1, <1>2, <1>5 DEF TypeOK
  <2>2. \A x \in DOMAIN grantOf' : grantOf'[x] \in DOMAIN codes'
    BY <1>1, <1>5, <1>6 DEF TypeOK
  <2>3. DOMAIN grantOf' \subseteq 1..minted'
    BY <1>1, <1>3, <1>6, <1>7 DEF TypeOK, n
  <2> QED
    BY <1>1, <1>5, <1>6, <1>7, <2>1, <2>2, <2>3 DEF TypeOK, TablesOK
<1>9. Grown(t)
  BY <1>1, <1>3, <1>5, <1>6, <1>7 DEF TypeOK, Grown, n
<1> QED
  BY <1>8, <1>9, AnswerInv DEF StoreCode, Replies

(* Handing a task on to issue_tokens, with a typed row of its grant.       *)
LEMMA IssueForInv ==
  ASSUME IInv, TablesOK', NEW t \in Tasks, Grown(t), NEW row, IssueFor(t, row),
         row.client \in Clients, row.user \in Users, row.scope \subseteq Scopes,
         local[t].token \in DOMAIN grantOf
  PROVE  IInv'
<1> DEFINE l == [local[t] EXCEPT !.client = row.client, !.user = row.user, !.scope = row.scope]
<1>1. TypeOK /\ local[t] \in Local
  BY TaskFacts
<1>2. /\ l \in Local /\ local' = [local EXCEPT ![t] = l] /\ l.token = local[t].token
      /\ l.client \in Clients /\ l.user \in Users
  BY <1>1 DEF Local, TypeOK, IssueFor
<1>3. pc'[t] = "owner" /\ local'[t] = l
  BY <1>1, <1>2 DEF IssueFor, Goto, TypeOK
<1> HIDE DEF l
<1>4. ControlOf(t)'
  BY <1>2, <1>3 DEF ControlOf, Exchanging, Grown
<1> QED
  BY <1>2, <1>4, GotoInv DEF IssueFor, Calls

(* A code is consumed and its row taken over.                              *)
LEMMA RedeemCodeInv ==
  ASSUME IInv, NEW t \in Tasks, RedeemCode(t)
  PROVE  IInv'
<1> DEFINE x == local[t].token
<1>1. pc[t] = "redeem" /\ TypeOK /\ ControlOf(t)
  BY TaskFacts DEF RedeemCode
<1>2. x \in DOMAIN codes /\ codes[x] \in Code /\ x \in DOMAIN grantOf
  BY <1>1 DEF ControlOf, TypeOK
<1>3. CASE Answer(t, "invalid_grant") /\ UNCHANGED codes
  <2>1. TablesOK' /\ Grown(t)
    BY <1>1, <1>3 DEF RedeemCode, TypeOK, TablesOK, Grown
  <2> QED
    BY <1>3, <2>1, AnswerInv DEF Replies
<1>4. CASE /\ codes' = [codes EXCEPT ![x].consumed = TRUE]
           /\ IssueFor(t, codes[x]) \/ Answer(t, "invalid_grant")
  <2>1. codes'[x] \in Code /\ \A y \in DOMAIN codes \ {x} : codes'[y] = codes[y]
    BY <1>2, <1>4 DEF Code
  <2>2. TablesOK'
    BY <1>1, <1>4, <2>1 DEF RedeemCode, TypeOK, TablesOK
  <2>3. Grown(t)
    BY <1>1, <1>4 DEF RedeemCode, TypeOK, Grown
  <2>4. CASE Answer(t, "invalid_grant")
    BY <2>2, <2>3, <2>4, AnswerInv DEF Replies
  <2>5. CASE IssueFor(t, codes[x])
    BY <1>2, <2>2, <2>3, <2>5, IssueForInv DEF Code
  <2> QED
    BY <1>4, <2>4, <2>5
<1> QED
  BY <1>3, <1>4 DEF RedeemCode

(* A refresh token is revoked and its row taken over.                      *)
LEMMA RedeemRefreshInv ==
  ASSUME IInv, NEW t \in Tasks, RedeemRefresh(t)
  PROVE  IInv'
<1> DEFINE x == local[t].token
<1>1. pc[t] = "rotate" /\ TypeOK /\ ControlOf(t)
  BY TaskFacts DEF RedeemRefresh
<1>2. x \in DOMAIN refresh /\ refresh[x] \in Refresh /\ x \in DOMAIN grantOf
  BY <1>1 DEF ControlOf, TypeOK
<1>3. CASE Answer(t, "invalid_grant") /\ UNCHANGED refresh
  <2>1. TablesOK' /\ Grown(t)
    BY <1>1, <1>3 DEF RedeemRefresh, TypeOK, TablesOK, Grown
  <2> QED
    BY <1>3, <2>1, AnswerInv DEF Replies
<1>4. CASE /\ refresh' = [refresh EXCEPT ![x].revoked = TRUE]
           /\ IssueFor(t, refresh[x]) \/ Answer(t, "invalid_grant")
  <2>1. refresh'[x] \in Refresh /\ \A y \in DOMAIN refresh \ {x} : refresh'[y] = refresh[y]
    BY <1>2, <1>4 DEF Refresh
  <2>2. TablesOK'
    BY <1>1, <1>4, <2>1 DEF RedeemRefresh, TypeOK, TablesOK
  <2>3. Grown(t)
    BY <1>1, <1>4 DEF RedeemRefresh, TypeOK, Grown
  <2>4. CASE Answer(t, "invalid_grant")
    BY <2>2, <2>3, <2>4, AnswerInv DEF Replies
  <2>5. CASE IssueFor(t, refresh[x])
    BY <1>2, <2>2, <2>3, <2>5, IssueForInv DEF Refresh
  <2> QED
    BY <1>4, <2>4, <2>5
<1> QED
  BY <1>3, <1>4 DEF RedeemRefresh

(* An active owner gets two numbers for the pair.                          *)
LEMMA ReadOwnerInv ==
  ASSUME IInv, NEW t \in Tasks, ReadOwner(t)
  PROVE  IInv'
<1> DEFINE l == [local[t] EXCEPT !.fresh = minted + 1, !.at = now]
<1>1. pc[t] = "owner" /\ TypeOK /\ ControlOf(t) /\ local[t] \in Local
  BY TaskFacts DEF ReadOwner
<1>2. TablesOK' /\ Grown(t)
  BY <1>1 DEF ReadOwner, TypeOK, TablesOK, Grown
<1>3. CASE Answer(t, "invalid_grant")
  BY <1>2, <1>3, AnswerInv DEF Replies
<1>4. CASE /\ minted' = minted + 2 /\ Goto(t, "access")
           /\ local' = [local EXCEPT ![t].fresh = minted + 1, ![t].at = now]
  <2>0. minted + 1 \in Nat /\ now \in Nat
    BY <1>1 DEF TypeOK
  <2> DEFINE m == minted + 1
  <2> HIDE DEF m
  <2>1. /\ l \in Local /\ local' = [local EXCEPT ![t] = l] /\ l.fresh = m
        /\ l.client = local[t].client /\ l.user = local[t].user
        /\ l.token = local[t].token
    <3>1. local' = [local EXCEPT ![t].fresh = m, ![t].at = now] /\ m \in Nat
      BY <1>4, <2>0 DEF m
    <3>2. l = [local[t] EXCEPT !.fresh = m, !.at = now]
      BY DEF m
    <3> QED
      BY <1>1, <2>0, <3>1, <3>2 DEF Local, TypeOK
  <2>2. pc'[t] = "access" /\ local'[t] = l /\ reply' \in [Tasks -> Replies]
    BY <1>1, <1>4, <2>1 DEF Goto, TypeOK
  <2> HIDE DEF l
  <2>3. ControlOf(t)'
    BY <1>1, <1>2, <2>1, <2>2 DEF ControlOf, Exchanging, Grown
  <2>4. \A n : Reserves(t, n)' => n = minted + 1 \/ n = minted + 1 + 1
    BY <2>1, <2>2 DEF Reserves, Partner, m
  <2>5. \A n \in {minted + 1, minted + 1 + 1} :
          n \in 1..minted' /\ n \notin DOMAIN grantOf' /\ n > minted
    BY <1>1, <1>4 DEF TypeOK, ReadOwner
  <2>6. \A n : Reserves(t, n)' => n \in 1..minted' /\ n \notin DOMAIN grantOf' /\ n > minted
    BY <2>4, <2>5
  <2>7. "access" \in Calls \cup {"idle"} /\ pc' = [pc EXCEPT ![t] = "access"]
    BY <1>4 DEF Calls, Goto
  <2> QED
    BY <1>2, <2>1, <2>2, <2>3, <2>6, <2>7, OneTaskMoves
<1> QED
  BY <1>3, <1>4 DEF ReadOwner

(* The access token is typed and joins the grant of the token presented.   *)
LEMMA StoreAccessInv ==
  ASSUME IInv, NEW t \in Tasks, StoreAccess(t)
  PROVE  IInv'
<1> DEFINE l == local[t]
           row == [client |-> l.client, user |-> l.user, scope |-> l.scope,
                   expires |-> l.at + AccessTtl]
<1>1. pc[t] = "access" /\ TypeOK /\ ControlOf(t) /\ local[t] \in Local
  BY TaskFacts DEF StoreAccess
<1>2. /\ row \in Access /\ l.token \in DOMAIN grantOf /\ grantOf[l.token] \in DOMAIN codes
  BY <1>1, ConstantsAssumption
     DEF ConstantsAssumption, Local, ControlOf, Exchanging, Access, TypeOK
<1> DEFINE n == l.fresh
<1>3. Reserves(t, n) /\ n \in 1..minted /\ NumbersApart
  BY <1>1 DEF Reserves, IInv, NumbersApart
<1>4. access' = Put(access, n, row) /\ grantOf' = Put(grantOf, n, grantOf[l.token])
  BY DEF StoreAccess
<1>a. local' = [local EXCEPT ![t] = l]
  BY <1>1 DEF StoreAccess, TypeOK
<1>b. n \in Nat /\ Reserves(t, Partner(n)) /\ Partner(n) # n
  BY <1>1 DEF Reserves, Partner, Local
<1> HIDE DEF row
<1>5. /\ DOMAIN access' = DOMAIN access \cup {n} /\ access'[n] = row
      /\ \A j \in DOMAIN access \ {n} : access'[j] = access[j]
      /\ DOMAIN grantOf' = DOMAIN grantOf \cup {n} /\ grantOf'[n] = grantOf[l.token]
      /\ \A j \in DOMAIN grantOf \ {n} : grantOf'[j] = grantOf[j]
  BY <1>4 DEF Put
<1>6. UNCHANGED <<clients, users, codes, refresh, minted, now, budget>>
  BY DEF StoreAccess
<1>7. TablesOK'
  <2>1. \A x \in DOMAIN access' : access'[x] \in Access
    BY <1>1, <1>2, <1>5 DEF TypeOK
  <2>2. \A x \in DOMAIN grantOf' : grantOf'[x] \in DOMAIN codes'
    BY <1>1, <1>2, <1>5, <1>6 DEF TypeOK
  <2>3. DOMAIN grantOf' \subseteq 1..minted'
    BY <1>1, <1>3, <1>5, <1>6 DEF TypeOK
  <2> QED
    BY <1>1, <1>5, <1>6, <2>1, <2>2, <2>3 DEF TypeOK, TablesOK
<1>8. Grown(t)
  BY <1>1, <1>3, <1>5, <1>6 DEF TypeOK, Grown
<1>9. pc'[t] = "refresh" /\ local'[t] = l /\ reply' \in [Tasks -> Replies]
  BY <1>1 DEF StoreAccess, Goto, TypeOK
<1>10. ControlOf(t)'
  BY <1>1, <1>8, <1>9 DEF ControlOf, Exchanging, Grown
<1>11. \A k : Reserves(t, k)' => k = Partner(n)
  BY <1>9 DEF Reserves
<1>12. Partner(n) \in 1..minted' /\ Partner(n) \notin DOMAIN grantOf'
  BY <1>3, <1>5, <1>6, <1>b DEF NumbersApart
<1>13. "refresh" \in Calls \cup {"idle"} /\ pc' = [pc EXCEPT ![t] = "refresh"]
  BY DEF Calls, StoreAccess, Goto
<1> QED
  BY <1>1, <1>7, <1>8, <1>9, <1>10, <1>11, <1>12, <1>13, <1>a, <1>b, OneTaskMoves

(* The refresh token is typed and joins the grant of the token presented.  *)
LEMMA StoreRefreshInv ==
  ASSUME IInv, NEW t \in Tasks, StoreRefresh(t)
  PROVE  IInv'
<1> DEFINE l == local[t]
           new == Partner(l.fresh)
           row == [client |-> l.client, user |-> l.user, scope |-> l.scope,
                   expires |-> l.at + RefreshTtl, revoked |-> FALSE]
<1>1. pc[t] = "refresh" /\ TypeOK /\ ControlOf(t) /\ local[t] \in Local
  BY TaskFacts DEF StoreRefresh
<1>2. /\ row \in Refresh /\ l.token \in DOMAIN grantOf /\ grantOf[l.token] \in DOMAIN codes
  BY <1>1, ConstantsAssumption
     DEF ConstantsAssumption, Local, ControlOf, Exchanging, Refresh, TypeOK
<1>3. Reserves(t, new) /\ new \in 1..minted
  BY <1>1 DEF Reserves, IInv, NumbersApart
<1>4. refresh' = Put(refresh, new, row) /\ grantOf' = Put(grantOf, new, grantOf[l.token])
  BY DEF StoreRefresh
<1> HIDE DEF row, new
<1>5. /\ DOMAIN refresh' = DOMAIN refresh \cup {new} /\ refresh'[new] = row
      /\ \A j \in DOMAIN refresh \ {new} : refresh'[j] = refresh[j]
      /\ DOMAIN grantOf' = DOMAIN grantOf \cup {new} /\ grantOf'[new] = grantOf[l.token]
      /\ \A j \in DOMAIN grantOf \ {new} : grantOf'[j] = grantOf[j]
  BY <1>4 DEF Put
<1>6. UNCHANGED <<clients, users, codes, access, minted, now, budget>>
  BY DEF StoreRefresh
<1>7. TablesOK'
  <2>1. \A x \in DOMAIN refresh' : refresh'[x] \in Refresh
    BY <1>1, <1>2, <1>5 DEF TypeOK
  <2>2. \A x \in DOMAIN grantOf' : grantOf'[x] \in DOMAIN codes'
    BY <1>1, <1>2, <1>5, <1>6 DEF TypeOK
  <2>3. DOMAIN grantOf' \subseteq 1..minted'
    BY <1>1, <1>3, <1>5, <1>6 DEF TypeOK
  <2> QED
    BY <1>1, <1>5, <1>6, <2>1, <2>2, <2>3 DEF TypeOK, TablesOK
<1>8. Grown(t)
  BY <1>1, <1>3, <1>5, <1>6 DEF TypeOK, Grown
<1> QED
  BY <1>7, <1>8, AnswerInv DEF StoreRefresh, Replies

----------------------------------------------------------------------------
(* The bearer check reads and narrows.                                     *)
LEMMA BearerInv ==
  ASSUME IInv, NEW t \in Tasks, FindToken(t) \/ ReadBearer(t) \/ Serve(t)
  PROVE  IInv'
<1>1. TypeOK /\ ControlOf(t) /\ local[t] \in Local
  BY TaskFacts
<1>2. TablesOK' /\ Grown(t)
  BY <1>1, TablesUntouched DEF FindToken, ReadBearer, Serve, TypeOK
<1>3. CASE Answer(t, "unauthorized") \/ Answer(t, "served")
  BY <1>2, <1>3, AnswerInv DEF Replies
<1>4. ASSUME FindToken(t), Goto(t, "bearer") PROVE IInv'
  <2> DEFINE a == access[local[t].token]
             l == [local[t] EXCEPT !.user = a.user, !.scope = a.scope, !.client = a.client]
  <2>1. pc[t] = "token" /\ a \in Access /\ pc'[t] = "bearer"
    BY <1>1, <1>4 DEF FindToken, ControlOf, TypeOK, Goto
  <2>2. local' = [local EXCEPT ![t].user = a.user, ![t].scope = a.scope, ![t].client = a.client]
    BY <1>1, <1>4, <2>1 DEF FindToken, Answer, TypeOK
  <2>3. l \in Local /\ local' = [local EXCEPT ![t] = l] /\ l.token = local[t].token
    BY <1>1, <2>1, <2>2 DEF Access, Local, TypeOK
  <2>4. local'[t] = l
    BY <1>1, <2>3 DEF TypeOK
  <2> HIDE DEF l
  <2>5. ControlOf(t)'
    BY <1>1, <1>2, <2>1, <2>3, <2>4 DEF ControlOf, Exchanging, Grown
  <2> QED
    BY <1>2, <1>4, <2>3, <2>5, GotoInv DEF Calls
<1>5. ASSUME ReadBearer(t), Goto(t, "run") PROVE IInv'
  <2> DEFINE S == local[t].scope \cap RoleScopes(users[local[t].user].role)
             l == [local[t] EXCEPT !.scope = S]
  <2>1. pc[t] = "bearer" /\ pc'[t] = "run"
    BY <1>1, <1>5 DEF ReadBearer, TypeOK, Goto
  <2>2. local' = [local EXCEPT ![t].scope = S]
    BY <1>1, <1>5, <2>1 DEF ReadBearer, Answer, TypeOK
  <2>3. l \in Local /\ local' = [local EXCEPT ![t] = l] /\ l.token = local[t].token
    BY <1>1, <2>2 DEF Local, TypeOK
  <2>4. local'[t] = l
    BY <1>1, <2>3 DEF TypeOK
  <2> HIDE DEF l
  <2>5. ControlOf(t)'
    BY <1>1, <1>2, <2>1, <2>3, <2>4 DEF ControlOf, Exchanging, Grown
  <2> QED
    BY <1>2, <1>5, <2>3, <2>5, GotoInv DEF Calls
<1> QED
  BY <1>3, <1>4, <1>5 DEF FindToken, ReadBearer, Serve

(* A lost task leaves the tables and forgets its locals.                   *)
LEMMA AbortInv ==
  ASSUME IInv, NEW t \in Tasks, Abort(t)
  PROVE  IInv'
<1>1. TablesOK' /\ Grown(t)
  BY TablesUntouched DEF Abort, IInv, TypeOK
<1> QED
  BY <1>1, AnswerInv DEF Abort, Replies

(* What happens beside the requests moves no task.                         *)
LEMMA BesideInv ==
  ASSUME IInv, Register \/ ChangeUser \/ Tick \/ UNCHANGED vars
  PROVE  IInv'
<1>1. /\ UNCHANGED <<codes, access, refresh, minted, grantOf, pc, local, reply>>
  BY DEF Register, ChangeUser, Tick, vars, tables
<1>2. TypeOK'
  <2>1. CASE Register
    <3>1. PICK c \in Clients, uris \in SUBSET Uris : clients' = Put(clients, c, uris)
      BY <2>1 DEF Register
    <3>2. /\ DOMAIN clients' = DOMAIN clients \cup {c} /\ clients'[c] = uris
          /\ \A j \in DOMAIN clients \ {c} : clients'[j] = clients[j]
      BY <3>1 DEF Put
    <3> QED
      BY <2>1, <3>1, <3>2 DEF Register, IInv, TypeOK
  <2>2. CASE ChangeUser
    BY <2>2 DEF ChangeUser, IInv, TypeOK
  <2>3. CASE Tick
    BY <2>3 DEF Tick, tables, IInv, TypeOK
  <2>4. CASE UNCHANGED vars
    BY <2>4 DEF vars, IInv, TypeOK
  <2> QED
    BY <2>1, <2>2, <2>3, <2>4
<1>3. Control'
  BY <1>1 DEF IInv, Control, ControlOf, Exchanging
<1>4. NumbersApart'
  BY <1>1 DEF IInv, NumbersApart, Reserves
<1> QED
  BY <1>2, <1>3, <1>4 DEF IInv

(* The empty tables and tasks at rest satisfy the invariant.               *)
LEMMA InitInv == Init => IInv
<1> SUFFICES ASSUME Init PROVE IInv
  OBVIOUS
<1>1. TypeOK
  <2>1. users \in [Users -> User] /\ budget \in Nat
    BY ConstantsAssumption DEF Init, User, ConstantsAssumption
  <2>2. DOMAIN << >> = {}
    OBVIOUS
  <2>3. /\ DOMAIN clients = {} /\ DOMAIN codes = {} /\ DOMAIN access = {}
        /\ DOMAIN refresh = {} /\ DOMAIN grantOf = {}
    BY <2>2 DEF Init
  <2>4. /\ pc \in [Tasks -> Calls \cup {"idle"}] /\ local \in [Tasks -> Local]
        /\ reply \in [Tasks -> Replies]
    BY NoLocalsType DEF Init, Replies
  <2>5. minted \in Nat /\ now \in Nat
    BY DEF Init
  <2> QED
    BY <2>1, <2>3, <2>4, <2>5 DEF TypeOK
<1>2. Control
  BY DEF Init, Control, ControlOf, Exchanging
<1>3. NumbersApart
  BY DEF Init, NumbersApart, Reserves
<1> QED
  BY <1>1, <1>2, <1>3 DEF IInv

(* All steps together.                                                     *)
LEMMA NextInv ==
  ASSUME IInv, [Next]_vars
  PROVE  IInv'
<1>1. ASSUME NEW t \in Tasks, Arrive(t) \/ Step(t) \/ Abort(t)
      PROVE  IInv'
  BY <1>1, ArriveInv, ReadPrincipalInv, ReadClientInv, StoreCodeInv, RedeemCodeInv,
     RedeemRefreshInv, ReadOwnerInv, StoreAccessInv, StoreRefreshInv, BearerInv, AbortInv
     DEF Step
<1>2. CASE Register \/ ChangeUser \/ Tick \/ UNCHANGED vars
  BY <1>2, BesideInv
<1> QED
  BY <1>1, <1>2 DEF Next, Finished

(* The tables and every task's locals keep their types, and every token    *)
(* descends from a code, for any number of requests in any order.          *)
THEOREM TypeCorrect == Spec => []TypeOK
<1>1. Init => IInv
  BY InitInv
<1>2. IInv /\ [Next]_vars => IInv'
  BY NextInv
<1>3. IInv => TypeOK
  BY DEF IInv
<1> QED
  BY <1>1, <1>2, <1>3, PTL DEF Spec

----------------------------------------------------------------------------
(* Safety: one holder per grant, tokens that keep what was consented to,   *)
(* requests that run within it.                                            *)

(* A code is the grant of what descends from it.                           *)
CodesAreGrants == \A x \in DOMAIN codes : grantOf[x] = x

(* A task that exchanges carries what the consent says, one that checks a  *)
(* bearer what the token says, and one about to store the second token of  *)
(* a pair has stored the first.                                            *)
Faithful(t) ==
  LET l == local[t]
      code == codes[Grant(t)]
  IN /\ Exchanging(t) =>
          l.client = code.client /\ l.user = code.user /\ l.scope = code.scope
     /\ pc[t] = "bearer" =>
          l.user = access[l.token].user /\ l.scope = access[l.token].scope
     /\ pc[t] = "refresh" => l.fresh \in DOMAIN access

SInv ==
  /\ IInv
  /\ CodesAreGrants
  /\ OneHolder
  /\ TokensKeepTheirGrant
  /\ \A t \in Tasks : Faithful(t)

(* No task but t moves.                                                    *)
OthersStand(t) ==
  \A u \in Tasks \ {t} : pc'[u] = pc[u] /\ local'[u] = local[u]

(* A step of one task moves no other.                                      *)
LEMMA OthersStandStill ==
  ASSUME NEW t \in Tasks, Arrive(t) \/ Step(t) \/ Abort(t), TypeOK
  PROVE  OthersStand(t)
<1> USE DEF OthersStand, Goto, Answer, Begin, TypeOK
<1>1. CASE Arrive(t)
  BY <1>1 DEF Arrive, BeginConsent, BeginExchange, BeginRefresh, BeginCall
<1>2. CASE ReadPrincipal(t) \/ ReadClient(t) \/ StoreCode(t)
  BY <1>2 DEF ReadPrincipal, ReadClient, StoreCode
<1>3. CASE RedeemCode(t) \/ RedeemRefresh(t)
  BY <1>3 DEF RedeemCode, RedeemRefresh, IssueFor
<1>4. CASE ReadOwner(t) \/ StoreAccess(t) \/ StoreRefresh(t)
  BY <1>4 DEF ReadOwner, StoreAccess, StoreRefresh
<1>5. CASE FindToken(t) \/ ReadBearer(t) \/ Serve(t) \/ Abort(t)
  BY <1>5 DEF FindToken, ReadBearer, Serve, Abort
<1> QED
  BY <1>1, <1>2, <1>3, <1>4, <1>5 DEF Step

(* A step that touches no token and takes up no grant keeps every holder.  *)
LEMMA QuietSafe ==
  ASSUME SInv, IInv', NEW t \in Tasks, OthersStand(t), Faithful(t)',
         UNCHANGED <<codes, access, refresh, grantOf>>,
         Exchanging(t)' => Exchanging(t) /\ local'[t].token = local[t].token
  PROVE  SInv'
<1>1. CodesAreGrants' /\ TokensKeepTheirGrant'
  BY DEF SInv, CodesAreGrants, TokensKeepTheirGrant
<1>2. \A u \in Tasks : Faithful(u)'
  <2> SUFFICES ASSUME NEW u \in Tasks \ {t} PROVE Faithful(u)'
    OBVIOUS
  <2> QED
    BY DEF SInv, OthersStand, Faithful, Exchanging, Grant
<1>3. \A u \in Tasks : Exchanging(u)' => Exchanging(u) /\ Grant(u)' = Grant(u)
  BY DEF OthersStand, Exchanging, Grant
<1>4. \A r : LiveRefresh(r)' <=> LiveRefresh(r)
  BY DEF LiveRefresh
<1>5. OneHolder'
  BY <1>3, <1>4 DEF SInv, OneHolder
<1> QED
  BY <1>1, <1>2, <1>5 DEF SInv

(* An answer is quiet.                                                     *)
LEMMA AnswerSafe ==
  ASSUME SInv, IInv', NEW t \in Tasks, OthersStand(t), NEW outcome, Answer(t, outcome),
         UNCHANGED <<codes, access, refresh, grantOf>>
  PROVE  SInv'
<1>1. pc'[t] = "idle"
  BY DEF Answer, SInv, IInv, TypeOK
<1>2. Faithful(t)' /\ ~Exchanging(t)'
  BY <1>1 DEF Faithful, Exchanging
<1> QED
  BY <1>2, QuietSafe

(* Requests arrive, consents are read, and bearers checked.                *)
LEMMA ReadingSafe ==
  ASSUME SInv, IInv', NEW t \in Tasks, OthersStand(t),
         \/ Arrive(t) \/ ReadPrincipal(t) \/ ReadClient(t)
         \/ FindToken(t) \/ ReadBearer(t) \/ Serve(t) \/ Abort(t)
  PROVE  SInv'
<1>0. TypeOK
  BY DEF SInv, IInv
<1>1. UNCHANGED <<codes, access, refresh, grantOf>>
  BY DEF Arrive, BeginConsent, BeginExchange, BeginRefresh, BeginCall, Begin, ReadPrincipal,
     ReadClient, FindToken, ReadBearer, Serve, Abort, tables
<1>2. CASE \E outcome : Answer(t, outcome)
  BY <1>1, <1>2, AnswerSafe
<1>3. CASE \E c \in {"principal", "redeem", "rotate", "token", "client", "grant", "run"} :
             pc' = [pc EXCEPT ![t] = c]
  <2>1. Faithful(t)' /\ ~Exchanging(t)'
    BY <1>0, <1>3 DEF TypeOK, Faithful, Exchanging
  <2> QED
    BY <1>1, <2>1, QuietSafe
<1>4. CASE FindToken(t) /\ Goto(t, "bearer")
  <2>1. pc[t] = "token" /\ pc'[t] = "bearer"
    BY <1>0, <1>4 DEF FindToken, Goto, TypeOK
  <2> DEFINE a == access[local[t].token]
  <2>2. local' = [local EXCEPT ![t].user = a.user, ![t].scope = a.scope, ![t].client = a.client]
    BY <1>0, <1>4, <2>1 DEF FindToken, Answer, TypeOK
  <2> HIDE DEF a
  <2>3. local[t] \in Local
    BY <1>0 DEF TypeOK
  <2>4. /\ local'[t].user = a.user /\ local'[t].scope = a.scope
        /\ local'[t].token = local[t].token
    BY <1>0, <2>2, <2>3 DEF TypeOK, Local
  <2>5. Faithful(t)' /\ ~Exchanging(t)'
    BY <1>1, <2>1, <2>4 DEF Faithful, Exchanging, a
  <2> QED
    BY <1>1, <2>5, QuietSafe
<1> QED
  BY <1>2, <1>3, <1>4
     DEF Arrive, BeginConsent, BeginExchange, BeginRefresh, BeginCall, Begin, ReadPrincipal,
     ReadClient, FindToken, ReadBearer, Serve, Abort, Goto

(* The owner of the grant is read: the task keeps its grant.               *)
LEMMA ReadOwnerSafe ==
  ASSUME SInv, IInv', NEW t \in Tasks, OthersStand(t), ReadOwner(t)
  PROVE  SInv'
<1>1. UNCHANGED <<codes, access, refresh, grantOf>> /\ TypeOK /\ pc[t] = "owner" /\ Faithful(t)
  BY DEF ReadOwner, SInv, IInv
<1>2. CASE Answer(t, "invalid_grant")
  BY <1>1, <1>2, AnswerSafe
<1>3. CASE /\ Goto(t, "access")
           /\ local' = [local EXCEPT ![t].fresh = minted + 1, ![t].at = now]
  <2>1. local[t] \in Local
    BY <1>1 DEF TypeOK
  <2>2. /\ local'[t].client = local[t].client /\ local'[t].user = local[t].user
        /\ local'[t].scope = local[t].scope /\ local'[t].token = local[t].token
    BY <1>1, <1>3, <2>1 DEF TypeOK, Local
  <2>3. pc'[t] = "access"
    BY <1>1, <1>3 DEF Goto, TypeOK
  <2>4. Exchanging(t) /\ Faithful(t)'
    BY <1>1, <2>2, <2>3 DEF Faithful, Exchanging, Grant
  <2> QED
    BY <1>1, <2>2, <2>4, QuietSafe
<1> QED
  BY <1>2, <1>3 DEF ReadOwner

----------------------------------------------------------------------------
(* Rows keep what was consented to, and tokens their grant.                *)
RowsKept ==
  /\ \A x \in DOMAIN codes :
       /\ x \in DOMAIN codes' /\ codes'[x].client = codes[x].client
       /\ codes'[x].user = codes[x].user /\ codes'[x].scope = codes[x].scope
  /\ \A a \in DOMAIN access : a \in DOMAIN access' /\ access'[a] = access[a]
  /\ \A x \in DOMAIN grantOf : x \in DOMAIN grantOf' /\ grantOf'[x] = grantOf[x]

(* What the other tasks carry stays true when a step only adds rows.       *)
LEMMA OthersKept ==
  ASSUME SInv, NEW t \in Tasks, OthersStand(t), RowsKept, NEW u \in Tasks \ {t}
  PROVE  /\ Faithful(u)'
         /\ Exchanging(u)' <=> Exchanging(u)
         /\ Exchanging(u) => Grant(u)' = Grant(u)
<1>1. TypeOK /\ ControlOf(u) /\ Faithful(u) /\ pc'[u] = pc[u] /\ local'[u] = local[u]
  BY TaskFacts DEF SInv, OthersStand
<1>2. Exchanging(u)' <=> Exchanging(u)
  BY <1>1 DEF Exchanging
<1>3. Exchanging(u) => Grant(u)' = Grant(u) /\ Grant(u) \in DOMAIN codes
  BY <1>1 DEF ControlOf, Grant, RowsKept, TypeOK
<1>4. pc[u] = "bearer" => local[u].token \in DOMAIN access
  BY <1>1 DEF ControlOf
<1>5. Faithful(u)'
  <2> DEFINE g == Grant(u)
  <2>1. Exchanging(u)' =>
          /\ local'[u].client = codes'[Grant(u)'].client
          /\ local'[u].user = codes'[Grant(u)'].user
          /\ local'[u].scope = codes'[Grant(u)'].scope
    BY <1>1, <1>2, <1>3 DEF Faithful, RowsKept
  <2>2. pc'[u] = "bearer" =>
          /\ local'[u].user = access'[local'[u].token].user
          /\ local'[u].scope = access'[local'[u].token].scope
    BY <1>1, <1>4 DEF Faithful, RowsKept
  <2>3. pc'[u] = "refresh" => local'[u].fresh \in DOMAIN access'
    BY <1>1 DEF Faithful, RowsKept
  <2> QED
    BY <2>1, <2>2, <2>3 DEF Faithful
<1> QED
  BY <1>2, <1>3, <1>5

(* A new code: nothing descends from its number yet.                       *)
LEMMA StoreCodeSafe ==
  ASSUME SInv, IInv', NEW t \in Tasks, OthersStand(t), StoreCode(t)
  PROVE  SInv'
<1> DEFINE l == local[t]
           n == l.fresh
           row == [client |-> l.client, user |-> l.user, uri |-> l.uri, scope |-> l.scope,
                   challenge |-> l.proof, expires |-> l.at + CodeTtl, consumed |-> FALSE]
<1>1. pc[t] = "grant" /\ TypeOK /\ NumbersApart
  BY DEF StoreCode, SInv, IInv
<1>2. n \notin DOMAIN grantOf
  BY <1>1 DEF NumbersApart, Reserves
<1>3. codes' = Put(codes, n, row) /\ grantOf' = Put(grantOf, n, n)
  BY DEF StoreCode
<1>4. UNCHANGED <<access, refresh>> /\ pc'[t] = "idle"
  BY <1>1 DEF StoreCode, Answer, TypeOK
<1> HIDE DEF row, n
<1>5. /\ DOMAIN codes' = DOMAIN codes \cup {n}
      /\ \A j \in DOMAIN codes \ {n} : codes'[j] = codes[j]
      /\ DOMAIN grantOf' = DOMAIN grantOf \cup {n} /\ grantOf'[n] = n
      /\ \A j \in DOMAIN grantOf \ {n} : grantOf'[j] = grantOf[j]
  BY <1>3 DEF Put
<1>6. /\ n \notin DOMAIN codes /\ n \notin DOMAIN access /\ n \notin DOMAIN refresh
      /\ \A x \in DOMAIN grantOf : grantOf[x] \in DOMAIN codes
      /\ DOMAIN codes \cup DOMAIN access \cup DOMAIN refresh = DOMAIN grantOf
  BY <1>1, <1>2 DEF TypeOK
<1>7. RowsKept
  BY <1>2, <1>4, <1>5, <1>6 DEF RowsKept
<1>8. \A u \in Tasks : /\ Faithful(u)'
                       /\ Exchanging(u)' => u # t /\ Exchanging(u) /\ Grant(u)' = Grant(u)
  BY <1>4, <1>7, OthersKept DEF Faithful, Exchanging
<1>9. CodesAreGrants'
  BY <1>5, <1>6 DEF SInv, CodesAreGrants
<1>10. TokensKeepTheirGrant'
  BY <1>4, <1>6, <1>7 DEF SInv, TokensKeepTheirGrant, RowsKept
<1>11. OneHolder'
  <2>1. \A r : LiveRefresh(r)' =>
          LiveRefresh(r) /\ grantOf'[r] = grantOf[r] /\ grantOf[r] \in DOMAIN codes
    BY <1>4, <1>6, <1>7 DEF LiveRefresh, RowsKept
  <2>2. \A u \in Tasks : Exchanging(u) => Grant(u) \in DOMAIN codes
    BY <1>6, TaskFacts DEF SInv, ControlOf, Grant
  <2>3. \A x \in DOMAIN codes' : x \in DOMAIN codes \/ x = n
    BY <1>5
  <2>4. \A x \in DOMAIN codes : codes'[x] = codes[x]
    BY <1>5, <1>6
  <2>5. \A x \in DOMAIN codes' : ~codes'[x].consumed =>
          /\ \A r \in DOMAIN refresh' : LiveRefresh(r)' => grantOf'[r] # x
          /\ \A u \in Tasks : Exchanging(u)' => Grant(u)' # x
    BY <1>4, <1>6, <1>8, <2>1, <2>2, <2>3, <2>4 DEF SInv, OneHolder
  <2>6. \A r \in DOMAIN refresh' : LiveRefresh(r)' =>
          /\ \A q \in DOMAIN refresh' : LiveRefresh(q)' /\ grantOf'[q] = grantOf'[r] => q = r
          /\ \A u \in Tasks : Exchanging(u)' => Grant(u)' # grantOf'[r]
    BY <1>4, <1>8, <2>1 DEF SInv, OneHolder
  <2>7. \A u, v \in Tasks :
          Exchanging(u)' /\ Exchanging(v)' /\ Grant(u)' = Grant(v)' => u = v
    BY <1>8 DEF SInv, OneHolder
  <2> QED
    BY <2>5, <2>6, <2>7 DEF OneHolder
<1> QED
  BY <1>8, <1>9, <1>10, <1>11 DEF SInv

(* The baton passes from a code or refresh token to one task.              *)
LEMMA TakeUpSafe ==
  ASSUME SInv, IInv', NEW t \in Tasks, OthersStand(t), UNCHANGED <<access, grantOf>>,
         RowsKept, DOMAIN codes' = DOMAIN codes, DOMAIN refresh' = DOMAIN refresh,
         \A r \in DOMAIN refresh :
           /\ refresh'[r].client = refresh[r].client /\ refresh'[r].user = refresh[r].user
           /\ refresh'[r].scope = refresh[r].scope
           /\ refresh[r].revoked => refresh'[r].revoked,
         \A x \in DOMAIN codes : codes[x].consumed => codes'[x].consumed,
         Faithful(t)', NEW g,
         Exchanging(t)' => Grant(t)' = g,
         \A x \in DOMAIN codes : ~codes'[x].consumed => x # g,
         \A r \in DOMAIN refresh : LiveRefresh(r)' => grantOf[r] # g,
         \A u \in Tasks : Exchanging(u) => Grant(u) # g
  PROVE  SInv'
<1>1. \A u \in Tasks : /\ Faithful(u)'
                       /\ Exchanging(u)' =>
                            \/ u = t /\ Grant(u)' = g
                            \/ u # t /\ Exchanging(u) /\ Grant(u)' = Grant(u)
  BY OthersKept
<1>2. CodesAreGrants'
  BY DEF SInv, CodesAreGrants
<1>3. \A x \in DOMAIN grantOf : grantOf[x] \in DOMAIN codes
  BY DEF SInv, IInv, TypeOK
<1>4. DOMAIN access \subseteq DOMAIN grantOf /\ DOMAIN refresh \subseteq DOMAIN grantOf
  BY DEF SInv, IInv, TypeOK
<1>5. TokensKeepTheirGrant'
  BY <1>3, <1>4 DEF SInv, TokensKeepTheirGrant, RowsKept
<1>6. \A r : LiveRefresh(r)' => LiveRefresh(r)
  BY DEF LiveRefresh
<1>7. OneHolder'
  <2>1. \A x \in DOMAIN codes' : ~codes'[x].consumed =>
          /\ \A r \in DOMAIN refresh' : LiveRefresh(r)' => grantOf'[r] # x
          /\ \A u \in Tasks : Exchanging(u)' => Grant(u)' # x
    BY <1>1, <1>6 DEF SInv, OneHolder
  <2>2. \A r \in DOMAIN refresh' : LiveRefresh(r)' =>
          /\ \A q \in DOMAIN refresh' : LiveRefresh(q)' /\ grantOf'[q] = grantOf'[r] => q = r
          /\ \A u \in Tasks : Exchanging(u)' => Grant(u)' # grantOf'[r]
    BY <1>1, <1>6 DEF SInv, OneHolder
  <2>3. \A u, v \in Tasks :
          Exchanging(u)' /\ Exchanging(v)' /\ Grant(u)' = Grant(v)' => u = v
    BY <1>1 DEF SInv, OneHolder
  <2> QED
    BY <2>1, <2>2, <2>3 DEF OneHolder
<1> QED
  BY <1>1, <1>2, <1>5, <1>7 DEF SInv

(* What IssueFor makes of the locals.                                      *)
LEMMA IssueForLocals ==
  ASSUME TypeOK, NEW t \in Tasks, NEW row, IssueFor(t, row)
  PROVE  /\ pc'[t] = "owner"
         /\ local'[t].client = row.client /\ local'[t].user = row.user
         /\ local'[t].scope = row.scope /\ local'[t].token = local[t].token
<1>1. local[t] \in Local
  BY DEF TypeOK
<1> QED
  BY <1>1 DEF IssueFor, Goto, TypeOK, Local

(* An unused code has no other holder.                                     *)
LEMMA RedeemCodeSafe ==
  ASSUME SInv, IInv', NEW t \in Tasks, OthersStand(t), RedeemCode(t)
  PROVE  SInv'
<1> DEFINE x == local[t].token
<1>1. pc[t] = "redeem" /\ TypeOK /\ ControlOf(t)
  BY TaskFacts DEF RedeemCode, SInv
<1>2. x \in DOMAIN codes /\ codes[x] \in Code /\ grantOf[x] = x
  BY <1>1 DEF ControlOf, TypeOK, SInv, CodesAreGrants
<1>3. UNCHANGED <<access, refresh, grantOf>>
  BY DEF RedeemCode
<1>4. CASE Answer(t, "invalid_grant") /\ UNCHANGED codes
  BY <1>3, <1>4, AnswerSafe
<1>5. CASE /\ UsableCode(x, local[t].at)
           /\ codes' = [codes EXCEPT ![x].consumed = TRUE]
           /\ IssueFor(t, codes[x]) \/ Answer(t, "invalid_grant")
  <2>1. /\ ~codes[x].consumed /\ codes'[x].consumed
        /\ codes'[x].client = codes[x].client /\ codes'[x].user = codes[x].user
        /\ codes'[x].scope = codes[x].scope
        /\ DOMAIN codes' = DOMAIN codes
        /\ \A y \in DOMAIN codes \ {x} : codes'[y] = codes[y]
    BY <1>2, <1>5 DEF Code, UsableCode
  <2>2. RowsKept
    BY <1>3, <2>1 DEF RowsKept
  <2>3. /\ Faithful(t)'
        /\ Exchanging(t)' => Grant(t)' = x
    <3>1. CASE Answer(t, "invalid_grant")
      BY <1>1, <3>1 DEF Answer, TypeOK, Faithful, Exchanging
    <3>2. CASE IssueFor(t, codes[x])
      <4>1. /\ pc'[t] = "owner" /\ local'[t].token = x
            /\ local'[t].client = codes[x].client /\ local'[t].user = codes[x].user
            /\ local'[t].scope = codes[x].scope
        BY <1>1, <3>2, IssueForLocals
      <4>2. Grant(t)' = x
        BY <1>2, <1>3, <4>1 DEF Grant
      <4> QED
        BY <2>1, <4>1, <4>2 DEF Faithful
    <3> QED
      BY <1>5, <3>1, <3>2
  <2>4. /\ \A r \in DOMAIN refresh : LiveRefresh(r)' => grantOf[r] # x
        /\ \A u \in Tasks : Exchanging(u) => Grant(u) # x
    BY <1>2, <1>3, <2>1 DEF SInv, OneHolder, LiveRefresh
  <2>5. /\ \A y \in DOMAIN codes : ~codes'[y].consumed => y # x
        /\ \A y \in DOMAIN codes : codes[y].consumed => codes'[y].consumed
    BY <2>1
  <2> HIDE DEF x
  <2> QED
    BY <1>3, <2>1, <2>2, <2>3, <2>4, <2>5, TakeUpSafe
<1> QED
  BY <1>4, <1>5 DEF RedeemCode

(* Nor has a live refresh token.                                           *)
LEMMA RedeemRefreshSafe ==
  ASSUME SInv, IInv', NEW t \in Tasks, OthersStand(t), RedeemRefresh(t)
  PROVE  SInv'
<1> DEFINE x == local[t].token
           g == grantOf[x]
<1>1. pc[t] = "rotate" /\ TypeOK /\ ControlOf(t)
  BY TaskFacts DEF RedeemRefresh, SInv
<1>2. x \in DOMAIN refresh /\ refresh[x] \in Refresh /\ g \in DOMAIN codes
  BY <1>1 DEF ControlOf, TypeOK
<1>3. UNCHANGED <<access, codes, grantOf>>
  BY DEF RedeemRefresh
<1>4. CASE Answer(t, "invalid_grant") /\ UNCHANGED refresh
  BY <1>3, <1>4, AnswerSafe
<1>5. CASE /\ UsableRefresh(x, local[t].at)
           /\ refresh' = [refresh EXCEPT ![x].revoked = TRUE]
           /\ IssueFor(t, refresh[x]) \/ Answer(t, "invalid_grant")
  <2>1. /\ ~refresh[x].revoked /\ refresh'[x].revoked
        /\ refresh'[x].client = refresh[x].client /\ refresh'[x].user = refresh[x].user
        /\ refresh'[x].scope = refresh[x].scope
        /\ DOMAIN refresh' = DOMAIN refresh
        /\ \A y \in DOMAIN refresh \ {x} : refresh'[y] = refresh[y]
    BY <1>2, <1>5 DEF Refresh, UsableRefresh
  <2>2. RowsKept
    BY <1>3 DEF RowsKept
  <2>3. LiveRefresh(x)
    BY <1>2, <2>1 DEF LiveRefresh
  <2>4. /\ Faithful(t)'
        /\ Exchanging(t)' => Grant(t)' = g
    <3>1. CASE Answer(t, "invalid_grant")
      BY <1>1, <3>1 DEF Answer, TypeOK, Faithful, Exchanging
    <3>2. CASE IssueFor(t, refresh[x])
      <4>1. /\ pc'[t] = "owner" /\ local'[t].token = x
            /\ local'[t].client = refresh[x].client /\ local'[t].user = refresh[x].user
            /\ local'[t].scope = refresh[x].scope
        BY <1>1, <3>2, IssueForLocals
      <4>2. Grant(t)' = g
        BY <1>3, <4>1 DEF Grant
      <4>3. /\ refresh[x].client = codes[g].client /\ refresh[x].user = codes[g].user
            /\ refresh[x].scope = codes[g].scope
        BY <1>2 DEF SInv, TokensKeepTheirGrant
      <4> QED
        BY <1>3, <4>1, <4>2, <4>3 DEF Faithful
    <3> QED
      BY <1>5, <3>1, <3>2
  <2>5. \A r \in DOMAIN refresh : LiveRefresh(r)' => LiveRefresh(r) /\ r # x
    BY <2>1 DEF LiveRefresh
  <2>6. /\ \A r \in DOMAIN refresh : LiveRefresh(r)' => grantOf[r] # g
        /\ \A u \in Tasks : Exchanging(u) => Grant(u) # g
        /\ \A y \in DOMAIN codes : ~codes[y].consumed => y # g
    BY <1>2, <2>3, <2>5 DEF SInv, OneHolder
  <2>7. \A r \in DOMAIN refresh :
          /\ refresh'[r].client = refresh[r].client /\ refresh'[r].user = refresh[r].user
          /\ refresh'[r].scope = refresh[r].scope
          /\ refresh[r].revoked => refresh'[r].revoked
    BY <2>1
  <2> HIDE DEF x, g
  <2> QED
    BY <1>3, <2>1, <2>2, <2>4, <2>6, <2>7, TakeUpSafe
<1> QED
  BY <1>4, <1>5 DEF RedeemRefresh

(* The access token says what the locals of its task say.                  *)
LEMMA StoreAccessSafe ==
  ASSUME SInv, IInv', NEW t \in Tasks, OthersStand(t), StoreAccess(t)
  PROVE  SInv'
<1> DEFINE l == local[t]
           n == l.fresh
           g == Grant(t)
           row == [client |-> l.client, user |-> l.user, scope |-> l.scope,
                   expires |-> l.at + AccessTtl]
<1>1. /\ pc[t] = "access" /\ TypeOK /\ NumbersApart /\ ControlOf(t) /\ Faithful(t)
      /\ UNCHANGED <<codes, refresh, local>> /\ pc' = [pc EXCEPT ![t] = "refresh"]
  BY TaskFacts DEF StoreAccess, SInv, IInv, Goto
<1>2. n \notin DOMAIN grantOf
  BY <1>1 DEF NumbersApart, Reserves
<1>3. access' = Put(access, n, row) /\ grantOf' = Put(grantOf, n, g)
  BY DEF StoreAccess, Grant
<1>4. pc'[t] = "refresh" /\ Exchanging(t) /\ Exchanging(t)' /\ l.token \in DOMAIN grantOf
  BY <1>1 DEF TypeOK, Exchanging, ControlOf
<1>5. /\ row.client = codes[g].client /\ row.user = codes[g].user /\ row.scope = codes[g].scope
      /\ row.client = l.client /\ row.user = l.user /\ row.scope = l.scope
  BY <1>1, <1>4 DEF Faithful
<1> HIDE DEF row, n, g
<1>6. /\ DOMAIN access' = DOMAIN access \cup {n} /\ access'[n] = row
      /\ \A j \in DOMAIN access \ {n} : access'[j] = access[j]
      /\ DOMAIN grantOf' = DOMAIN grantOf \cup {n} /\ grantOf'[n] = g
      /\ \A j \in DOMAIN grantOf \ {n} : grantOf'[j] = grantOf[j]
  BY <1>3 DEF Put
<1>7. n \notin DOMAIN access /\ DOMAIN codes \cup DOMAIN access \cup DOMAIN refresh = DOMAIN grantOf
  BY <1>1, <1>2 DEF TypeOK
<1>8. RowsKept
  BY <1>1, <1>2, <1>6, <1>7 DEF RowsKept
<1>9. Grant(t)' = g
  BY <1>1, <1>4, <1>8 DEF Grant, RowsKept, g
<1>10. Faithful(t)'
  BY <1>1, <1>4, <1>5, <1>6, <1>9 DEF Faithful, n
<1>11. \A u \in Tasks : /\ Faithful(u)'
                        /\ Exchanging(u)' => Exchanging(u) /\ Grant(u)' = Grant(u)
  BY <1>4, <1>8, <1>9, <1>10, OthersKept DEF g
<1>12. CodesAreGrants' /\ \A r \in DOMAIN refresh : grantOf'[r] = grantOf[r]
  BY <1>1, <1>7, <1>8 DEF SInv, CodesAreGrants, RowsKept
<1>13. TokensKeepTheirGrant'
  <2>1. \A a \in DOMAIN access : grantOf'[a] = grantOf[a] /\ grantOf[a] \in DOMAIN codes
    BY <1>1, <1>7, <1>8 DEF RowsKept, TypeOK
  <2>2. \A a \in DOMAIN access : access'[a] = access[a]
    BY <1>8 DEF RowsKept
  <2>3. \A a \in DOMAIN access' : a = n \/ a \in DOMAIN access
    BY <1>6
  <2>4. \A a \in DOMAIN access' :
          /\ access'[a].client = codes[grantOf'[a]].client
          /\ access'[a].user = codes[grantOf'[a]].user
          /\ access'[a].scope = codes[grantOf'[a]].scope
    <3>1. \A a \in DOMAIN access :
            /\ access'[a].client = codes[grantOf'[a]].client
            /\ access'[a].user = codes[grantOf'[a]].user
            /\ access'[a].scope = codes[grantOf'[a]].scope
      BY <2>1, <2>2 DEF SInv, TokensKeepTheirGrant
    <3> QED
      BY <1>5, <1>6, <2>3, <3>1
  <2> QED
    BY <1>1, <1>12, <2>4 DEF SInv, TokensKeepTheirGrant
<1>14. \A r : LiveRefresh(r)' <=> LiveRefresh(r)
  BY <1>1 DEF LiveRefresh
<1>15. OneHolder'
  BY <1>1, <1>11, <1>12, <1>14 DEF SInv, OneHolder
<1> QED
  BY <1>11, <1>12, <1>13, <1>15 DEF SInv

(* The exchange lays its grant down as the one live refresh token.         *)
LEMMA StoreRefreshSafe ==
  ASSUME SInv, IInv', NEW t \in Tasks, OthersStand(t), StoreRefresh(t)
  PROVE  SInv'
<1> DEFINE l == local[t]
           n == Partner(l.fresh)
           g == Grant(t)
           row == [client |-> l.client, user |-> l.user, scope |-> l.scope,
                   expires |-> l.at + RefreshTtl, revoked |-> FALSE]
<1>1. /\ pc[t] = "refresh" /\ TypeOK /\ NumbersApart /\ ControlOf(t) /\ Faithful(t)
      /\ UNCHANGED <<codes, access>> /\ Answer(t, "tokens")
  BY TaskFacts DEF StoreRefresh, SInv, IInv
<1>2. n \notin DOMAIN grantOf
  BY <1>1 DEF NumbersApart, Reserves
<1>3. refresh' = Put(refresh, n, row) /\ grantOf' = Put(grantOf, n, g)
  BY DEF StoreRefresh, Grant
<1>4. pc'[t] = "idle" /\ Exchanging(t) /\ ~Exchanging(t)' /\ l.token \in DOMAIN grantOf
  BY <1>1 DEF TypeOK, Exchanging, ControlOf, Answer
<1>5. row.client = codes[g].client /\ row.user = codes[g].user /\ row.scope = codes[g].scope
  BY <1>1, <1>4 DEF Faithful
<1> HIDE DEF row, n
<1>6. /\ DOMAIN refresh' = DOMAIN refresh \cup {n} /\ refresh'[n] = row
      /\ \A j \in DOMAIN refresh \ {n} : refresh'[j] = refresh[j]
      /\ DOMAIN grantOf' = DOMAIN grantOf \cup {n} /\ grantOf'[n] = g
      /\ \A j \in DOMAIN grantOf \ {n} : grantOf'[j] = grantOf[j]
  BY <1>3 DEF Put
<1>7. /\ n \notin DOMAIN refresh
      /\ DOMAIN codes \cup DOMAIN access \cup DOMAIN refresh = DOMAIN grantOf
  BY <1>1, <1>2 DEF TypeOK
<1>8. RowsKept
  BY <1>1, <1>2, <1>6, <1>7 DEF RowsKept
<1>9. \A u \in Tasks : /\ Faithful(u)'
                       /\ Exchanging(u)' => u # t /\ Exchanging(u) /\ Grant(u)' = Grant(u)
  BY <1>4, <1>8, OthersKept DEF Faithful, Exchanging
<1>10. CodesAreGrants' /\ \A a \in DOMAIN access : grantOf'[a] = grantOf[a]
  BY <1>1, <1>7, <1>8 DEF SInv, CodesAreGrants, RowsKept
<1>11. /\ \A r \in DOMAIN refresh : grantOf'[r] = grantOf[r] /\ refresh'[r] = refresh[r]
       /\ \A r \in DOMAIN refresh' : r = n \/ r \in DOMAIN refresh
  BY <1>6, <1>7, <1>8 DEF RowsKept
<1>12. TokensKeepTheirGrant'
  <2>1. \A r \in DOMAIN refresh :
          /\ refresh'[r].client = codes[grantOf'[r]].client
          /\ refresh'[r].user = codes[grantOf'[r]].user
          /\ refresh'[r].scope = codes[grantOf'[r]].scope
    BY <1>11 DEF SInv, TokensKeepTheirGrant
  <2>2. \A r \in DOMAIN refresh' :
          /\ refresh'[r].client = codes[grantOf'[r]].client
          /\ refresh'[r].user = codes[grantOf'[r]].user
          /\ refresh'[r].scope = codes[grantOf'[r]].scope
    BY <1>5, <1>6, <1>11, <2>1
  <2> QED
    BY <1>1, <1>10, <2>2 DEF SInv, TokensKeepTheirGrant
<1>13. OneHolder'
  <2>1. \A r : LiveRefresh(r)' =>
          \/ r = n /\ grantOf'[r] = g
          \/ r # n /\ LiveRefresh(r) /\ grantOf'[r] = grantOf[r]
    BY <1>6, <1>7, <1>11 DEF LiveRefresh
  <2>2. /\ \A x \in DOMAIN codes : ~codes[x].consumed => g # x
        /\ \A r \in DOMAIN refresh : LiveRefresh(r) => g # grantOf[r]
        /\ \A u \in Tasks : Exchanging(u) /\ u # t => Grant(u) # g
    BY <1>4 DEF SInv, OneHolder
  <2>3. \A r : LiveRefresh(r) => r \in DOMAIN refresh
    BY DEF LiveRefresh
  <2> HIDE DEF g
  <2>4. \A x \in DOMAIN codes' : ~codes'[x].consumed =>
          /\ \A r \in DOMAIN refresh' : LiveRefresh(r)' => grantOf'[r] # x
          /\ \A u \in Tasks : Exchanging(u)' => Grant(u)' # x
    BY <1>1, <1>9, <2>1, <2>2, <2>3 DEF SInv, OneHolder
  <2>5. \A r \in DOMAIN refresh' : LiveRefresh(r)' =>
          /\ \A q \in DOMAIN refresh' : LiveRefresh(q)' /\ grantOf'[q] = grantOf'[r] => q = r
          /\ \A u \in Tasks : Exchanging(u)' => Grant(u)' # grantOf'[r]
    BY <1>9, <2>1, <2>2, <2>3 DEF SInv, OneHolder
  <2>6. \A u, v \in Tasks :
          Exchanging(u)' /\ Exchanging(v)' /\ Grant(u)' = Grant(v)' => u = v
    BY <1>9 DEF SInv, OneHolder
  <2> QED
    BY <2>4, <2>5, <2>6 DEF OneHolder
<1> QED
  BY <1>9, <1>10, <1>12, <1>13 DEF SInv

----------------------------------------------------------------------------
(* The invariant holds at first and is kept by every step.                 *)
LEMMA SInvInit == Init => SInv
<1> SUFFICES ASSUME Init PROVE SInv
  OBVIOUS
<1>1. IInv
  BY InitInv
<1>2. /\ DOMAIN codes = {} /\ DOMAIN access = {} /\ DOMAIN refresh = {}
      /\ \A t \in Tasks : pc[t] = "idle"
  BY DEF Init
<1>3. \A t \in Tasks : ~Exchanging(t) /\ Faithful(t)
  BY <1>2 DEF Exchanging, Faithful
<1> QED
  BY <1>1, <1>2, <1>3 DEF SInv, CodesAreGrants, OneHolder, TokensKeepTheirGrant

(* Every step keeps the invariant.                                         *)
LEMMA SInvNext ==
  ASSUME SInv, [Next]_vars
  PROVE  SInv'
<1>1. IInv'
  BY NextInv DEF SInv
<1>2. ASSUME NEW t \in Tasks, Arrive(t) \/ Step(t) \/ Abort(t)
      PROVE  SInv'
  <2>1. OthersStand(t)
    BY <1>2, OthersStandStill DEF SInv, IInv
  <2> QED
    BY <1>1, <1>2, <2>1, ReadingSafe, ReadOwnerSafe, StoreCodeSafe, RedeemCodeSafe,
       RedeemRefreshSafe, StoreAccessSafe, StoreRefreshSafe DEF Step
<1>3. CASE Register \/ ChangeUser \/ Tick \/ UNCHANGED vars
  <2>1. UNCHANGED <<codes, access, refresh, grantOf, pc, local>>
    BY <1>3 DEF Register, ChangeUser, Tick, vars, tables
  <2>2. \A t \in Tasks : Faithful(t)'
    BY <2>1 DEF SInv, Faithful, Exchanging, Grant
  <2>3. CodesAreGrants' /\ TokensKeepTheirGrant'
    BY <2>1 DEF SInv, CodesAreGrants, TokensKeepTheirGrant
  <2>4. OneHolder'
    BY <2>1 DEF SInv, OneHolder, Exchanging, Grant, LiveRefresh
  <2> QED
    BY <1>1, <2>2, <2>3, <2>4 DEF SInv
<1> QED
  BY <1>2, <1>3 DEF Next, Finished

(* Whatever requests race for a code or a refresh token, each approved     *)
(* authorization is in one hand at a time.                                 *)
THEOREM HoldersAreOne == Spec => []OneHolder
<1>1. SInv => OneHolder
  BY DEF SInv
<1> QED
  BY <1>1, SInvInit, SInvNext, PTL DEF Spec

(* Client, user and scope of every token are those of the consent, after   *)
(* any number of refreshes.                                                *)
THEOREM GrantsAreKept == Spec => []TokensKeepTheirGrant
<1>1. SInv => TokensKeepTheirGrant
  BY DEF SInv
<1> QED
  BY <1>1, SInvInit, SInvNext, PTL DEF Spec

----------------------------------------------------------------------------
(* Only the bearer check lets a request run.                               *)
LEMMA OnlyBearersRun ==
  ASSUME TypeOK, [Next]_vars, NEW t \in Tasks, pc[t] # "run", pc'[t] = "run"
  PROVE  ReadBearer(t)
<1>1. CASE Register \/ ChangeUser \/ Tick \/ UNCHANGED vars
  BY <1>1 DEF Register, ChangeUser, Tick, vars
<1>2. ASSUME NEW u \in Tasks, Arrive(u) \/ Step(u) \/ Abort(u)
      PROVE  ReadBearer(t)
  <2>1. u = t
    BY <1>2, OthersStandStill DEF OthersStand
  <2> USE DEF TypeOK, Goto, Answer
  <2>2. ~Arrive(t)
    BY DEF Arrive, BeginConsent, BeginExchange, BeginRefresh, BeginCall, Begin
  <2>3. ~ReadPrincipal(t) /\ ~ReadClient(t) /\ ~StoreCode(t)
    BY DEF ReadPrincipal, ReadClient, StoreCode
  <2>4. ~RedeemCode(t) /\ ~RedeemRefresh(t)
    BY DEF RedeemCode, RedeemRefresh, IssueFor
  <2>5. ~ReadOwner(t) /\ ~StoreAccess(t) /\ ~StoreRefresh(t)
    BY DEF ReadOwner, StoreAccess, StoreRefresh
  <2>6. ~FindToken(t) /\ ~Serve(t) /\ ~Abort(t)
    BY DEF FindToken, Serve, Abort
  <2> QED
    BY <1>2, <2>1, <2>2, <2>3, <2>4, <2>5, <2>6 DEF Step
<1> QED
  BY <1>1, <1>2 DEF Next, Finished

(* Only the last insert answers with tokens.                               *)
LEMMA OnlyPairsAnswer ==
  ASSUME TypeOK, [Next]_vars, NEW t \in Tasks,
         pc[t] # "idle", pc'[t] = "idle", reply'[t] = "tokens"
  PROVE  StoreRefresh(t)
<1>1. CASE Register \/ ChangeUser \/ Tick \/ UNCHANGED vars
  BY <1>1 DEF Register, ChangeUser, Tick, vars
<1>2. ASSUME NEW u \in Tasks, Arrive(u) \/ Step(u) \/ Abort(u)
      PROVE  StoreRefresh(t)
  <2>1. u = t
    BY <1>2, OthersStandStill DEF OthersStand
  <2> USE DEF TypeOK, Goto, Answer
  <2>2. ~Arrive(t)
    BY DEF Arrive, BeginConsent, BeginExchange, BeginRefresh, BeginCall, Begin
  <2>3. ~ReadPrincipal(t) /\ ~ReadClient(t) /\ ~StoreCode(t)
    BY DEF ReadPrincipal, ReadClient, StoreCode
  <2>4. ~RedeemCode(t) /\ ~RedeemRefresh(t)
    BY DEF RedeemCode, RedeemRefresh, IssueFor
  <2>5. ~ReadOwner(t) /\ ~StoreAccess(t)
    BY DEF ReadOwner, StoreAccess
  <2>6. ~FindToken(t) /\ ~ReadBearer(t) /\ ~Serve(t) /\ ~Abort(t)
    BY DEF FindToken, ReadBearer, Serve, Abort
  <2> QED
    BY <1>2, <2>1, <2>2, <2>3, <2>4, <2>5, <2>6 DEF Step
<1> QED
  BY <1>1, <1>2 DEF Next, Finished

(* A demotion or deactivation reaches every token that is out: requests    *)
(* start within the consent and the user's role of that moment.            *)
THEOREM DemotionsReachTokens == Spec => RunsWithinGrantAndRole
<1>1. ASSUME SInv, [Next]_vars, NEW t \in Tasks, pc[t] # "run", pc'[t] = "run"
      PROVE  /\ users[codes[Grant(t)].user].active
             /\ local'[t].scope \subseteq
                  codes[Grant(t)].scope \cap RoleScopes(users[codes[Grant(t)].user].role)
  <2>1. TypeOK /\ ControlOf(t) /\ Faithful(t) /\ local[t] \in Local
    BY <1>1, TaskFacts DEF SInv
  <2>2. ReadBearer(t)
    BY <1>1, <2>1, OnlyBearersRun
  <2> DEFINE l == local[t]
             code == codes[Grant(t)]
             u == users[l.user]
  <2>3. l.token \in DOMAIN access /\ l.user = access[l.token].user
        /\ l.scope = access[l.token].scope
    BY <2>1, <2>2 DEF ControlOf, Faithful, ReadBearer
  <2>4. l.user = code.user /\ l.scope = code.scope
    BY <1>1, <2>3 DEF SInv, TokensKeepTheirGrant, Grant
  <2>5. u.active /\ local' = [local EXCEPT ![t].scope = l.scope \cap RoleScopes(u.role)]
    BY <1>1, <2>1, <2>2 DEF ReadBearer, Answer, TypeOK
  <2>6. local'[t].scope = l.scope \cap RoleScopes(u.role)
    BY <2>1, <2>5 DEF TypeOK, Local
  <2> QED
    BY <2>4, <2>5, <2>6
<1>2. SInv /\ [Next]_vars =>
        [\A t \in Tasks : pc[t] # "run" /\ pc'[t] = "run" =>
           LET code == codes[Grant(t)]
               u == users[code.user]
           IN  /\ u.active
               /\ local'[t].scope \subseteq code.scope \cap RoleScopes(u.role)]_vars
  BY <1>1
<1> QED
  BY <1>2, SInvInit, SInvNext, PTL DEF Spec, RunsWithinGrantAndRole

(* A pair that is answered is stored, whatever else ran between its two    *)
(* inserts.                                                                *)
THEOREM AnswersAreStored == Spec => AnsweredPairIsStored
<1>1. ASSUME SInv, [Next]_vars, NEW t \in Tasks,
             pc[t] # "idle", pc'[t] = "idle", reply'[t] = "tokens"
      PROVE  /\ local[t].fresh \in DOMAIN access'
             /\ Partner(local[t].fresh) \in DOMAIN refresh'
             /\ ~refresh'[Partner(local[t].fresh)].revoked
  <2>1. StoreRefresh(t) /\ Faithful(t)
    BY <1>1, OnlyPairsAnswer DEF SInv, IInv
  <2> DEFINE n == Partner(local[t].fresh)
             row == [client |-> local[t].client, user |-> local[t].user,
                     scope |-> local[t].scope, expires |-> local[t].at + RefreshTtl,
                     revoked |-> FALSE]
  <2>2. refresh' = Put(refresh, n, row) /\ access' = access /\ pc[t] = "refresh" /\ ~row.revoked
    BY <2>1 DEF StoreRefresh
  <2> HIDE DEF row, n
  <2>3. n \in DOMAIN refresh' /\ refresh'[n] = row
    BY <2>2 DEF Put
  <2> QED
    BY <2>1, <2>2, <2>3 DEF Faithful, n
<1>2. SInv /\ [Next]_vars =>
        [\A t \in Tasks : pc[t] # "idle" /\ pc'[t] = "idle" /\ reply'[t] = "tokens" =>
           /\ local[t].fresh \in DOMAIN access'
           /\ Partner(local[t].fresh) \in DOMAIN refresh'
           /\ ~refresh'[Partner(local[t].fresh)].revoked]_vars
  BY <1>1
<1> QED
  BY <1>2, SInvInit, SInvNext, PTL DEF Spec, AnsweredPairIsStored
=============================================================================
