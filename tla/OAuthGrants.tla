---------------------------- MODULE OAuthGrants -----------------------------
(***************************************************************************)
(* The life of a grant in the authorization server: what is spent stays    *)
(* spent, and codes, exchanges and refresh tokens implement the baton of   *)
(* Grant.                                                                  *)
(***************************************************************************)
EXTENDS OAuthProofs

(* Rows keep their expiry, and what was used up stays so.                  *)
RowsAge ==
  /\ \A x \in DOMAIN codes : codes'[x].expires = codes[x].expires
       /\ (~codes'[x].consumed => ~codes[x].consumed)
  /\ \A r \in DOMAIN refresh : refresh'[r].expires = refresh[r].expires
       /\ (~refresh'[r].revoked => ~refresh[r].revoked)
  /\ now' \in Nat /\ now' >= now

(* A refresh token comes from the task that exchanges its grant.           *)
RefreshDescends ==
  \A r \in DOMAIN refresh' \ DOMAIN refresh :
    \E t \in Tasks : Exchanging(t) /\ grantOf'[r] = Grant(t)

(* Where a task about to redeem, or exchanging, comes from.                *)
Descends(t) ==
  LET x == local'[t].token
      same == x = local[t].token
  IN /\ pc'[t] = "redeem" =>
          \/ pc[t] = "redeem" /\ same /\ local'[t].at = local[t].at
          \/ x \in DOMAIN codes /\ local'[t].at = now
     /\ pc'[t] = "rotate" =>
          \/ pc[t] = "rotate" /\ same /\ local'[t].at = local[t].at
          \/ x \in DOMAIN refresh /\ local'[t].at = now
     /\ Exchanging(t)' =>
          \/ Exchanging(t) /\ same
          \/ pc[t] = "redeem" /\ same /\ CodeOpen(x, local[t].at)
          \/ pc[t] = "rotate" /\ same /\ RefreshOpen(x, local[t].at)

(* Rows are added under fresh numbers, and a row only changes to used up.  *)
LEMMA TablesAge ==
  ASSUME SInv, [Next]_vars
  PROVE  RowsKept /\ RowsAge /\ RefreshDescends
<1>0. TypeOK /\ NumbersApart /\ now \in Nat
  BY DEF SInv, IInv, TypeOK
<1>1. DOMAIN codes \cup DOMAIN access \cup DOMAIN refresh = DOMAIN grantOf
  BY <1>0 DEF TypeOK
<1>2. CASE UNCHANGED <<codes, access, refresh, grantOf>> /\ now' \in {now, now + 1}
  BY <1>0, <1>2 DEF RowsKept, RowsAge, RefreshDescends
<1>3. CASE \E t \in Tasks : StoreCode(t)
  <2>1. PICK t \in Tasks : StoreCode(t)
    BY <1>3
  <2> DEFINE n == local[t].fresh
  <2>2. n \notin DOMAIN grantOf
    BY <1>0, <2>1 DEF NumbersApart, Reserves, StoreCode
  <2>3. PICK row : codes' = Put(codes, n, row)
    BY <2>1 DEF StoreCode
  <2>4. grantOf' = Put(grantOf, n, n) /\ UNCHANGED <<access, refresh, now>>
    BY <2>1 DEF StoreCode
  <2> HIDE DEF n
  <2> QED
    BY <1>0, <1>1, <2>2, <2>3, <2>4 DEF Put, RowsKept, RowsAge, RefreshDescends
<1>4. CASE \E t \in Tasks : StoreAccess(t)
  <2>1. PICK t \in Tasks : StoreAccess(t)
    BY <1>4
  <2> DEFINE n == local[t].fresh
  <2>2. n \notin DOMAIN grantOf
    BY <1>0, <2>1 DEF NumbersApart, Reserves, StoreAccess
  <2>3. PICK row : access' = Put(access, n, row)
    BY <2>1 DEF StoreAccess
  <2>4. (\E g : grantOf' = Put(grantOf, n, g)) /\ UNCHANGED <<codes, refresh, now>>
    BY <2>1 DEF StoreAccess
  <2> HIDE DEF n
  <2> QED
    BY <1>0, <1>1, <2>2, <2>3, <2>4 DEF Put, RowsKept, RowsAge, RefreshDescends
<1>5. CASE \E t \in Tasks : StoreRefresh(t)
  <2>1. PICK t \in Tasks : StoreRefresh(t)
    BY <1>5
  <2> DEFINE n == Partner(local[t].fresh)
             g == Grant(t)
  <2>2. n \notin DOMAIN grantOf /\ Exchanging(t)
    BY <1>0, <2>1 DEF NumbersApart, Reserves, StoreRefresh, Exchanging
  <2>3. PICK row : refresh' = Put(refresh, n, row)
    BY <2>1 DEF StoreRefresh
  <2>4. grantOf' = Put(grantOf, n, g) /\ UNCHANGED <<codes, access, now>>
    BY <2>1 DEF StoreRefresh, Grant
  <2> HIDE DEF n, g
  <2>5. /\ DOMAIN refresh' = DOMAIN refresh \cup {n} /\ grantOf'[n] = g
        /\ \A r \in DOMAIN refresh : refresh'[r] = refresh[r]
        /\ \A x \in DOMAIN grantOf : x \in DOMAIN grantOf' /\ grantOf'[x] = grantOf[x]
    BY <1>1, <2>2, <2>3, <2>4 DEF Put
  <2>6. RefreshDescends
    BY <2>2, <2>5 DEF RefreshDescends, g
  <2> QED
    BY <1>0, <2>4, <2>5, <2>6 DEF RowsKept, RowsAge
<1>6. CASE \E t \in Tasks : RedeemCode(t)
  <2>1. PICK t \in Tasks : RedeemCode(t)
    BY <1>6
  <2>2. UNCHANGED <<access, refresh, grantOf, now>>
    BY <2>1 DEF RedeemCode
  <2>3. codes' = codes \/ codes' = [codes EXCEPT ![local[t].token].consumed = TRUE]
    BY <2>1 DEF RedeemCode
  <2>4. \A x \in DOMAIN codes : codes[x] \in Code
    BY <1>0 DEF TypeOK
  <2> QED
    BY <1>0, <2>2, <2>3, <2>4 DEF RowsKept, RowsAge, RefreshDescends, Code
<1>7. CASE \E t \in Tasks : RedeemRefresh(t)
  <2>1. PICK t \in Tasks : RedeemRefresh(t)
    BY <1>7
  <2>2. UNCHANGED <<codes, access, grantOf, now>>
    BY <2>1 DEF RedeemRefresh
  <2>3. refresh' = refresh \/ refresh' = [refresh EXCEPT ![local[t].token].revoked = TRUE]
    BY <2>1 DEF RedeemRefresh
  <2>4. \A x \in DOMAIN refresh : refresh[x] \in Refresh
    BY <1>0 DEF TypeOK
  <2> QED
    BY <1>0, <2>2, <2>3, <2>4 DEF RowsKept, RowsAge, RefreshDescends, Refresh
<1>8. CASE \E t \in Tasks : \/ Arrive(t) \/ ReadPrincipal(t) \/ ReadClient(t) \/ ReadOwner(t)
                            \/ FindToken(t) \/ ReadBearer(t) \/ Serve(t) \/ Abort(t)
  <2>1. UNCHANGED <<codes, access, refresh, grantOf, now>>
    BY <1>8 DEF Arrive, BeginConsent, BeginExchange, BeginRefresh, BeginCall, Begin,
       ReadPrincipal, ReadClient, ReadOwner, FindToken, ReadBearer, Serve, Abort, tables
  <2> QED
    BY <1>2, <2>1
<1>9. CASE Register \/ ChangeUser \/ Tick \/ UNCHANGED vars
  <2>1. UNCHANGED <<codes, access, refresh, grantOf>> /\ now' \in {now, now + 1}
    BY <1>9 DEF Register, ChangeUser, Tick, vars, tables
  <2> QED
    BY <1>2, <2>1
<1> QED
  BY <1>3, <1>4, <1>5, <1>6, <1>7, <1>8, <1>9 DEF Next, Step, Finished

(* A request starts to redeem with the time of its arrival, and exchanges  *)
(* only what was good at that time.                                        *)
LEMMA TasksDescend ==
  ASSUME SInv, [Next]_vars, NEW t \in Tasks
  PROVE  Descends(t)
<1>0. TypeOK /\ ControlOf(t) /\ local[t] \in Local
  BY TaskFacts DEF SInv
<1>1. CASE pc'[t] = pc[t] /\ local'[t] = local[t]
  BY <1>1 DEF Descends, Exchanging
<1>2. CASE Register \/ ChangeUser \/ Tick \/ UNCHANGED vars
  BY <1>1, <1>2 DEF Register, ChangeUser, Tick, vars
<1>3. ASSUME NEW u \in Tasks, u # t, Arrive(u) \/ Step(u) \/ Abort(u)
      PROVE  Descends(t)
  BY <1>0, <1>1, <1>3, OthersStandStill DEF OthersStand
<1>4. CASE pc'[t] \notin {"redeem", "rotate", "owner", "access", "refresh"}
  BY <1>4 DEF Descends, Exchanging
<1>5. CASE BeginConsent(t) \/ BeginCall(t)
  BY <1>0, <1>4, <1>5 DEF BeginConsent, BeginCall, Begin, TypeOK
<1>6. CASE BeginExchange(t)
  <2>1. PICK x \in DOMAIN codes, f \in TokenForms :
          Begin(t, "redeem", [NoLocals EXCEPT !.token = x, !.client = f.client, !.uri = f.uri,
                                              !.proof = f.verifier, !.at = now])
    BY <1>6 DEF BeginExchange
  <2>2. pc'[t] = "redeem" /\ local'[t].token = x /\ local'[t].at = now
    BY <1>0, <2>1 DEF Begin, TypeOK, NoLocals
  <2> QED
    BY <2>2 DEF Descends, Exchanging
<1>7. CASE BeginRefresh(t)
  <2>1. PICK x \in DOMAIN refresh, f \in TokenForms :
          Begin(t, "rotate", [NoLocals EXCEPT !.token = x, !.client = f.client, !.at = now])
    BY <1>7 DEF BeginRefresh
  <2>2. pc'[t] = "rotate" /\ local'[t].token = x /\ local'[t].at = now
    BY <1>0, <2>1 DEF Begin, TypeOK, NoLocals
  <2> QED
    BY <2>2 DEF Descends, Exchanging
<1>8. CASE ReadPrincipal(t) \/ ReadClient(t) \/ StoreCode(t) \/ StoreRefresh(t) \/ FindToken(t)
             \/ ReadBearer(t) \/ Serve(t) \/ Abort(t)
  BY <1>0, <1>4, <1>8 DEF ReadPrincipal, ReadClient, StoreCode, StoreRefresh, FindToken,
     ReadBearer, Serve, Abort, Answer, Goto, TypeOK
<1>9. CASE RedeemCode(t)
  <2>1. CASE Answer(t, "invalid_grant")
    BY <1>0, <1>4, <2>1 DEF Answer, TypeOK
  <2>2. CASE UsableCode(local[t].token, local[t].at) /\ IssueFor(t, codes[local[t].token])
    <3>1. pc'[t] = "owner" /\ local'[t].token = local[t].token
      BY <1>0, <2>2, IssueForLocals
    <3>2. CodeOpen(local[t].token, local[t].at)
      <4>1. local[t].token \in DOMAIN codes /\ local[t].at \in Nat
        BY <1>0, <1>9 DEF ControlOf, RedeemCode, Local
      <4>2. codes[local[t].token].expires \in Nat
        BY <1>0, <4>1 DEF TypeOK, Code
      <4> QED
        BY <2>2, <4>1, <4>2 DEF UsableCode, Unexpired, CodeOpen
    <3> QED
      BY <1>9, <3>1, <3>2 DEF Descends, RedeemCode
  <2> QED
    BY <1>9, <2>1, <2>2 DEF RedeemCode
<1>10. CASE RedeemRefresh(t)
  <2>1. CASE Answer(t, "invalid_grant")
    BY <1>0, <1>4, <2>1 DEF Answer, TypeOK
  <2>2. CASE UsableRefresh(local[t].token, local[t].at) /\ IssueFor(t, refresh[local[t].token])
    <3>1. pc'[t] = "owner" /\ local'[t].token = local[t].token
      BY <1>0, <2>2, IssueForLocals
    <3>2. RefreshOpen(local[t].token, local[t].at)
      <4>1. local[t].token \in DOMAIN refresh /\ local[t].at \in Nat
        BY <1>0, <1>10 DEF ControlOf, RedeemRefresh, Local
      <4>2. refresh[local[t].token].expires \in Nat
        BY <1>0, <4>1 DEF TypeOK, Refresh
      <4> QED
        BY <2>2, <4>1, <4>2 DEF UsableRefresh, Unexpired, RefreshOpen
    <3> QED
      BY <1>10, <3>1, <3>2 DEF Descends, RedeemRefresh
  <2> QED
    BY <1>10, <2>1, <2>2 DEF RedeemRefresh
<1>11. CASE ReadOwner(t)
  <2>1. CASE Answer(t, "invalid_grant")
    BY <1>0, <1>4, <2>1 DEF Answer, TypeOK
  <2>2. CASE /\ local' = [local EXCEPT ![t].fresh = minted + 1, ![t].at = now]
             /\ Goto(t, "access")
    <3>1. pc'[t] = "access" /\ local'[t].token = local[t].token /\ Exchanging(t)
      BY <1>0, <1>11, <2>2 DEF Goto, TypeOK, Local, Exchanging, ReadOwner
    <3> QED
      BY <3>1 DEF Descends
  <2> QED
    BY <1>11, <2>1, <2>2 DEF ReadOwner
<1>12. CASE StoreAccess(t)
  <2>1. pc'[t] = "refresh" /\ local'[t].token = local[t].token /\ Exchanging(t)
    BY <1>0, <1>12 DEF StoreAccess, Goto, TypeOK, Exchanging
  <2> QED
    BY <2>1 DEF Descends
<1> QED
  BY <1>2, <1>3, <1>5, <1>6, <1>7, <1>8, <1>9, <1>10, <1>11, <1>12
     DEF Next, Arrive, Step, Finished

(* What can yield tokens after a step could do so before it.               *)
LEMMA AliveDescends ==
  ASSUME SInv, [Next]_vars, NEW g \in DOMAIN codes, Alive(g)'
  PROVE  Alive(g)
<1>0. /\ TypeOK /\ CodesAreGrants /\ now \in Nat /\ codes[g].expires \in Nat
      /\ \A t \in Tasks : ControlOf(t)
      /\ \A r \in DOMAIN refresh : r \in DOMAIN grantOf /\ refresh[r].expires \in Nat
      /\ \A x \in DOMAIN codes : x \in DOMAIN grantOf
  BY TaskFacts DEF SInv, IInv, TypeOK, Code, Refresh
<1>1. RowsKept /\ RowsAge /\ RefreshDescends
  BY TablesAge
<1>2. \A t \in Tasks : Descends(t)
  BY TasksDescend
<1>3. \A at : ~codes'[g].consumed /\ at < codes'[g].expires => CodeOpen(g, at)
  BY <1>1 DEF RowsAge, CodeOpen
<1>4. \A r \in DOMAIN refresh : \A at :
        ~refresh'[r].revoked /\ at < refresh'[r].expires =>
          RefreshOpen(r, at) /\ grantOf'[r] = grantOf[r]
  BY <1>0, <1>1 DEF RowsAge, RowsKept, RefreshOpen
<1>5. /\ CodeOpen(g, now') => CodeOpen(g, now)
      /\ \A r \in DOMAIN refresh : RefreshOpen(r, now') => RefreshOpen(r, now)
  BY <1>0, <1>1 DEF RowsAge, CodeOpen, RefreshOpen
<1>6. CASE CodeOpen(g, now)'
  BY <1>3, <1>5, <1>6 DEF CodeOpen, Alive
<1>7. CASE \E r \in DOMAIN refresh' : grantOf'[r] = g /\ RefreshOpen(r, now)'
  <2>1. PICK r \in DOMAIN refresh' : grantOf'[r] = g /\ RefreshOpen(r, now)'
    BY <1>7
  <2>2. CASE r \in DOMAIN refresh
    <3>1. RefreshOpen(r, now) /\ grantOf[r] = g
      BY <1>4, <1>5, <2>1, <2>2 DEF RefreshOpen
    <3> QED
      BY <2>2, <3>1 DEF Alive
  <2>3. CASE r \notin DOMAIN refresh
    BY <1>1, <2>1, <2>3 DEF RefreshDescends, Alive
  <2> QED
    BY <2>2, <2>3
<1>8. CASE \E t \in Tasks : pc'[t] = "redeem" /\ local'[t].token = g /\ CodeOpen(g, local[t].at)'
  <2>1. PICK t \in Tasks : pc'[t] = "redeem" /\ local'[t].token = g /\ CodeOpen(g, local[t].at)'
    BY <1>8
  <2>2. CodeOpen(g, local'[t].at)
    BY <1>3, <2>1 DEF CodeOpen
  <2>3. \/ pc[t] = "redeem" /\ local[t].token = g /\ local'[t].at = local[t].at
        \/ local'[t].at = now
    BY <1>2, <2>1 DEF Descends
  <2> QED
    BY <2>2, <2>3 DEF Alive
<1>9. CASE \E t \in Tasks : pc'[t] = "rotate" /\ Grant(t)' = g /\ RefreshOpen(local[t].token, local[t].at)'
  <2>1. PICK t \in Tasks : /\ pc'[t] = "rotate" /\ Grant(t)' = g
                           /\ RefreshOpen(local[t].token, local[t].at)'
    BY <1>9
  <2> DEFINE r == local'[t].token
  <2>2. \/ pc[t] = "rotate" /\ r = local[t].token /\ local'[t].at = local[t].at
        \/ r \in DOMAIN refresh /\ local'[t].at = now
    BY <1>2, <2>1 DEF Descends
  <2>3. r \in DOMAIN refresh
    BY <1>0, <2>2 DEF ControlOf
  <2>4. RefreshOpen(r, local'[t].at) /\ grantOf[r] = g
    BY <1>4, <2>1, <2>3 DEF RefreshOpen, Grant
  <2> QED
    BY <2>2, <2>3, <2>4 DEF Alive, Grant
<1>10. CASE \E t \in Tasks : Exchanging(t)' /\ Grant(t)' = g
  <2>1. PICK t \in Tasks : Exchanging(t)' /\ Grant(t)' = g
    BY <1>10
  <2> DEFINE x == local[t].token
  <2>2. /\ local'[t].token = x
        /\ \/ Exchanging(t)
           \/ pc[t] = "redeem" /\ CodeOpen(x, local[t].at)
           \/ pc[t] = "rotate" /\ RefreshOpen(x, local[t].at)
    BY <1>2, <2>1 DEF Descends
  <2>3. x \in DOMAIN grantOf /\ (pc[t] = "redeem" => x \in DOMAIN codes)
    BY <1>0, <2>2 DEF ControlOf
  <2>4. grantOf[x] = g
    BY <1>1, <2>1, <2>2, <2>3 DEF RowsKept, Grant
  <2>5. pc[t] = "redeem" => x = g
    BY <1>0, <2>3, <2>4 DEF CodesAreGrants
  <2> QED
    BY <2>2, <2>4, <2>5 DEF Alive, Grant
<1> QED
  BY <1>6, <1>7, <1>8, <1>9, <1>10 DEF Alive

(* Neither a late nor a repeated request brings a grant back that has      *)
(* expired or was spent.                                                   *)
THEOREM SpentForGood == Spec => SpentStaysSpent
<1>1. SInv /\ [Next]_vars => [\A g \in DOMAIN codes : ~Alive(g) => ~Alive(g)']_vars
  BY AliveDescends
<1> QED
  BY <1>1, SInvInit, SInvNext, PTL DEF Spec, SpentStaysSpent

----------------------------------------------------------------------------
(* The server implements the baton                                         *)

(* A task that exchanges holds its grant, and the stage is the task's.     *)
LEMMA StageOfTask ==
  ASSUME SInv, NEW t \in Tasks, Exchanging(t)
  PROVE  /\ Grant(t) \in DOMAIN codes
         /\ Stage(Grant(t)) = IF pc[t] = "refresh" THEN "paired" ELSE "exchange"
<1> DEFINE g == Grant(t)
<1>1. TypeOK /\ ControlOf(t) /\ OneHolder
  BY TaskFacts DEF SInv
<1>2. g \in DOMAIN codes
  BY <1>1 DEF ControlOf, Grant, TypeOK
<1>3. codes[g].consumed /\ ~ \E r \in DOMAIN refresh : LiveRefresh(r) /\ grantOf[r] = g
  BY <1>1, <1>2 DEF OneHolder
<1>4. \A u \in Tasks : pc[u] = "refresh" /\ Grant(u) = g => u = t
  BY <1>1 DEF OneHolder, Exchanging
<1> QED
  BY <1>2, <1>3, <1>4 DEF Stage

(* So is it with a live refresh token.                                     *)
LEMMA StageOfRefresh ==
  ASSUME SInv, NEW r \in DOMAIN refresh, LiveRefresh(r)
  PROVE  grantOf[r] \in DOMAIN codes /\ Stage(grantOf[r]) = "refresh"
<1>1. TypeOK /\ OneHolder
  BY DEF SInv, IInv
<1>2. grantOf[r] \in DOMAIN codes
  BY <1>1 DEF TypeOK
<1>3. codes[grantOf[r]].consumed
  BY <1>1, <1>2 DEF OneHolder
<1> QED
  BY <1>2, <1>3 DEF Stage

(* Both, of the state a step leads to.                                     *)
HoldersStages ==
  /\ \A t \in Tasks : Exchanging(t) =>
       Stage(Grant(t)) = IF pc[t] = "refresh" THEN "paired" ELSE "exchange"
  /\ \A r \in DOMAIN refresh : LiveRefresh(r) => Stage(grantOf[r]) = "refresh"

LEMMA StagesAfter == SInv' => HoldersStages'
<1>1. SInv => HoldersStages
  BY StageOfTask, StageOfRefresh DEF HoldersStages
<1> QED
  BY <1>1, PTL

(* A step about one grant leaves the stage of every other as it is.        *)
LEMMA OtherStages ==
  ASSUME SInv, NEW t \in Tasks, OthersStand(t), RowsKept, NEW g,
         \A x \in DOMAIN codes \ {g} : codes'[x].consumed = codes[x].consumed,
         \A r : LiveRefresh(r) /\ grantOf[r] # g => LiveRefresh(r)',
         \A r : LiveRefresh(r)' /\ grantOf'[r] # g => LiveRefresh(r),
         Exchanging(t) => Grant(t) = g,
         Exchanging(t)' => Grant(t)' = g
  PROVE  \A h \in DOMAIN codes \ {g} : Stage(h)' = Stage(h)
<1> TAKE h \in DOMAIN codes \ {g}
<1>1. \A r \in DOMAIN refresh : grantOf'[r] = grantOf[r]
  BY DEF SInv, IInv, TypeOK, RowsKept
<1>2. (\E r \in DOMAIN refresh' : LiveRefresh(r)' /\ grantOf'[r] = h)
        <=> (\E r \in DOMAIN refresh : LiveRefresh(r) /\ grantOf[r] = h)
  BY <1>1 DEF LiveRefresh
<1>3. \A u \in Tasks : Exchanging(u)' /\ Grant(u)' = h <=> Exchanging(u) /\ Grant(u) = h
  BY OthersKept
<1>4. \A u \in Tasks : pc'[u] = "refresh" /\ Grant(u)' = h <=> pc[u] = "refresh" /\ Grant(u) = h
  <2>1. \A u \in Tasks \ {t} : pc'[u] = pc[u]
    BY DEF OthersStand
  <2>2. \A u \in Tasks : /\ pc[u] = "refresh" => Exchanging(u)
                         /\ pc'[u] = "refresh" => Exchanging(u)'
    BY DEF Exchanging
  <2> QED
    BY <1>3, <2>1, <2>2
<1> QED
  BY <1>2, <1>3, <1>4 DEF Stage

stages == [g \in DOMAIN codes |-> Stage(g)]
handed == {<<grantOf[a], a>> : a \in DOMAIN access}

(* A step that moves one grant from stage to stage.                        *)
LEMMA MoveOne ==
  ASSUME DOMAIN codes' = DOMAIN codes, NEW g \in DOMAIN codes, NEW from, NEW to,
         Stage(g) \in from, Stage(g)' = to,
         \A h \in DOMAIN codes \ {g} : Stage(h)' = Stage(h)
  PROVE  G!Move(g, from, to)
<1>1. g \in DOMAIN stages /\ stages[g] \in from
  BY DEF stages
<1>2. stages' = [stages EXCEPT ![g] = to]
  BY DEF stages
<1> QED
  BY <1>1, <1>2 DEF G!Move, stages

(* A step with no exchange in it, on no code or token.                     *)
LEMMA QuietStutters ==
  ASSUME SInv, UNCHANGED <<codes, access, refresh, grantOf>>,
         \A t \in Tasks : Exchanging(t)' <=> Exchanging(t),
         \A t \in Tasks : Exchanging(t) =>
           local'[t].token = local[t].token /\ (pc'[t] = "refresh" <=> pc[t] = "refresh")
  PROVE  UNCHANGED <<stages, handed>>
<1>1. \A h : Stage(h)' = Stage(h)
  BY DEF Stage, Exchanging, Grant, LiveRefresh
<1> QED
  BY <1>1 DEF stages, handed

(* An exchange that ends without a token drops its grant.                  *)
LEMMA DropRefines ==
  ASSUME SInv, SInv', NEW t \in Tasks, OthersStand(t), Exchanging(t), ~Exchanging(t)',
         UNCHANGED <<codes, access, refresh, grantOf>>
  PROVE  G!GrantNext
<1>0. PICK g : g = Grant(t)
  OBVIOUS
<1>1. g \in DOMAIN codes /\ Stage(g) \in {"paired", "exchange"}
  BY <1>0, StageOfTask
<1>2. RowsKept /\ OneHolder
  BY DEF RowsKept, SInv
<1>3. \A r : LiveRefresh(r)' <=> LiveRefresh(r)
  BY DEF LiveRefresh
<1>4. \A h \in DOMAIN codes \ {g} : Stage(h)' = Stage(h)
  BY <1>0, <1>2, <1>3, OtherStages
<1>5. Stage(g)' = "spent"
  <2>1. codes[g].consumed /\ \A r \in DOMAIN refresh : LiveRefresh(r) => grantOf[r] # g
    BY <1>0, <1>1, <1>2 DEF OneHolder
  <2>2. \A u \in Tasks : Exchanging(u)' => u # t /\ Exchanging(u) /\ Grant(u)' = Grant(u)
    BY <1>2, OthersKept
  <2>3. \A u \in Tasks : Exchanging(u)' => Grant(u)' # g
    BY <1>0, <1>2, <2>2 DEF OneHolder
  <2>4. \A u \in Tasks : pc'[u] = "refresh" => Grant(u)' # g
    BY <2>3 DEF Exchanging
  <2> QED
    BY <1>3, <2>1, <2>3, <2>4 DEF Stage
<1>6. G!Move(g, {"code", "exchange", "paired", "refresh"}, "spent")
  BY <1>1, <1>4, <1>5, MoveOne
<1> QED
  BY <1>1, <1>6 DEF G!GrantNext, G!Drop

LEMMA ReadingRefines ==
  ASSUME SInv, SInv', NEW t \in Tasks, OthersStand(t),
         \/ Arrive(t) \/ ReadPrincipal(t) \/ ReadClient(t) \/ ReadOwner(t)
         \/ FindToken(t) \/ ReadBearer(t) \/ Serve(t) \/ Abort(t)
  PROVE  G!GrantNext \/ UNCHANGED <<stages, handed>>
<1>0. TypeOK /\ local[t] \in Local
  BY TaskFacts DEF SInv
<1>1. UNCHANGED <<codes, access, refresh, grantOf>>
  BY DEF Arrive, BeginConsent, BeginExchange, BeginRefresh, BeginCall, Begin, ReadPrincipal,
     ReadClient, ReadOwner, FindToken, ReadBearer, Serve, Abort, tables
<1>2. \A u \in Tasks \ {t} : pc'[u] = pc[u] /\ local'[u] = local[u]
  BY DEF OthersStand
<1>3. CASE Exchanging(t) /\ ~Exchanging(t)'
  BY <1>1, <1>3, DropRefines
<1>4. CASE ~Exchanging(t) /\ ~Exchanging(t)'
  BY <1>1, <1>2, <1>4, QuietStutters DEF Exchanging
<1>5. CASE Exchanging(t)'
  <2>1. ReadOwner(t) /\ Goto(t, "access")
    BY <1>0, <1>5 DEF Arrive, BeginConsent, BeginExchange, BeginRefresh, BeginCall, Begin,
       ReadPrincipal, ReadClient, ReadOwner, FindToken, ReadBearer, Serve, Abort, Answer, Goto,
       TypeOK, Exchanging
  <2>2. pc[t] = "owner" /\ pc'[t] = "access"
    BY <1>0, <2>1 DEF ReadOwner, Goto, TypeOK
  <2>3. local'[t].token = local[t].token
    BY <1>0, <2>1, <2>2 DEF ReadOwner, Answer, TypeOK, Local
  <2> QED
    BY <1>1, <1>2, <2>2, <2>3, QuietStutters DEF Exchanging
<1> QED
  BY <1>3, <1>4, <1>5

LEMMA StoreCodeRefines ==
  ASSUME SInv, SInv', NEW t \in Tasks, OthersStand(t), RowsKept, StoreCode(t)
  PROVE  G!GrantNext
<1>0. PICK n : n = local[t].fresh
  OBVIOUS
<1>1. pc[t] = "grant" /\ TypeOK /\ NumbersApart /\ pc'[t] = "idle"
  BY DEF StoreCode, SInv, IInv, Answer, TypeOK
<1>2. n \notin DOMAIN grantOf
  BY <1>0, <1>1 DEF NumbersApart, Reserves
<1>3. PICK row : codes' = Put(codes, n, row) /\ ~row.consumed
  <2> DEFINE l == local[t]
             r == [client |-> l.client, user |-> l.user, uri |-> l.uri, scope |-> l.scope,
                   challenge |-> l.proof, expires |-> l.at + CodeTtl, consumed |-> FALSE]
  <2>1. codes' = Put(codes, n, r) /\ ~r.consumed
    BY <1>0 DEF StoreCode
  <2> QED
    BY <2>1
<1>4. grantOf' = Put(grantOf, n, n) /\ UNCHANGED <<access, refresh>>
  BY <1>0 DEF StoreCode
<1>5. n \notin DOMAIN codes /\ n \notin DOMAIN access /\ n \notin DOMAIN refresh
  BY <1>1, <1>2 DEF TypeOK
<1>6. /\ DOMAIN codes' = DOMAIN codes \cup {n} /\ ~codes'[n].consumed
      /\ \A x \in DOMAIN codes : codes'[x] = codes[x]
      /\ \A x \in DOMAIN grantOf : grantOf'[x] = grantOf[x]
  BY <1>2, <1>3, <1>4, <1>5 DEF Put
<1>7. \A r : LiveRefresh(r)' <=> LiveRefresh(r)
  BY <1>4 DEF LiveRefresh
<1>8. ~Exchanging(t) /\ ~Exchanging(t)'
  BY <1>1 DEF Exchanging
<1>9. \A h \in DOMAIN codes \ {n} : Stage(h)' = Stage(h)
  BY <1>6, <1>7, <1>8, OtherStages
<1>10. Stage(n)' = "code"
  BY <1>6 DEF Stage
<1>11. stages' = [h \in DOMAIN stages \cup {n} |-> IF h = n THEN "code" ELSE stages[h]]
  BY <1>5, <1>6, <1>9, <1>10 DEF stages
<1>12. handed' = handed
  <2>1. \A a \in DOMAIN access : grantOf'[a] = grantOf[a]
    BY <1>1, <1>6 DEF TypeOK
  <2> QED
    BY <1>4, <2>1 DEF handed
<1>13. n \notin DOMAIN stages /\ n \in DOMAIN stages'
  BY <1>5, <1>6 DEF stages
<1>14. G!Approve(n)
  BY <1>11, <1>12, <1>13 DEF G!Approve, stages, handed
<1> QED
  BY <1>13, <1>14 DEF G!GrantNext, stages

(* A code or a refresh token is traded in: for an exchange, or for nothing. *)
LEMMA TradeRefines ==
  ASSUME SInv, SInv', NEW t \in Tasks, OthersStand(t), RowsKept, UNCHANGED <<access, grantOf>>,
         DOMAIN codes' = DOMAIN codes, NEW g \in DOMAIN codes, Stage(g) \in {"code", "refresh"},
         \A x \in DOMAIN codes \ {g} : codes'[x].consumed = codes[x].consumed,
         \A r : LiveRefresh(r) /\ grantOf[r] # g => LiveRefresh(r)',
         \A r : LiveRefresh(r)' => LiveRefresh(r) /\ grantOf[r] # g,
         codes'[g].consumed, ~Exchanging(t),
         \A u \in Tasks : Exchanging(u) => Grant(u) # g,
         \/ ~Exchanging(t)'
         \/ Exchanging(t)' /\ pc'[t] # "refresh" /\ Grant(t)' = g
  PROVE  G!GrantNext
<1>1. \A h \in DOMAIN codes \ {g} : Stage(h)' = Stage(h)
  BY OtherStages
<1>2. handed' = handed
  BY DEF handed
<1>3. CASE Exchanging(t)' /\ pc'[t] # "refresh" /\ Grant(t)' = g
  <2>1. Stage(g)' = "exchange"
    BY <1>3, StagesAfter DEF HoldersStages
  <2>2. G!Move(g, {"code", "refresh"}, "exchange")
    BY <1>1, <2>1, MoveOne
  <2> QED
    BY <1>2, <2>2 DEF G!GrantNext, G!TakeUp, handed
<1>4. CASE ~Exchanging(t)'
  <2>1. \A u \in Tasks : Exchanging(u)' => Grant(u)' # g
    BY <1>4, OthersKept
  <2>2. \A u \in Tasks : pc'[u] = "refresh" => Grant(u)' # g
    BY <2>1 DEF Exchanging
  <2>3. Stage(g)' = "spent"
    BY <2>1, <2>2 DEF Stage
  <2>4. G!Move(g, {"code", "exchange", "paired", "refresh"}, "spent")
    BY <1>1, <2>3, MoveOne
  <2> QED
    BY <1>2, <2>4 DEF G!GrantNext, G!Drop, handed
<1> QED
  BY <1>3, <1>4

LEMMA RedeemCodeRefines ==
  ASSUME SInv, SInv', NEW t \in Tasks, OthersStand(t), RowsKept, RedeemCode(t)
  PROVE  G!GrantNext \/ UNCHANGED <<stages, handed>>
<1> DEFINE x == local[t].token
<1>1. pc[t] = "redeem" /\ TypeOK /\ ControlOf(t) /\ OneHolder /\ CodesAreGrants
  BY TaskFacts DEF RedeemCode, SInv
<1>2. /\ x \in DOMAIN codes /\ codes[x] \in Code /\ grantOf[x] = x /\ ~Exchanging(t)
      /\ UNCHANGED <<access, refresh, grantOf>>
  BY <1>1 DEF ControlOf, TypeOK, CodesAreGrants, Exchanging, RedeemCode
<1>3. CASE Answer(t, "invalid_grant") /\ UNCHANGED codes
  <2>1. ~Exchanging(t)'
    BY <1>1, <1>3 DEF Answer, TypeOK, Exchanging
  <2> QED
    BY <1>2, <1>3, <2>1, QuietStutters DEF OthersStand, Exchanging
<1>4. CASE /\ UsableCode(x, local[t].at)
           /\ codes' = [codes EXCEPT ![x].consumed = TRUE]
           /\ IssueFor(t, codes[x]) \/ Answer(t, "invalid_grant")
  <2>1. /\ ~codes[x].consumed /\ codes'[x].consumed /\ DOMAIN codes' = DOMAIN codes
        /\ \A y \in DOMAIN codes \ {x} : codes'[y].consumed = codes[y].consumed
    BY <1>2, <1>4 DEF Code, UsableCode
  <2>2. Stage(x) = "code"
    BY <2>1 DEF Stage
  <2>3. /\ \A r \in DOMAIN refresh : LiveRefresh(r) => grantOf[r] # x
        /\ \A u \in Tasks : Exchanging(u) => Grant(u) # x
    BY <1>1, <1>2, <2>1 DEF OneHolder
  <2>4. \A r : (LiveRefresh(r)' <=> LiveRefresh(r)) /\ (LiveRefresh(r) => grantOf[r] # x)
    BY <1>2, <2>3 DEF LiveRefresh
  <2>5. \/ ~Exchanging(t)'
        \/ Exchanging(t)' /\ pc'[t] # "refresh" /\ Grant(t)' = x
    <3>1. CASE Answer(t, "invalid_grant")
      BY <1>1, <3>1 DEF Answer, TypeOK, Exchanging
    <3>2. CASE IssueFor(t, codes[x])
      <4>1. pc'[t] = "owner" /\ local'[t].token = x
        BY <1>1, <3>2, IssueForLocals
      <4> QED
        BY <1>2, <4>1 DEF Exchanging, Grant
    <3> QED
      BY <1>4, <3>1, <3>2
  <2> HIDE DEF x
  <2> QED
    BY <1>2, <2>1, <2>2, <2>3, <2>4, <2>5, TradeRefines
<1> QED
  BY <1>3, <1>4 DEF RedeemCode

LEMMA RedeemRefreshRefines ==
  ASSUME SInv, SInv', NEW t \in Tasks, OthersStand(t), RowsKept, RedeemRefresh(t)
  PROVE  G!GrantNext \/ UNCHANGED <<stages, handed>>
<1> DEFINE x == local[t].token
           g == grantOf[x]
<1>1. pc[t] = "rotate" /\ TypeOK /\ ControlOf(t) /\ OneHolder
  BY TaskFacts DEF RedeemRefresh, SInv
<1>2. /\ x \in DOMAIN refresh /\ refresh[x] \in Refresh /\ g \in DOMAIN codes /\ ~Exchanging(t)
      /\ UNCHANGED <<access, codes, grantOf>>
  BY <1>1 DEF ControlOf, TypeOK, Exchanging, RedeemRefresh
<1>3. CASE Answer(t, "invalid_grant") /\ UNCHANGED refresh
  <2>1. ~Exchanging(t)'
    BY <1>1, <1>3 DEF Answer, TypeOK, Exchanging
  <2> QED
    BY <1>2, <1>3, <2>1, QuietStutters DEF OthersStand, Exchanging
<1>4. CASE /\ UsableRefresh(x, local[t].at)
           /\ refresh' = [refresh EXCEPT ![x].revoked = TRUE]
           /\ IssueFor(t, refresh[x]) \/ Answer(t, "invalid_grant")
  <2>1. /\ ~refresh[x].revoked /\ refresh'[x].revoked /\ DOMAIN refresh' = DOMAIN refresh
        /\ \A y \in DOMAIN refresh \ {x} : refresh'[y] = refresh[y]
    BY <1>2, <1>4 DEF Refresh, UsableRefresh
  <2>2. LiveRefresh(x)
    BY <1>2, <2>1 DEF LiveRefresh
  <2>3. Stage(g) = "refresh" /\ codes[g].consumed
    BY <1>1, <1>2, <2>2, StageOfRefresh DEF OneHolder
  <2>4. /\ \A r \in DOMAIN refresh : LiveRefresh(r) /\ grantOf[r] = g => r = x
        /\ \A u \in Tasks : Exchanging(u) => Grant(u) # g
    BY <1>1, <1>2, <2>2 DEF OneHolder
  <2>5. /\ \A r : LiveRefresh(r) /\ grantOf[r] # g => LiveRefresh(r)'
        /\ \A r : LiveRefresh(r)' => LiveRefresh(r) /\ grantOf[r] # g
    BY <2>1, <2>4 DEF LiveRefresh
  <2>6. \/ ~Exchanging(t)'
        \/ Exchanging(t)' /\ pc'[t] # "refresh" /\ Grant(t)' = g
    <3>1. CASE Answer(t, "invalid_grant")
      BY <1>1, <3>1 DEF Answer, TypeOK, Exchanging
    <3>2. CASE IssueFor(t, refresh[x])
      <4>1. pc'[t] = "owner" /\ local'[t].token = x
        BY <1>1, <3>2, IssueForLocals
      <4> QED
        BY <1>2, <4>1 DEF Exchanging, Grant
    <3> QED
      BY <1>4, <3>1, <3>2
  <2> HIDE DEF x, g
  <2> QED
    BY <1>2, <2>3, <2>4, <2>5, <2>6, TradeRefines
<1> QED
  BY <1>3, <1>4 DEF RedeemRefresh

(* One access token is handed out, under a number nobody has.              *)
LEMMA StoreAccessRefines ==
  ASSUME SInv, SInv', NEW t \in Tasks, OthersStand(t), RowsKept, StoreAccess(t)
  PROVE  G!GrantNext
<1>0. PICK n, g : n = local[t].fresh /\ g = Grant(t)
  OBVIOUS
<1>1. /\ pc[t] = "access" /\ TypeOK /\ NumbersApart /\ ControlOf(t)
      /\ UNCHANGED <<codes, refresh, local>> /\ pc'[t] = "refresh"
  BY TaskFacts DEF StoreAccess, SInv, IInv, Goto, TypeOK
<1>2. n \notin DOMAIN grantOf /\ n \notin DOMAIN access
  BY <1>0, <1>1 DEF NumbersApart, Reserves, TypeOK
<1>3. PICK row : access' = Put(access, n, row)
  BY <1>0 DEF StoreAccess
<1>4. grantOf' = Put(grantOf, n, g)
  BY <1>0 DEF StoreAccess, Grant
<1>5. Exchanging(t) /\ Exchanging(t)' /\ g \in DOMAIN codes /\ Stage(g) = "exchange"
  BY <1>0, <1>1, StageOfTask DEF Exchanging
<1>6. local[t].token \in DOMAIN grantOf
  BY <1>1, <1>5 DEF ControlOf
<1>7. Grant(t)' = g
  BY <1>0, <1>1, <1>6 DEF RowsKept, Grant
<1>8. Stage(g)' = "paired"
  BY <1>1, <1>5, <1>7, StagesAfter DEF HoldersStages
<1>9. \A r : LiveRefresh(r)' <=> LiveRefresh(r)
  BY <1>1 DEF LiveRefresh
<1>10. \A h \in DOMAIN codes \ {g} : Stage(h)' = Stage(h)
  BY <1>0, <1>1, <1>7, <1>9, OtherStages
<1>11. G!Move(g, {"exchange"}, "paired")
  BY <1>1, <1>5, <1>8, <1>10, MoveOne
<1>12. handed' = handed \cup {<<g, n>>}
  <2>1. DOMAIN access' = DOMAIN access \cup {n} /\ grantOf'[n] = g
    BY <1>3, <1>4 DEF Put
  <2>2. \A a \in DOMAIN access : grantOf'[a] = grantOf[a]
    BY <1>1 DEF RowsKept, TypeOK
  <2> QED
    BY <2>1, <2>2 DEF handed
<1>13. \A e \in handed : e[2] # n
  BY <1>2 DEF handed
<1>14. G!HandOut(g, n)
  BY <1>11, <1>12, <1>13 DEF G!HandOut, handed
<1>15. <<g, n>> \in handed' /\ <<g, n>>[2] = n /\ g \in DOMAIN stages
  BY <1>5, <1>12 DEF stages
<1>16. \E h \in DOMAIN stages : \E e \in handed' : G!HandOut(h, e[2])
  BY <1>14, <1>15
<1> QED
  BY <1>16 DEF G!GrantNext, stages, handed

LEMMA StoreRefreshRefines ==
  ASSUME SInv, SInv', NEW t \in Tasks, OthersStand(t), RowsKept, StoreRefresh(t)
  PROVE  G!GrantNext
<1>0. PICK n, g : n = Partner(local[t].fresh) /\ g = Grant(t)
  OBVIOUS
<1>1. /\ pc[t] = "refresh" /\ TypeOK /\ NumbersApart /\ ControlOf(t)
      /\ UNCHANGED <<codes, access>> /\ pc'[t] = "idle"
  BY TaskFacts DEF StoreRefresh, SInv, IInv, Answer, TypeOK
<1>2. n \notin DOMAIN grantOf /\ n \notin DOMAIN refresh
  BY <1>0, <1>1 DEF NumbersApart, Reserves, TypeOK
<1>3. PICK row : refresh' = Put(refresh, n, row) /\ ~row.revoked
  <2> DEFINE l == local[t]
             r == [client |-> l.client, user |-> l.user, scope |-> l.scope,
                   expires |-> l.at + RefreshTtl, revoked |-> FALSE]
  <2>1. refresh' = Put(refresh, n, r) /\ ~r.revoked
    BY <1>0 DEF StoreRefresh
  <2> QED
    BY <2>1
<1>4. grantOf' = Put(grantOf, n, g)
  BY <1>0 DEF StoreRefresh, Grant
<1>5. Exchanging(t) /\ ~Exchanging(t)' /\ g \in DOMAIN codes /\ Stage(g) = "paired"
  BY <1>0, <1>1, StageOfTask DEF Exchanging
<1>6. /\ DOMAIN refresh' = DOMAIN refresh \cup {n} /\ refresh'[n] = row /\ grantOf'[n] = g
      /\ \A r \in DOMAIN refresh : refresh'[r] = refresh[r]
  BY <1>2, <1>3, <1>4 DEF Put
<1>7. LiveRefresh(n)' /\ \A r : r # n => (LiveRefresh(r)' <=> LiveRefresh(r))
  BY <1>3, <1>6 DEF LiveRefresh
<1>8. ~LiveRefresh(n)
  BY <1>2 DEF LiveRefresh
<1>9. \A h \in DOMAIN codes \ {g} : Stage(h)' = Stage(h)
  BY <1>0, <1>1, <1>5, <1>6, <1>7, <1>8, OtherStages
<1>10. Stage(g)' = "refresh"
  BY <1>6, <1>7, StagesAfter DEF HoldersStages
<1>11. G!Move(g, {"paired"}, "refresh")
  BY <1>1, <1>5, <1>9, <1>10, MoveOne
<1>12. handed' = handed
  <2>1. \A a \in DOMAIN access : grantOf'[a] = grantOf[a]
    BY <1>1 DEF RowsKept, TypeOK
  <2> QED
    BY <1>1, <2>1 DEF handed
<1> QED
  BY <1>5, <1>11, <1>12 DEF G!GrantNext, G!LayDown, handed, stages

(* Every behaviour of the authorization server is one of the baton: codes, *)
(* exchanges and refresh tokens pass one baton per grant, an exchange      *)
(* hands out at most one access token, and a token is traded in at most    *)
(* once, whatever requests race, repeat or are lost.                       *)
THEOREM Refinement == Spec => ImplementsGrant
<1>1. Init => G!GrantInit
  <2> SUFFICES ASSUME Init PROVE stages = << >> /\ handed = {}
    BY DEF G!GrantInit, stages, handed
  <2>1. DOMAIN codes = {} /\ DOMAIN access = {}
    BY DEF Init
  <2> QED
    BY <2>1 DEF stages, handed
<1>2. SInv /\ [Next]_vars => [G!GrantNext]_<<stages, handed>>
  <2> SUFFICES ASSUME SInv, [Next]_vars PROVE G!GrantNext \/ UNCHANGED <<stages, handed>>
    OBVIOUS
  <2>1. SInv' /\ RowsKept
    BY SInvNext, TablesAge
  <2>2. ASSUME NEW t \in Tasks, Arrive(t) \/ Step(t) \/ Abort(t)
        PROVE  G!GrantNext \/ UNCHANGED <<stages, handed>>
    <3>1. OthersStand(t)
      BY <2>2, OthersStandStill DEF SInv, IInv
    <3> QED
      BY <2>1, <2>2, <3>1, ReadingRefines, StoreCodeRefines, RedeemCodeRefines,
         RedeemRefreshRefines, StoreAccessRefines, StoreRefreshRefines DEF Step
  <2>3. CASE Register \/ ChangeUser \/ Tick \/ UNCHANGED vars
    <3>1. UNCHANGED <<codes, access, refresh, grantOf, pc, local>>
      BY <2>3 DEF Register, ChangeUser, Tick, vars, tables
    <3> QED
      BY <3>1, QuietStutters DEF Exchanging
  <2> QED
    BY <2>2, <2>3 DEF Next, Finished
<1>3. [G!GrantNext]_<<stages, handed>> => [G!GrantNext]_(G!grants)
  BY DEF stages, handed, G!grants
<1> QED
  BY <1>1, <1>2, <1>3, SInvInit, SInvNext, PTL DEF Spec, ImplementsGrant, G!GrantSpec
=============================================================================
