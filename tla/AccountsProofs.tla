--------------------------- MODULE AccountsProofs ---------------------------
(***************************************************************************)
(* Proofs about the administration of users: types, the authority of every *)
(* request, what a write may do to other users, and the log.               *)
(***************************************************************************)
EXTENDS AccountsProperties, TLAPS

(* What a request asks for, by the call it is at.                          *)
Asked(t) ==
  LET r == local[t].req
  IN /\ pc[t] # "idle" => r \in Requests
     /\ pc[t] \in {"lookup", "open"} => r.op = "login"
     /\ pc[t] \in {"session", "owner", "revoke"} =>
          r.op \in PageOps \cup {"logout"} /\ r.session \in DOMAIN sessions
     /\ pc[t] \in {"owner", "page"} => r.op \in PageOps
     /\ pc[t] \in {"target", "write"} =>
          /\ r.op \in {"update_user", "reset_password"}
          /\ r.op = "update_user" => r.role \in Roles
     /\ pc[t] = "insert" => r.op = "create_user" /\ r.role \in Roles
     /\ pc[t] \in {"bearer", "project"} => r.op = "create_project"

(* What a request has been found to have a right to.                       *)
Entitled(t) ==
  LET s == local[t].req.session
  IN /\ pc[t] = "session" /\ ~sessions[s].revoked /\ sessions[s].expires > local[t].at =>
          "session" \in merits[t]
     /\ pc[t] \in {"owner", "revoke"} => "session" \in merits[t]
     /\ pc[t] \in {"page", "target", "write", "insert"} => {"session", "admin"} \subseteq merits[t]
     /\ pc[t] = "open" => "credentials" \in merits[t]
     /\ pc[t] = "project" => "writer" \in merits[t]

(* The row a request is about to write, and whose it is.                   *)
Drafted(t) ==
  LET l == local[t]
  IN /\ pc[t] \in {"open", "page", "target", "write", "insert", "project", "record"} =>
          l.user \in DOMAIN users
     /\ pc[t] = "write" =>
          /\ l.id = l.req.user /\ l.id \in DOMAIN users
          /\ l.row \in User /\ l.row.name = users[l.id].name
          /\ ~LocksOut(l.id, l.row, l.user)
          /\ "overtaken" \notin merits[t] => l.row = Edited(users[l.id], l.req)

Sound(t) == Asked(t) /\ Entitled(t) /\ Drafted(t)

IInv == TypeOK /\ \A t \in Tasks : Sound(t)

(* What no step takes back: rows stay, names and owners too, and what is   *)
(* revoked stays so.                                                       *)
Keeps ==
  /\ DOMAIN users \subseteq DOMAIN users'
  /\ \A i \in DOMAIN users : users'[i].name = users[i].name
  /\ DOMAIN sessions \subseteq DOMAIN sessions'
  /\ \A s \in DOMAIN sessions :
       /\ sessions'[s].user = sessions[s].user /\ sessions'[s].expires = sessions[s].expires
       /\ ~sessions'[s].revoked => ~sessions[s].revoked

OthersStand(t) ==
  \A u \in Tasks \ {t} : pc'[u] = pc[u] /\ local'[u] = local[u]

(* A busy task's history only grows, and is not overtaken by itself.       *)
LEMMA HistoryGrows ==
  ASSUME Observe, NEW t \in Tasks, pc[t] # "idle", pc'[t] # "idle"
  PROVE  /\ merits[t] \subseteq merits'[t]
         /\ Merited(local[t].req)' \subseteq merits'[t]
         /\ "overtaken" \in merits'[t] <=> "overtaken" \in merits[t] \/ Overtaken(t)
<1>1. merits'[t] = merits[t] \cup Merited(local[t].req)'
                     \cup (IF Overtaken(t) THEN {"overtaken"} ELSE {})
  BY DEF Observe
<1>2. "overtaken" \notin Merited(local[t].req)'
  BY DEF Merited
<1> QED
  BY <1>1, <1>2

(* A new request starts with what is true of it now.                       *)
LEMMA HistoryStarts ==
  ASSUME Observe, NEW t \in Tasks, pc'[t] # "idle"
  PROVE  Merited(local[t].req)' \subseteq merits'[t]
  BY DEF Observe

LEMMA HistoryTyped ==
  ASSUME TypeOK, Observe
  PROVE  merits' \in [Tasks -> SUBSET Merits]
<1>1. \A t \in Tasks : Merited(local[t].req)' \subseteq Merits /\ merits[t] \subseteq Merits
  BY DEF Merited, TypeOK
<1> QED
  BY <1>1 DEF Observe, Merits

(* A task that stands stays sound, if no row is taken back.                *)
LEMMA StandingStaysSound ==
  ASSUME TypeOK, Keeps, Observe, NEW t \in Tasks, Sound(t),
         pc'[t] = pc[t], local'[t] = local[t]
  PROVE  Sound(t)'
<1>1. CASE pc[t] = "idle"
  BY <1>1 DEF Sound, Asked, Entitled, Drafted
<1>2. CASE pc[t] # "idle"
  <2>1. /\ merits[t] \subseteq merits'[t]
        /\ "overtaken" \in merits'[t] <=> "overtaken" \in merits[t] \/ Overtaken(t)
    BY <1>2, HistoryGrows
  <2>2. Asked(t)'
    BY DEF Sound, Asked, Keeps
  <2>3. Entitled(t)'
    BY <2>1 DEF Sound, Asked, Entitled, Keeps
  <2>4. Drafted(t)'
    <3>1. pc[t] = "write" /\ "overtaken" \notin merits'[t] =>
            local[t].row = Edited(users'[local[t].id], local[t].req)
      BY <2>1 DEF Sound, Drafted, Overtaken
    <3> QED
      BY <3>1 DEF Sound, Drafted, Keeps, LocksOut, Edited
  <2> QED
    BY <2>2, <2>3, <2>4 DEF Sound
<1> QED
  BY <1>1, <1>2

(* A step of t that keeps the rows leaves the invariant to t.              *)
LEMMA StepIsSound ==
  ASSUME IInv, TypeOK', Keeps, Observe, NEW t \in Tasks, OthersStand(t), Sound(t)'
  PROVE  IInv'
<1>1. \A u \in Tasks \ {t} : Sound(u)'
  BY StandingStaysSound DEF IInv, OthersStand
<1> QED
  BY <1>1 DEF IInv

(* With the users and the sessions untouched.                              *)
LEMMA UntouchedKeeps ==
  ASSUME UNCHANGED <<users, sessions>>
  PROVE  Keeps
  BY DEF Keeps

LEMMA NoLocalsTyped == NoLocals \in Local
  BY DEF NoLocals, Local

(* An answer that is well typed.                                           *)
LEMMA AnswerIsSound ==
  ASSUME IInv, NEW t \in Tasks, NEW outcome \in Replies, Answer(t, outcome), Keeps, Observe,
         users' \in Seq(User), sessions' \in Seq(Session), projects' \in Seq(Slugs),
         audit' \in Seq(Event), UNCHANGED <<now, budget>>,
         \A s \in DOMAIN sessions' : sessions'[s].user \in DOMAIN users'
  PROVE  IInv'
<1>1. TypeOK /\ OthersStand(t) /\ pc'[t] = "idle"
  BY DEF IInv, TypeOK, OthersStand, Answer
<1>2. TypeOK'
  <2>1. merits' \in [Tasks -> SUBSET Merits]
    BY <1>1, HistoryTyped
  <2>2. /\ pc' \in [Tasks -> Calls \cup {"idle"}]
        /\ reply' \in [Tasks -> Replies] /\ local' \in [Tasks -> Local]
    BY <1>1, NoLocalsTyped DEF TypeOK, Answer
  <2> QED
    BY <1>1, <2>1, <2>2 DEF TypeOK
<1>3. Sound(t)'
  BY <1>1 DEF Sound, Asked, Entitled, Drafted
<1> QED
  BY <1>1, <1>2, <1>3, StepIsSound

(* The same for a refusal or a read, which changes no table.               *)
LEMMA RefusalIsSound ==
  ASSUME IInv, NEW t \in Tasks, NEW outcome \in Replies, Answer(t, outcome), Observe,
         UNCHANGED <<tables, now, budget>>
  PROVE  IInv'
<1>1. TypeOK /\ Keeps /\ UNCHANGED <<users, sessions, projects, audit>>
  BY UntouchedKeeps DEF IInv, tables
<1>2. /\ users' \in Seq(User) /\ sessions' \in Seq(Session) /\ projects' \in Seq(Slugs)
      /\ audit' \in Seq(Event)
      /\ \A s \in DOMAIN sessions' : sessions'[s].user \in DOMAIN users'
  BY <1>1 DEF TypeOK
<1> QED
  BY <1>2, <1>1, AnswerIsSound DEF tables

(* A task that goes on, with typed tables.                                 *)
LEMMA GoingOnIsTyped ==
  ASSUME TypeOK, NEW t \in Tasks, NEW call \in Calls, pc' = [pc EXCEPT ![t] = call],
         reply' \in [Tasks -> Replies], Observe, local' \in [Tasks -> Local],
         users' \in Seq(User), sessions' \in Seq(Session), projects' \in Seq(Slugs),
         audit' \in Seq(Event), now' \in Nat, budget' \in Nat,
         \A s \in DOMAIN sessions' : sessions'[s].user \in DOMAIN users'
  PROVE  TypeOK'
<1>1. merits' \in [Tasks -> SUBSET Merits]
  BY HistoryTyped
<1>2. pc' \in [Tasks -> Calls \cup {"idle"}]
  BY DEF TypeOK
<1> QED
  BY <1>1, <1>2 DEF TypeOK

(* A task that reads and goes on.                                          *)
LEMMA ReadGoesOn ==
  ASSUME IInv, NEW t \in Tasks, NEW call \in Calls, Goto(t, call), Observe,
         UNCHANGED <<tables, now, budget>>, local' \in [Tasks -> Local],
         \A u \in Tasks \ {t} : local'[u] = local[u],
         Sound(t)'
  PROVE  IInv'
<1>1. TypeOK /\ Keeps /\ UNCHANGED <<users, sessions, projects, audit>> /\ OthersStand(t)
  BY UntouchedKeeps DEF IInv, tables, OthersStand, Goto, TypeOK
<1>2. TypeOK'
  <2>1. /\ users' \in Seq(User) /\ sessions' \in Seq(Session) /\ projects' \in Seq(Slugs)
        /\ audit' \in Seq(Event) /\ now' \in Nat /\ budget' \in Nat
        /\ \A s \in DOMAIN sessions' : sessions'[s].user \in DOMAIN users'
        /\ reply' \in [Tasks -> Replies]
    BY <1>1 DEF TypeOK, Goto
  <2> QED
    BY <1>1, <2>1, GoingOnIsTyped DEF Goto
<1> QED
  BY <1>1, <1>2, StepIsSound

----------------------------------------------------------------------------
(* One lemma per action                                                    *)

LEMMA BeginSound ==
  ASSUME IInv, NEW t \in Tasks, Begin(t)
  PROVE  IInv'
<1>1. TypeOK /\ Keeps /\ UNCHANGED <<users, sessions, projects, audit, now>> /\ OthersStand(t)
      /\ Observe
  BY UntouchedKeeps DEF IInv, tables, OthersStand, Begin, TypeOK
<1>2. PICK r \in Requests :
        /\ r.op \in PageOps \cup {"logout"} => r.session \in DOMAIN sessions
        /\ pc' = [pc EXCEPT ![t] = FirstCall(r)]
        /\ local' = [local EXCEPT ![t] = NewLocals(r)]
  BY DEF Begin
<1>3. FirstCall(r) \in {"lookup", "bearer", "session"} /\ r \in Request
  BY ConstantsAssumption DEF FirstCall
<1>4. NewLocals(r) \in Local
  BY <1>1 DEF NewLocals, Local, TypeOK
<1>5. TypeOK'
  <2>1. /\ users' \in Seq(User) /\ sessions' \in Seq(Session) /\ projects' \in Seq(Slugs)
        /\ audit' \in Seq(Event) /\ now' \in Nat /\ budget' \in Nat
        /\ \A s \in DOMAIN sessions' : sessions'[s].user \in DOMAIN users'
        /\ reply' \in [Tasks -> Replies] /\ local' \in [Tasks -> Local]
    BY <1>1, <1>2, <1>4 DEF TypeOK, Begin, Replies
  <2> QED
    BY <1>1, <1>2, <1>3, <2>1, GoingOnIsTyped DEF Calls
<1>6. pc'[t] = FirstCall(r) /\ local'[t] = NewLocals(r)
  BY <1>1, <1>2 DEF TypeOK
<1>7. local'[t].req = r /\ local'[t].at = now
  BY <1>6 DEF NewLocals
<1>8. r.op \in PageOps \cup {"logout", "login", "create_project"}
  BY <1>3 DEF Request
<1>9. Asked(t)'
  BY <1>1, <1>2, <1>3, <1>6, <1>7, <1>8 DEF Asked, FirstCall, PageOps
<1>10. Merited(local[t].req)' \subseteq merits'[t]
  BY <1>1, <1>3, <1>6, HistoryStarts
<1>11. Entitled(t)'
  <2>1. pc'[t] = "session" /\ ~sessions'[r.session].revoked
          /\ sessions'[r.session].expires > now => "session" \in Merited(r)'
    BY <1>1, <1>2, <1>6, <1>8 DEF Merited, Merits, FirstCall
  <2> QED
    BY <1>3, <1>6, <1>7, <1>10, <2>1 DEF Entitled
<1>12. Drafted(t)'
  BY <1>3, <1>6 DEF Drafted
<1> QED
  BY <1>1, <1>5, <1>9, <1>11, <1>12, StepIsSound DEF Sound

(* A change of one task's locals is typed if the new ones are.             *)
LEMMA LocalChange ==
  ASSUME TypeOK, NEW t \in Tasks, NEW l \in Local, local' = [local EXCEPT ![t] = l]
  PROVE  /\ local' \in [Tasks -> Local] /\ local'[t] = l
         /\ \A u \in Tasks \ {t} : local'[u] = local[u]
  BY DEF TypeOK

LEMMA LookUpUserSound ==
  ASSUME IInv, NEW t \in Tasks, LookUpUser(t)
  PROVE  IInv'
<1>0. TypeOK /\ UNCHANGED <<tables, now, budget>> /\ Observe /\ Sound(t) /\ pc[t] = "lookup"
  BY DEF IInv, LookUpUser
<1>1. CASE Answer(t, "login")
  BY <1>0, <1>1, RefusalIsSound DEF Replies
<1>2. CASE \E i \in DOMAIN users : /\ Accepts(users[i], Req(t)) /\ Goto(t, "open")
                                   /\ local' = [local EXCEPT ![t].user = i, ![t].at = now]
  <2>1. PICK i \in DOMAIN users :
          /\ Accepts(users[i], Req(t)) /\ Goto(t, "open")
          /\ local' = [local EXCEPT ![t].user = i, ![t].at = now]
    BY <1>2
  <2>2. local[t] \in Local /\ i \in Nat /\ now \in Nat
    BY <1>0 DEF TypeOK
  <2> DEFINE l == [local[t] EXCEPT !.user = i, !.at = now]
  <2>3. l \in Local /\ l.req = local[t].req /\ l.user = i
    BY <2>2 DEF Local
  <2>4. local' = [local EXCEPT ![t] = l]
    BY <1>0, <2>1, <2>2 DEF TypeOK, Local
  <2> HIDE DEF l
  <2>5. /\ local' \in [Tasks -> Local] /\ local'[t] = l
        /\ \A u \in Tasks \ {t} : local'[u] = local[u]
    BY <1>0, <2>3, <2>4, LocalChange
  <2>6. pc'[t] = "open"
    BY <1>0, <2>1 DEF Goto, TypeOK
  <2>7. Merited(local[t].req)' \subseteq merits'[t]
    BY <1>0, <2>6, HistoryStarts
  <2>8. "credentials" \in Merited(local[t].req)'
    BY <1>0, <2>1, <2>3, <2>5 DEF Merited, Merits, Req, tables, Sound, Asked, Accepts
  <2>9. Sound(t)'
    BY <1>0, <2>1, <2>3, <2>5, <2>6, <2>7, <2>8 DEF Sound, Asked, Entitled, Drafted, tables
  <2> QED
    BY <1>0, <2>1, <2>5, <2>9, ReadGoesOn DEF Calls
<1> QED
  BY <1>1, <1>2 DEF LookUpUser

LEMMA OpenSessionSound ==
  ASSUME IInv, NEW t \in Tasks, OpenSession(t)
  PROVE  IInv'
<1>0. /\ TypeOK /\ UNCHANGED <<users, projects, audit, now, budget>> /\ Observe /\ Sound(t)
      /\ pc[t] = "open" /\ Answer(t, "welcome")
  BY DEF IInv, OpenSession
<1> DEFINE new == [user |-> local[t].user, revoked |-> FALSE, expires |-> local[t].at + SessionTtl]
<1>1. sessions' = Append(sessions, new)
  BY DEF OpenSession
<1>2. new \in Session /\ new.user \in DOMAIN users
  BY <1>0, ConstantsAssumption DEF Sound, Drafted, TypeOK, Session, Local
<1> HIDE DEF new
<1>3. sessions \in Seq(Session)
  BY <1>0 DEF TypeOK
<1>4. /\ sessions' \in Seq(Session) /\ DOMAIN sessions \subseteq DOMAIN sessions'
      /\ \A s \in DOMAIN sessions : sessions'[s] = sessions[s]
      /\ \A s \in DOMAIN sessions' : sessions'[s].user \in DOMAIN users
  BY <1>0, <1>1, <1>2, <1>3 DEF TypeOK
<1>5. Keeps
  BY <1>0, <1>4 DEF Keeps
<1>6. /\ users' \in Seq(User) /\ projects' \in Seq(Slugs) /\ audit' \in Seq(Event)
      /\ \A s \in DOMAIN sessions' : sessions'[s].user \in DOMAIN users'
  BY <1>0, <1>4 DEF TypeOK
<1> QED
  BY <1>0, <1>4, <1>5, <1>6, AnswerIsSound DEF Replies

LEMMA FindSessionSound ==
  ASSUME IInv, NEW t \in Tasks, FindSession(t)
  PROVE  IInv'
<1>0. /\ TypeOK /\ UNCHANGED <<tables, now, budget>> /\ Observe /\ Sound(t)
      /\ pc[t] = "session"
  BY DEF IInv, FindSession
<1>1. CASE \E outcome \in {"cleared", "login", "unauthorized", "forbidden"} : Answer(t, outcome)
  BY <1>0, <1>1, RefusalIsSound DEF Replies
<1>2. CASE \E call \in {"revoke", "owner"} :
             /\ Goto(t, call) /\ UNCHANGED local /\ Live(Req(t).session, local[t].at)
             /\ call = "owner" <=> Req(t).op # "logout"
  <2>1. PICK call \in {"revoke", "owner"} :
          /\ Goto(t, call) /\ UNCHANGED local /\ Live(Req(t).session, local[t].at)
          /\ call = "owner" <=> Req(t).op # "logout"
    BY <1>2
  <2>2. pc'[t] = call /\ pc'[t] # "idle"
    BY <1>0, <2>1 DEF Goto, TypeOK
  <2>3. "session" \in merits[t]
    BY <1>0, <2>1 DEF Sound, Entitled, Live, Req
  <2>4. "session" \in merits'[t]
    BY <1>0, <2>2, <2>3, HistoryGrows
  <2>5. Sound(t)'
    BY <1>0, <2>1, <2>2, <2>4 DEF Sound, Asked, Entitled, Drafted, tables, Req
  <2>6. local' \in [Tasks -> Local]
    BY <1>0, <2>1 DEF TypeOK
  <2> QED
    BY <1>0, <2>1, <2>5, <2>6, ReadGoesOn DEF Calls
<1> QED
  BY <1>1, <1>2 DEF FindSession

LEMMA RevokeSessionSound ==
  ASSUME IInv, NEW t \in Tasks, RevokeSession(t)
  PROVE  IInv'
<1>0. /\ TypeOK /\ UNCHANGED <<users, projects, audit, now, budget>> /\ Observe /\ Sound(t)
      /\ pc[t] = "revoke" /\ Answer(t, "cleared")
      /\ sessions' = [sessions EXCEPT ![Req(t).session].revoked = TRUE]
  BY DEF IInv, RevokeSession
<1>1. sessions \in Seq(Session) /\ Req(t).session \in DOMAIN sessions
  BY <1>0 DEF TypeOK, Sound, Asked, Req
<1>2. /\ DOMAIN sessions' = DOMAIN sessions /\ sessions' \in Seq(Session)
      /\ \A s \in DOMAIN sessions :
           /\ sessions'[s].user = sessions[s].user /\ sessions'[s].expires = sessions[s].expires
           /\ ~sessions'[s].revoked => ~sessions[s].revoked
  <2> DEFINE x == Req(t).session
             closed == [sessions[x] EXCEPT !.revoked = TRUE]
  <2>1. sessions[x] \in Session
    BY <1>1
  <2>2. /\ closed \in Session /\ closed.revoked
        /\ closed.user = sessions[x].user /\ closed.expires = sessions[x].expires
    BY <2>1 DEF Session
  <2>3. sessions' = [sessions EXCEPT ![x] = closed]
    BY <1>0, <1>1
  <2> HIDE DEF closed, x
  <2>4. x \in DOMAIN sessions
    BY <1>1 DEF x
  <2> QED
    BY <1>1, <2>2, <2>3, <2>4
<1>3. Keeps
  BY <1>0, <1>2 DEF Keeps
<1>4. /\ users' \in Seq(User) /\ projects' \in Seq(Slugs) /\ audit' \in Seq(Event)
      /\ \A s \in DOMAIN sessions' : sessions'[s].user \in DOMAIN users'
  BY <1>0, <1>2 DEF TypeOK
<1> QED
  BY <1>0, <1>2, <1>3, <1>4, AnswerIsSound DEF Replies

LEMMA ReadOwnerSound ==
  ASSUME IInv, NEW t \in Tasks, ReadOwner(t)
  PROVE  IInv'
<1> DEFINE i == sessions[Req(t).session].user
           r == Req(t)
<1>0. /\ TypeOK /\ UNCHANGED <<tables, now, budget>> /\ Observe /\ Sound(t)
      /\ pc[t] = "owner" /\ local[t] \in Local
  BY DEF IInv, ReadOwner, TypeOK
<1>1. r \in Requests /\ r \in Request /\ r.op \in PageOps /\ r.session \in DOMAIN sessions
  BY <1>0, ConstantsAssumption DEF Sound, Asked, Req
<1>2. i \in DOMAIN users /\ i \in Nat /\ users[i] \in User
  BY <1>0, <1>1 DEF TypeOK
<1>3. "session" \in merits[t]
  BY <1>0 DEF Sound, Entitled
<1>4. CASE \E outcome \in {"login", "unauthorized", "forbidden", "invalid"} : Answer(t, outcome)
  BY <1>0, <1>4, RefusalIsSound DEF Replies
<1>5. CASE /\ local' = [local EXCEPT ![t].gate = FALSE, ![t].at = now]
           /\ Goto(t, "session")
  <2> DEFINE l == [local[t] EXCEPT !.gate = FALSE, !.at = now]
  <2>1. l \in Local /\ l.req = r
    BY <1>0 DEF Local, TypeOK, Req
  <2>2. local' = [local EXCEPT ![t] = l]
    BY <1>0, <1>5 DEF TypeOK, Local
  <2> HIDE DEF l
  <2>3. /\ local' \in [Tasks -> Local] /\ local'[t] = l
        /\ \A u \in Tasks \ {t} : local'[u] = local[u]
    BY <1>0, <2>1, <2>2, LocalChange
  <2>4. pc'[t] = "session"
    BY <1>0, <1>5 DEF Goto, TypeOK
  <2>5. "session" \in merits'[t]
    BY <1>0, <1>3, <2>4, HistoryGrows
  <2>6. Sound(t)'
    BY <1>0, <1>1, <2>1, <2>3, <2>4, <2>5 DEF Sound, Asked, Entitled, Drafted, tables
  <2> QED
    BY <1>0, <1>5, <2>3, <2>6, ReadGoesOn DEF Calls
<1>6. CASE /\ users[i].active /\ users[i].role = "super_admin" /\ ~FormRefused(r)
           /\ local' = [local EXCEPT ![t].user = i]
           /\ Goto(t, PageCall(r))
  <2> DEFINE l == [local[t] EXCEPT !.user = i]
  <2>1. l \in Local /\ l.req = r /\ l.user = i
    BY <1>0, <1>2 DEF Local, TypeOK, Req
  <2>2. local' = [local EXCEPT ![t] = l]
    BY <1>0, <1>6 DEF TypeOK, Local
  <2> HIDE DEF l
  <2>3. /\ local' \in [Tasks -> Local] /\ local'[t] = l
        /\ \A u \in Tasks \ {t} : local'[u] = local[u]
    BY <1>0, <2>1, <2>2, LocalChange
  <2>4. pc'[t] = PageCall(r) /\ PageCall(r) \in {"insert", "page", "target"}
    BY <1>0, <1>6 DEF Goto, TypeOK, PageCall
  <2>5. "session" \in merits'[t] /\ Merited(r)' \subseteq merits'[t]
    BY <1>0, <1>3, <2>4, HistoryGrows DEF Req
  <2>6. "admin" \in Merited(r)'
    BY <1>0, <1>1, <1>2, <1>6 DEF Merited, Merits, IsAdmin, IsUser, tables, Req
  <2>7. Asked(t)'
    <3>1. r.op \in {"create_user", "update_user"} => r.role \in Roles
      BY <1>1, <1>6 DEF FormRefused, Request
    <3>2. r.op \in {"users", "audit", "create_user", "update_user", "reset_password"}
      BY <1>1 DEF PageOps
    <3> QED
      BY <1>1, <2>1, <2>3, <2>4, <3>1, <3>2 DEF Asked, PageCall
  <2>8. Entitled(t)' /\ Drafted(t)'
    BY <1>0, <1>2, <2>1, <2>3, <2>4, <2>5, <2>6 DEF Entitled, Drafted, tables
  <2> QED
    BY <1>0, <1>6, <2>3, <2>4, <2>7, <2>8, ReadGoesOn DEF Calls, Sound
<1> QED
  BY <1>4, <1>5, <1>6 DEF ReadOwner

LEMMA ReadPageSound ==
  ASSUME IInv, NEW t \in Tasks, ReadPage(t)
  PROVE  IInv'
  BY RefusalIsSound DEF ReadPage, Refuse, Replies

(* What a form makes of a well-typed row.                                  *)
LEMMA EditedRow ==
  ASSUME NEW row \in User, NEW r \in Requests, r.op \in {"update_user", "reset_password"},
         r.op = "update_user" => r.role \in Roles
  PROVE  /\ Edited(row, r) \in User /\ Edited(row, r).name = row.name
         /\ IF r.op = "update_user" THEN Edited(row, r).password = row.password
            ELSE Edited(row, r).role = row.role /\ Edited(row, r).active = row.active
<1>1. WellFormed(r) /\ r.active \in BOOLEAN
  BY ConstantsAssumption DEF Request
<1>2. CASE r.op = "update_user"
  BY <1>1, <1>2 DEF Edited, User
<1>3. CASE r.op = "reset_password"
  BY <1>1, <1>3 DEF Edited, User, WellFormed
<1> QED
  BY <1>2, <1>3

LEMMA ReadTargetSound ==
  ASSUME IInv, NEW t \in Tasks, ReadTarget(t)
  PROVE  IInv'
<1> DEFINE r == Req(t)
           i == r.user
           row == Edited(users[i], r)
<1>0. /\ TypeOK /\ UNCHANGED <<tables, now, budget>> /\ Observe /\ Sound(t)
      /\ pc[t] = "target" /\ local[t] \in Local
  BY DEF IInv, ReadTarget, TypeOK
<1>1. CASE \E outcome \in {"not_found", "invalid"} : Answer(t, outcome)
  BY <1>0, <1>1, RefusalIsSound DEF Replies
<1>2. CASE /\ IsUser(i) /\ ~LocksOut(i, row, local[t].user)
           /\ local' = [local EXCEPT ![t].row = row, ![t].id = i]
           /\ Goto(t, "write")
  <2>1. /\ r \in Requests /\ r.op \in {"update_user", "reset_password"}
        /\ r.op = "update_user" => r.role \in Roles
    BY <1>0 DEF Sound, Asked, Req
  <2>2. i \in DOMAIN users /\ users[i] \in User /\ i \in Nat
    BY <1>0, <1>2 DEF TypeOK, IsUser
  <2>3. row \in User /\ row.name = users[i].name
    BY <2>1, <2>2, EditedRow
  <2> DEFINE l == [local[t] EXCEPT !.row = row, !.id = i]
  <2> HIDE DEF row
  <2>4. l \in Local /\ l.req = r /\ l.row = row /\ l.id = i /\ l.user = local[t].user
    BY <1>0, <2>2, <2>3 DEF Local, Req
  <2>5. local' = [local EXCEPT ![t] = l]
    BY <1>0, <1>2 DEF TypeOK, Local
  <2> HIDE DEF l
  <2>6. /\ local' \in [Tasks -> Local] /\ local'[t] = l
        /\ \A u \in Tasks \ {t} : local'[u] = local[u]
    BY <1>0, <2>4, <2>5, LocalChange
  <2>7. pc'[t] = "write"
    BY <1>0, <1>2 DEF Goto, TypeOK
  <2>8. merits[t] \subseteq merits'[t]
    BY <1>0, <2>7, HistoryGrows
  <2>9. Asked(t)' /\ Entitled(t)'
    BY <1>0, <2>1, <2>4, <2>6, <2>7, <2>8 DEF Asked, Entitled, Sound, tables, PageOps
  <2>10. Drafted(t)'
    <3>1. users' = users /\ local[t].user \in DOMAIN users
      BY <1>0 DEF tables, Sound, Drafted
    <3>2. row = Edited(users[i], r)
      BY DEF row
    <3> QED
      BY <1>2, <2>2, <2>3, <2>4, <2>6, <2>7, <3>1, <3>2 DEF Drafted
  <2> QED
    BY <1>0, <1>2, <2>6, <2>9, <2>10, ReadGoesOn DEF Calls, Sound
<1> QED
  BY <1>1, <1>2 DEF ReadTarget

(* A written row replaces one of the same name, and moves no other.        *)
LEMMA WrittenRow ==
  ASSUME IInv, NEW t \in Tasks, WriteUser(t)
  PROVE  /\ users' \in Seq(User) /\ DOMAIN users' = DOMAIN users
         /\ local[t].id \in DOMAIN users /\ local[t].id = Req(t).user
         /\ users'[local[t].id] = local[t].row
         /\ \A i \in DOMAIN users : i # local[t].id => users'[i] = users[i]
         /\ \A i \in DOMAIN users : users'[i].name = users[i].name
<1> DEFINE x == local[t].id
           row == local[t].row
<1>1. /\ users \in Seq(User) /\ x \in DOMAIN users /\ x = Req(t).user /\ row \in User
      /\ row.name = users[x].name /\ users' = [users EXCEPT ![x] = row]
  BY DEF IInv, TypeOK, Sound, Drafted, WriteUser, Req
<1> HIDE DEF x, row
<1>2. /\ users' \in Seq(User) /\ DOMAIN users' = DOMAIN users /\ users'[x] = row
      /\ \A i \in DOMAIN users : i # x => users'[i] = users[i]
  BY <1>1
<1> QED
  BY <1>1, <1>2 DEF x, row

LEMMA WriteUserSound ==
  ASSUME IInv, NEW t \in Tasks, WriteUser(t)
  PROVE  IInv'
<1>0. /\ TypeOK /\ UNCHANGED <<sessions, projects, audit, now, local, budget>> /\ Observe
      /\ Sound(t) /\ pc[t] = "write" /\ Goto(t, "record")
  BY DEF IInv, WriteUser
<1>1. /\ users' \in Seq(User) /\ DOMAIN users' = DOMAIN users
      /\ \A i \in DOMAIN users : users'[i].name = users[i].name
  BY WrittenRow
<1>2. Keeps /\ OthersStand(t) /\ pc'[t] = "record"
  BY <1>0, <1>1 DEF Keeps, OthersStand, Goto, TypeOK
<1>3. TypeOK'
  <2>1. /\ sessions' \in Seq(Session) /\ projects' \in Seq(Slugs)
        /\ audit' \in Seq(Event) /\ now' \in Nat /\ budget' \in Nat
        /\ \A s \in DOMAIN sessions' : sessions'[s].user \in DOMAIN users'
        /\ reply' \in [Tasks -> Replies] /\ local' \in [Tasks -> Local]
    BY <1>0, <1>1 DEF TypeOK, Goto
  <2> QED
    BY <1>0, <1>1, <2>1, GoingOnIsTyped DEF Calls, Goto
<1>4. Sound(t)'
  BY <1>0, <1>1, <1>2 DEF Sound, Asked, Entitled, Drafted
<1> QED
  BY <1>0, <1>2, <1>3, <1>4, StepIsSound

LEMMA InsertUserSound ==
  ASSUME IInv, NEW t \in Tasks, InsertUser(t)
  PROVE  IInv'
<1>0. /\ TypeOK /\ UNCHANGED <<sessions, projects, audit, now, budget>> /\ Observe
      /\ Sound(t) /\ pc[t] = "insert" /\ local[t] \in Local
  BY DEF IInv, InsertUser, TypeOK
<1>1. CASE Answer(t, "duplicate") /\ UNCHANGED users
  BY <1>0, <1>1, RefusalIsSound DEF Replies, tables
<1> DEFINE new == [name |-> Req(t).name, password |-> Req(t).password,
                   role |-> Req(t).role, active |-> TRUE]
<1>2. CASE /\ users' = Append(users, new) /\ Goto(t, "record")
           /\ local' = [local EXCEPT ![t].id = Len(users) + 1]
  <2>1. new \in User
    <3>1. WellFormed(Req(t)) /\ Req(t).op = "create_user" /\ Req(t).role \in Roles
      BY <1>0, ConstantsAssumption DEF Sound, Asked, Req
    <3> QED
      BY <3>1 DEF WellFormed, User
  <2>2. users \in Seq(User)
    BY <1>0 DEF TypeOK
  <2> HIDE DEF new
  <2>3. /\ users' \in Seq(User) /\ DOMAIN users \subseteq DOMAIN users'
        /\ \A i \in DOMAIN users : users'[i] = users[i]
    BY <1>2, <2>1, <2>2
  <2> DEFINE l == [local[t] EXCEPT !.id = Len(users) + 1]
  <2>4. l \in Local /\ l.user = local[t].user /\ l.req = local[t].req
    BY <1>0, <2>2 DEF Local
  <2>5. local' = [local EXCEPT ![t] = l]
    BY <1>0, <1>2 DEF TypeOK, Local
  <2> HIDE DEF l
  <2>6. /\ local' \in [Tasks -> Local] /\ local'[t] = l
        /\ \A u \in Tasks \ {t} : local'[u] = local[u]
    BY <1>0, <2>4, <2>5, LocalChange
  <2>7. Keeps /\ OthersStand(t) /\ pc'[t] = "record"
    BY <1>0, <1>2, <2>3, <2>6 DEF Keeps, OthersStand, Goto, TypeOK
  <2>8. TypeOK'
    <3>1. /\ sessions' \in Seq(Session) /\ projects' \in Seq(Slugs)
          /\ audit' \in Seq(Event) /\ now' \in Nat /\ budget' \in Nat
          /\ \A s \in DOMAIN sessions' : sessions'[s].user \in DOMAIN users'
          /\ reply' \in [Tasks -> Replies]
      BY <1>0, <1>2, <2>3 DEF TypeOK, Goto
    <3> QED
      BY <1>0, <1>2, <2>3, <2>6, <3>1, GoingOnIsTyped DEF Calls, Goto
  <2>9. Sound(t)'
    BY <1>0, <2>3, <2>4, <2>6, <2>7 DEF Sound, Asked, Entitled, Drafted
  <2> QED
    BY <1>0, <2>7, <2>8, <2>9, StepIsSound
<1> QED
  BY <1>1, <1>2 DEF InsertUser

LEMMA ReadBearerSound ==
  ASSUME IInv, NEW t \in Tasks, ReadBearer(t)
  PROVE  IInv'
<1> DEFINE r == Req(t)
           i == r.user
<1>0. /\ TypeOK /\ UNCHANGED <<tables, now, budget>> /\ Observe /\ Sound(t)
      /\ pc[t] = "bearer" /\ local[t] \in Local
  BY DEF IInv, ReadBearer, TypeOK
<1>1. CASE \E outcome \in {"unauthorized", "forbidden", "invalid"} : Answer(t, outcome)
  BY <1>0, <1>1, RefusalIsSound DEF Replies
<1>2. CASE /\ CanWrite(i) /\ Goto(t, "project")
           /\ local' = [local EXCEPT ![t].user = i]
  <2>1. i \in DOMAIN users /\ i \in Nat /\ r.op = "create_project" /\ r \in Requests
    BY <1>0, <1>2 DEF TypeOK, CanWrite, IsUser, Sound, Asked, Req
  <2> DEFINE l == [local[t] EXCEPT !.user = i]
  <2>2. l \in Local /\ l.req = r /\ l.user = i
    BY <1>0, <2>1 DEF Local, Req
  <2>3. local' = [local EXCEPT ![t] = l]
    BY <1>0, <1>2 DEF TypeOK, Local
  <2> HIDE DEF l
  <2>4. /\ local' \in [Tasks -> Local] /\ local'[t] = l
        /\ \A u \in Tasks \ {t} : local'[u] = local[u]
    BY <1>0, <2>2, <2>3, LocalChange
  <2>5. pc'[t] = "project"
    BY <1>0, <1>2 DEF Goto, TypeOK
  <2>6. "writer" \in merits'[t]
    <3>1. Merited(local[t].req)' \subseteq merits'[t]
      BY <1>0, <2>5, HistoryStarts
    <3>2. "writer" \in Merited(local[t].req)'
      BY <1>0, <1>2, <2>1, <2>2, <2>4 DEF Merited, Merits, CanWrite, IsUser, tables
    <3> QED
      BY <3>1, <3>2
  <2>7. Sound(t)'
    BY <1>0, <2>1, <2>2, <2>4, <2>5, <2>6 DEF Sound, Asked, Entitled, Drafted, tables
  <2> QED
    BY <1>0, <1>2, <2>4, <2>7, ReadGoesOn DEF Calls
<1> QED
  BY <1>1, <1>2 DEF ReadBearer

LEMMA InsertProjectSound ==
  ASSUME IInv, NEW t \in Tasks, InsertProject(t)
  PROVE  IInv'
<1>0. /\ TypeOK /\ UNCHANGED <<users, sessions, audit, now, budget>> /\ Observe
      /\ Sound(t) /\ pc[t] = "project" /\ local[t] \in Local /\ Keeps
  BY UntouchedKeeps DEF IInv, InsertProject, TypeOK
<1>1. CASE Answer(t, "duplicate") /\ UNCHANGED projects
  BY <1>0, <1>1, RefusalIsSound DEF Replies, tables
<1>2. CASE /\ projects' = Append(projects, Req(t).slug) /\ Goto(t, "record")
           /\ local' = [local EXCEPT ![t].id = Len(projects) + 1]
  <2>1. projects \in Seq(Slugs) /\ Req(t).slug \in Slugs
    BY <1>0, ConstantsAssumption DEF TypeOK, Sound, Asked, Req, WellFormed
  <2>2. projects' \in Seq(Slugs) /\ Len(projects) + 1 \in Nat
    BY <1>2, <2>1
  <2> DEFINE l == [local[t] EXCEPT !.id = Len(projects) + 1]
  <2>3. l \in Local /\ l.user = local[t].user /\ l.req = local[t].req
    BY <1>0, <2>2 DEF Local
  <2>4. local' = [local EXCEPT ![t] = l]
    BY <1>0, <1>2 DEF TypeOK, Local
  <2> HIDE DEF l
  <2>5. /\ local' \in [Tasks -> Local] /\ local'[t] = l
        /\ \A u \in Tasks \ {t} : local'[u] = local[u]
    BY <1>0, <2>3, <2>4, LocalChange
  <2>6. OthersStand(t) /\ pc'[t] = "record"
    BY <1>0, <1>2, <2>5 DEF OthersStand, Goto, TypeOK
  <2>7. TypeOK'
    <3>1. /\ users' \in Seq(User) /\ sessions' \in Seq(Session)
          /\ audit' \in Seq(Event) /\ now' \in Nat /\ budget' \in Nat
          /\ \A s \in DOMAIN sessions' : sessions'[s].user \in DOMAIN users'
          /\ reply' \in [Tasks -> Replies]
      BY <1>0, <1>2 DEF TypeOK, Goto
    <3> QED
      BY <1>0, <1>2, <2>2, <2>5, <3>1, GoingOnIsTyped DEF Calls, Goto
  <2>8. Sound(t)'
    BY <1>0, <2>3, <2>5, <2>6 DEF Sound, Asked, Entitled, Drafted
  <2> QED
    BY <1>0, <2>6, <2>7, <2>8, StepIsSound
<1> QED
  BY <1>1, <1>2 DEF InsertProject

LEMMA RecordSound ==
  ASSUME IInv, NEW t \in Tasks, Record(t)
  PROVE  IInv'
<1>0. /\ TypeOK /\ UNCHANGED <<users, sessions, projects, now, budget>> /\ Observe
      /\ audit' = Append(audit, EventOf(t)) /\ Keeps
      /\ Answer(t, IF EventOf(t).action = "create" THEN "created" ELSE "updated")
  BY UntouchedKeeps DEF IInv, Record
<1>1. EventOf(t) \in Event
  BY <1>0 DEF EventOf, Event, TypeOK, Local
<1>2. audit' \in Seq(Event)
  BY <1>0, <1>1 DEF TypeOK
<1>3. /\ users' \in Seq(User) /\ sessions' \in Seq(Session) /\ projects' \in Seq(Slugs)
      /\ \A s \in DOMAIN sessions' : sessions'[s].user \in DOMAIN users'
  BY <1>0 DEF TypeOK
<1>4. (IF EventOf(t).action = "create" THEN "created" ELSE "updated") \in Replies
  BY DEF Replies
<1> QED
  BY <1>0, <1>2, <1>3, <1>4, AnswerIsSound

(* A step in which no task moves: the clock's, and a stutter.              *)
LEMMA IdleStepSound ==
  ASSUME IInv, Observe, UNCHANGED <<tables, pc, local, reply, budget>>, now' \in Nat
  PROVE  IInv'
<1>1. TypeOK /\ Keeps
  BY UntouchedKeeps DEF IInv, tables
<1>2. TypeOK'
  <2>1. merits' \in [Tasks -> SUBSET Merits]
    BY <1>1, HistoryTyped
  <2> QED
    BY <1>1, <2>1 DEF TypeOK, tables
<1>3. \A t \in Tasks : Sound(t)'
  BY <1>1, StandingStaysSound DEF IInv
<1> QED
  BY <1>2, <1>3 DEF IInv

(* Nothing at all moves.                                                   *)
LEMMA StutterSound ==
  ASSUME IInv, UNCHANGED vars
  PROVE  IInv'
  BY DEF IInv, TypeOK, Sound, Asked, Entitled, Drafted, vars

LEMMA InitSound ==
  ASSUME Init
  PROVE  IInv
<1>1. TypeOK
  BY ConstantsAssumption, NoLocalsTyped DEF Init, TypeOK, Replies
<1>2. \A t \in Tasks : pc[t] = "idle"
  BY DEF Init
<1>3. \A t \in Tasks : Sound(t)
  BY <1>2 DEF Sound, Asked, Entitled, Drafted
<1> QED
  BY <1>1, <1>3 DEF IInv

LEMMA NextSound ==
  ASSUME IInv, [Next]_vars
  PROVE  IInv'
<1>1. CASE \E t \in Tasks : Begin(t)
  BY <1>1, BeginSound
<1>2. CASE \E t \in Tasks : Step(t)
  BY <1>2, LookUpUserSound, OpenSessionSound, FindSessionSound, RevokeSessionSound,
     ReadOwnerSound, ReadPageSound, ReadTargetSound, WriteUserSound, InsertUserSound,
     ReadBearerSound, InsertProjectSound, RecordSound DEF Step
<1>3. CASE \E t \in Tasks : Abort(t)
  <2>1. PICK t \in Tasks : Abort(t)
    BY <1>3
  <2>2. IfFailed(t) \in Replies
    BY DEF IfFailed, Replies
  <2>3. PICK outcome \in Replies : Refuse(t, outcome)
    BY <2>1, <2>2 DEF Abort, Replies
  <2> QED
    BY <2>1, <2>3, RefusalIsSound DEF Abort, Refuse
<1>4. CASE Tick
  BY <1>4, IdleStepSound DEF Tick, IInv, TypeOK
<1>5. CASE UNCHANGED vars
  BY <1>5, StutterSound
<1> QED
  BY <1>1, <1>2, <1>3, <1>4, <1>5 DEF Next, Finished

LEMMA Inductive == Spec => []IInv
<1>1. Init => IInv
  BY InitSound
<1>2. IInv /\ [Next]_vars => IInv'
  BY NextSound
<1> QED
  BY <1>1, <1>2, PTL DEF Spec

(* Tables, requests and history stay within their types whatever requests  *)
(* arrive and however they interleave and are lost.                        *)
THEOREM Typed == Spec => []TypeOK
<1>1. IInv => TypeOK
  BY DEF IInv
<1> QED
  BY <1>1, Inductive, PTL

(* No request gets past the checks of login, logout, the pages or the      *)
(* bearer unless, at some instant since it arrived, its author had the     *)
(* right to do what it asks for.                                           *)
THEOREM AuthorityHeld == Spec => []AuthorityWasHeld
<1>1. IInv => AuthorityWasHeld
  BY DEF IInv, Sound, Entitled, AuthorityWasHeld
<1> QED
  BY <1>1, Inductive, PTL

----------------------------------------------------------------------------
(* Who changes users, and how                                              *)

(* A step that is no WriteUser leaves every user there is as it was.       *)
LEMMA OnlyWritesChangeUsers ==
  ASSUME IInv, [Next]_vars, \A t \in Tasks : ~WriteUser(t)
  PROVE  DOMAIN users \subseteq DOMAIN users' /\ \A i \in DOMAIN users : users'[i] = users[i]
<1>1. CASE UNCHANGED users
  BY <1>1
<1>2. CASE \E t \in Tasks : InsertUser(t)
  <2>1. users \in Seq(User)
    BY DEF IInv, TypeOK
  <2>2. CASE \E row : users' = Append(users, row)
    BY <2>1, <2>2
  <2> QED
    BY <1>1, <1>2, <2>2 DEF InsertUser
<1>3. UNCHANGED users \/ \E t \in Tasks : InsertUser(t)
  BY DEF Next, Step, Begin, LookUpUser, OpenSession, FindSession, RevokeSession, ReadOwner,
         ReadPage, ReadTarget, ReadBearer, InsertProject, Record, Abort, Refuse, Tick, Finished,
         vars, tables
<1> QED
  BY <1>1, <1>2, <1>3

LEMMA LastAdminStep ==
  ASSUME IInv, [Next]_vars, SomeAdmin, ~SomeAdmin'
  PROVE  \E t \in Tasks : pc[t] = "write" /\ ~IsAdmin(local[t].user)
<1>1. PICK i \in DOMAIN users : IsAdmin(i)
  BY DEF SomeAdmin
<1>2. i \notin DOMAIN users' \/ users'[i] # users[i]
  BY <1>1 DEF SomeAdmin, IsAdmin, IsUser
<1>3. PICK t \in Tasks : WriteUser(t)
  BY <1>2, OnlyWritesChangeUsers
<1>4. pc[t] = "write" /\ ~LocksOut(local[t].id, local[t].row, local[t].user)
  BY <1>3 DEF WriteUser, IInv, Sound, Drafted
<1>5. ~IsAdmin(local[t].user)
  <2> SUFFICES ASSUME NEW a, a = local[t].user, IsAdmin(a) PROVE FALSE
    OBVIOUS
  <2>1. a \in DOMAIN users /\ a \in DOMAIN users'
    BY <1>3, WrittenRow DEF IsAdmin, IsUser
  <2>2. ~IsAdmin(a)'
    BY <2>1 DEF SomeAdmin
  <2>3. users'[a] # users[a]
    BY <2>1, <2>2 DEF IsAdmin, IsUser
  <2>4. a = local[t].id /\ users'[a] = local[t].row
    BY <1>3, <2>1, <2>3, WrittenRow
  <2>5. users'[a].active /\ users'[a].role = "super_admin"
    BY <1>4, <2>4 DEF LocksOut
  <2> QED
    BY <2>1, <2>2, <2>5 DEF IsAdmin, IsUser
<1> QED
  BY <1>4, <1>5

(* The last active super admin is lost only to the write of a request      *)
(* whose author has been disabled or demoted after it was checked.         *)
THEOREM LastAdmin == Spec => LastAdminFallsOnlyToStaleAuthority
<1>1. IInv /\ [Next]_vars =>
        [SomeAdmin /\ ~SomeAdmin' =>
           \E t \in Tasks : pc[t] = "write" /\ ~IsAdmin(local[t].user)]_vars
  BY LastAdminStep
<1> QED
  BY <1>1, Inductive, PTL DEF Spec, LastAdminFallsOnlyToStaleAuthority

(* The step property of EditsKeepToTheirForm.                              *)
KeepsToForm(t) ==
  \A i \in DOMAIN users :
    /\ users'[i].name = users[i].name
    /\ i # Req(t).user => users'[i] = users[i]
    /\ "overtaken" \notin merits[t] =>
         IF Req(t).op = "update_user"
         THEN users'[i].password = users[i].password
         ELSE users'[i].role = users[i].role /\ users'[i].active = users[i].active

(* A task goes from write to record by its own WriteUser alone.            *)
LEMMA WriteIsByItsTask ==
  ASSUME IInv, [Next]_vars, NEW t \in Tasks, pc[t] = "write", pc'[t] = "record"
  PROVE  WriteUser(t)
<1>0. pc \in [Tasks -> Calls \cup {"idle"}]
  BY DEF IInv, TypeOK
<1>1. pc' # pc
  OBVIOUS
<1>2. PICK u \in Tasks : Begin(u) \/ Step(u) \/ Abort(u)
  BY <1>1 DEF Next, Tick, Finished, vars
<1>3. u = t
  BY <1>0, <1>2 DEF Step, Begin, LookUpUser, OpenSession, FindSession, RevokeSession, ReadOwner,
         ReadPage, ReadTarget, WriteUser, InsertUser, ReadBearer, InsertProject, Record, Abort,
         Refuse, Goto, Answer
<1> QED
  BY <1>0, <1>2, <1>3 DEF Step, Begin, LookUpUser, OpenSession, FindSession, RevokeSession,
         ReadOwner, ReadPage, ReadTarget, InsertUser, ReadBearer, InsertProject, Record, Abort,
         Refuse, Answer

LEMMA WriteKeepsToForm ==
  ASSUME IInv, NEW t \in Tasks, WriteUser(t)
  PROVE  KeepsToForm(t)
<1> DEFINE x == local[t].id
<1>1. /\ x \in DOMAIN users /\ x = Req(t).user /\ users'[x] = local[t].row
      /\ \A i \in DOMAIN users : i # x => users'[i] = users[i]
      /\ \A i \in DOMAIN users : users'[i].name = users[i].name
  BY WrittenRow
<1>2. /\ users[x] \in User /\ Req(t) \in Requests
      /\ Req(t).op \in {"update_user", "reset_password"}
      /\ Req(t).op = "update_user" => Req(t).role \in Roles
      /\ "overtaken" \notin merits[t] => local[t].row = Edited(users[x], Req(t))
  BY <1>1 DEF IInv, TypeOK, Sound, Drafted, Asked, Req, WriteUser
<1>3. "overtaken" \notin merits[t] =>
        IF Req(t).op = "update_user"
        THEN users'[x].password = users[x].password
        ELSE users'[x].role = users[x].role /\ users'[x].active = users[x].active
  BY <1>1, <1>2, EditedRow
<1> HIDE DEF x
<1> QED
  BY <1>1, <1>3 DEF KeepsToForm

LEMMA EditStep ==
  ASSUME IInv, [Next]_vars
  PROVE  \A t \in Tasks : pc[t] = "write" /\ pc'[t] = "record" => KeepsToForm(t)
  BY WriteIsByItsTask, WriteKeepsToForm

(* A form changes only the user it names, and in that row only the fields  *)
(* it shows, unless another request changed the row since it was read.     *)
THEOREM EditsKept == Spec => EditsKeepToTheirForm
<1>1. IInv /\ [Next]_vars =>
        [\A t \in Tasks : pc[t] = "write" /\ pc'[t] = "record" =>
           \A i \in DOMAIN users :
             /\ users'[i].name = users[i].name
             /\ i # Req(t).user => users'[i] = users[i]
             /\ "overtaken" \notin merits[t] =>
                  IF Req(t).op = "update_user"
                  THEN users'[i].password = users[i].password
                  ELSE users'[i].role = users[i].role
                         /\ users'[i].active = users[i].active]_vars
  BY EditStep DEF KeepsToForm
<1> QED
  BY <1>1, Inductive, PTL DEF Spec, EditsKeepToTheirForm

----------------------------------------------------------------------------
(* The log                                                                 *)

(* An entry of an existing author about what exists, and was made if the   *)
(* entry says so.                                                          *)
Known(e) ==
  /\ e.actor \in DOMAIN users
  /\ e.action = "update" => e.id \in DOMAIN users
  /\ Creation(e) => e.id \in IF e.resource = "user" THEN MadeUsers ELSE MadeProjects

SameThing(e, f) == e.resource = f.resource /\ e.id = f.id

(* What is logged and what tasks are about to log is known, and no two of  *)
(* these entries are of one creation.                                      *)
LogInv ==
  /\ DOMAIN InitialUsers \subseteq DOMAIN users
  /\ \A k \in DOMAIN audit : Known(audit[k])
  /\ \A t \in Tasks : pc[t] = "record" => Known(EventOf(t))
  /\ \A k, l \in DOMAIN audit :
       Creation(audit[k]) /\ Creation(audit[l]) /\ SameThing(audit[k], audit[l]) => k = l
  /\ \A k \in DOMAIN audit, t \in Tasks :
       Creation(audit[k]) /\ Creating(t) => ~SameThing(audit[k], EventOf(t))
  /\ \A t, u \in Tasks :
       Creating(t) /\ Creating(u) /\ SameThing(EventOf(t), EventOf(u)) => t = u

(* What is known stays so while users and projects are only added.         *)
LEMMA KnownStays ==
  ASSUME NEW e, Known(e), DOMAIN users \subseteq DOMAIN users',
         DOMAIN projects \subseteq DOMAIN projects'
  PROVE  Known(e)'
  BY DEF Known, MadeUsers, MadeProjects

(* A step that logs nothing keeps the log true if what its task then owes  *)
(* is known, and new if it is a creation.                                  *)
LEMMA OwingKeepsLog ==
  ASSUME LogInv, audit' = audit, NEW t \in Tasks, OthersStand(t),
         DOMAIN users \subseteq DOMAIN users', DOMAIN projects \subseteq DOMAIN projects',
         pc'[t] = "record" => Known(EventOf(t))',
         Creating(t)' => \A e : Known(e) /\ Creation(e) => ~SameThing(e, EventOf(t)')
  PROVE  LogInv'
<1>1. \A u \in Tasks \ {t} :
        /\ pc'[u] = pc[u] /\ EventOf(u)' = EventOf(u)
        /\ Creating(u)' <=> Creating(u)
  BY DEF OthersStand, EventOf, Creating, Req, Creation
<1>2. \A k \in DOMAIN audit : Known(audit[k])'
  BY KnownStays DEF LogInv
<1>3. \A u \in Tasks : pc'[u] = "record" => Known(EventOf(u))'
  <2>1. ASSUME NEW u \in Tasks \ {t}, pc'[u] = "record" PROVE Known(EventOf(u))'
    <3>1. Known(EventOf(u)) /\ EventOf(u)' = EventOf(u)
      BY <1>1, <2>1 DEF LogInv
    <3> QED
      BY <3>1 DEF Known, MadeUsers, MadeProjects
  <2> QED
    BY <2>1
<1>4. \A k \in DOMAIN audit, u \in Tasks :
        Creation(audit[k]) /\ Creating(u)' => ~SameThing(audit[k], EventOf(u)')
  BY <1>1 DEF LogInv
<1>5. \A u, v \in Tasks :
        Creating(u)' /\ Creating(v)' /\ SameThing(EventOf(u)', EventOf(v)') => u = v
  <2>1. \A u \in Tasks \ {t} : Creating(u) => Known(EventOf(u)) /\ Creation(EventOf(u))
    BY DEF LogInv, Creating
  <2>2. \A e, f : SameThing(e, f) <=> SameThing(f, e)
    BY DEF SameThing
  <2>3. \A u \in Tasks \ {t} :
          Creating(u)' /\ Creating(t)' => ~SameThing(EventOf(u)', EventOf(t)')
    BY <1>1, <2>1
  <2>4. \A u, v \in Tasks \ {t} :
          Creating(u)' /\ Creating(v)' /\ SameThing(EventOf(u)', EventOf(v)') => u = v
    BY <1>1 DEF LogInv
  <2> QED
    BY <2>2, <2>3, <2>4
<1> QED
  BY <1>2, <1>3, <1>4, <1>5 DEF LogInv, SameThing, Creation

(* A step whose task owes nothing after it, and one in which none moves.   *)
LEMMA QuietKeepsLog ==
  ASSUME LogInv, audit' = audit, NEW t \in Tasks, OthersStand(t), pc'[t] # "record",
         DOMAIN users \subseteq DOMAIN users', DOMAIN projects \subseteq DOMAIN projects'
  PROVE  LogInv'
  BY OwingKeepsLog DEF Creating

LEMMA IdleKeepsLog ==
  ASSUME LogInv, UNCHANGED <<users, projects, audit, pc, local>>
  PROVE  LogInv'
  BY DEF LogInv, Known, SameThing, MadeUsers, MadeProjects, Creation, Creating, EventOf, Req

(* A write owes an update, which is no creation.                           *)
LEMMA WriteKeepsLog ==
  ASSUME IInv, LogInv, NEW t \in Tasks, WriteUser(t)
  PROVE  LogInv'
<1>1. /\ pc \in [Tasks -> Calls \cup {"idle"}] /\ local' = local /\ pc'[t] = "record"
      /\ audit' = audit /\ projects' = projects /\ DOMAIN users' = DOMAIN users
      /\ OthersStand(t)
  BY DEF IInv, TypeOK, WriteUser, Goto, OthersStand
<1>2. /\ local[t].user \in DOMAIN users /\ local[t].id \in DOMAIN users
      /\ Req(t).op \in {"update_user", "reset_password"}
  BY DEF IInv, Sound, Drafted, Asked, WriteUser, Req
<1>3. EventOf(t)' = EventOf(t) /\ EventOf(t).action = "update"
      /\ EventOf(t).actor = local[t].user /\ EventOf(t).id = local[t].id
  BY <1>1, <1>2 DEF EventOf, Req
<1>4. Known(EventOf(t))' /\ ~Creating(t)'
  BY <1>1, <1>2, <1>3 DEF Known, Creation, Creating
<1> QED
  BY <1>1, <1>4, OwingKeepsLog

(* An insert owes a creation under an id that no row has had.              *)
LEMMA InsertUserKeepsLog ==
  ASSUME IInv, LogInv, NEW t \in Tasks, InsertUser(t)
  PROVE  LogInv'
<1>0. /\ pc \in [Tasks -> Calls \cup {"idle"}] /\ local \in [Tasks -> Local]
      /\ users \in Seq(User) /\ audit' = audit /\ projects' = projects
      /\ pc[t] = "insert" /\ local[t].user \in DOMAIN users /\ Req(t).op = "create_user"
  BY DEF IInv, TypeOK, InsertUser, Sound, Asked, Drafted, Req
<1>1. CASE Answer(t, "duplicate") /\ UNCHANGED users
  BY <1>0, <1>1, QuietKeepsLog DEF Answer, OthersStand
<1>2. CASE /\ \E row : users' = Append(users, row)
           /\ local' = [local EXCEPT ![t].id = Len(users) + 1] /\ Goto(t, "record")
  <2>1. /\ DOMAIN users' = DOMAIN users \cup {Len(users) + 1}
        /\ Len(users) + 1 \notin DOMAIN users
    BY <1>0, <1>2
  <2>2. /\ pc'[t] = "record" /\ OthersStand(t) /\ local'[t].id = Len(users) + 1
        /\ local'[t].user = local[t].user /\ local'[t].req = local[t].req
    BY <1>0, <1>2 DEF Goto, OthersStand, Local
  <2>3. /\ EventOf(t)'.actor = local[t].user /\ EventOf(t)'.id = Len(users) + 1
        /\ EventOf(t)'.action = "create" /\ EventOf(t)'.resource = "user"
    BY <1>0, <2>2 DEF EventOf, Req
  <2>4. Len(users) + 1 \notin DOMAIN InitialUsers
    BY <2>1 DEF LogInv
  <2>5. Known(EventOf(t))'
    BY <1>0, <2>1, <2>3, <2>4 DEF Known, Creation, MadeUsers
  <2>6. \A e : Known(e) /\ Creation(e) => ~SameThing(e, EventOf(t)')
    BY <2>1, <2>3 DEF Known, SameThing, MadeUsers
  <2> QED
    BY <1>0, <2>1, <2>2, <2>5, <2>6, OwingKeepsLog
<1> QED
  BY <1>1, <1>2 DEF InsertUser

LEMMA InsertProjectKeepsLog ==
  ASSUME IInv, LogInv, NEW t \in Tasks, InsertProject(t)
  PROVE  LogInv'
<1>0. /\ pc \in [Tasks -> Calls \cup {"idle"}] /\ local \in [Tasks -> Local]
      /\ projects \in Seq(Slugs) /\ audit' = audit /\ users' = users
      /\ pc[t] = "project" /\ local[t].user \in DOMAIN users /\ Req(t).op = "create_project"
  BY DEF IInv, TypeOK, InsertProject, Sound, Asked, Drafted, Req
<1>1. CASE Answer(t, "duplicate") /\ UNCHANGED projects
  BY <1>0, <1>1, QuietKeepsLog DEF Answer, OthersStand
<1>2. CASE /\ projects' = Append(projects, Req(t).slug)
           /\ local' = [local EXCEPT ![t].id = Len(projects) + 1] /\ Goto(t, "record")
  <2>1. /\ DOMAIN projects' = DOMAIN projects \cup {Len(projects) + 1}
        /\ Len(projects) + 1 \notin DOMAIN projects
    BY <1>0, <1>2
  <2>2. /\ pc'[t] = "record" /\ OthersStand(t) /\ local'[t].id = Len(projects) + 1
        /\ local'[t].user = local[t].user /\ local'[t].req = local[t].req
    BY <1>0, <1>2 DEF Goto, OthersStand, Local
  <2>3. /\ EventOf(t)'.actor = local[t].user /\ EventOf(t)'.id = Len(projects) + 1
        /\ EventOf(t)'.action = "create" /\ EventOf(t)'.resource = "project"
    BY <1>0, <2>2 DEF EventOf, Req
  <2>4. Known(EventOf(t))'
    BY <1>0, <2>1, <2>3 DEF Known, Creation, MadeProjects
  <2>5. \A e : Known(e) /\ Creation(e) => ~SameThing(e, EventOf(t)')
    BY <2>1, <2>3 DEF Known, SameThing, MadeProjects
  <2> QED
    BY <1>0, <2>1, <2>2, <2>4, <2>5, OwingKeepsLog
<1> QED
  BY <1>1, <1>2 DEF InsertProject

(* The entry that a task owed is now in the log.                           *)
LEMMA RecordKeepsLog ==
  ASSUME IInv, LogInv, NEW t \in Tasks, Record(t)
  PROVE  LogInv'
<1> DEFINE n == Len(audit) + 1
<1>0. PICK e : e = EventOf(t)
  OBVIOUS
<1>1. /\ audit \in Seq(Event) /\ audit' = Append(audit, e) /\ pc[t] = "record"
      /\ UNCHANGED <<users, projects>> /\ OthersStand(t) /\ pc'[t] = "idle"
  BY <1>0 DEF IInv, TypeOK, Record, Answer, OthersStand
<1>2. e \in Event
  BY <1>0 DEF IInv, TypeOK, EventOf, Event, Local
<1>3. /\ DOMAIN audit' = DOMAIN audit \cup {n} /\ n \notin DOMAIN audit
      /\ audit'[n] = e /\ \A k \in DOMAIN audit : audit'[k] = audit[k]
  BY <1>1, <1>2
<1>4. \A u \in Tasks : Creating(u)' => u # t /\ Creating(u)
  BY <1>1 DEF OthersStand, EventOf, Creating, Req, Creation
<1>5. \A u \in Tasks \ {t} : pc'[u] = pc[u] /\ EventOf(u)' = EventOf(u)
  BY <1>1 DEF OthersStand, EventOf, Req
<1>6. \A f : Known(f)' <=> Known(f)
  BY <1>1 DEF Known, MadeUsers, MadeProjects
<1>7. Known(e) /\ (Creation(e) => Creating(t))
  BY <1>0, <1>1 DEF LogInv, Creating
<1> HIDE DEF n
<1>8. \A k \in DOMAIN audit' : Known(audit'[k])
  BY <1>3, <1>7 DEF LogInv
<1>9. \A u \in Tasks : pc'[u] = "record" => Known(EventOf(u)')
  BY <1>1, <1>5 DEF LogInv
<1>10. \A k, l \in DOMAIN audit' :
         Creation(audit'[k]) /\ Creation(audit'[l]) /\ SameThing(audit'[k], audit'[l]) => k = l
  BY <1>0, <1>3, <1>7 DEF LogInv, SameThing
<1>11. \A k \in DOMAIN audit', u \in Tasks :
         Creation(audit'[k]) /\ Creating(u)' => ~SameThing(audit'[k], EventOf(u)')
  <2>1. \A u \in Tasks : Creating(u)' /\ Creation(e) => ~SameThing(e, EventOf(u)')
    BY <1>0, <1>4, <1>5, <1>7 DEF LogInv
  <2> QED
    BY <1>3, <1>4, <1>5, <2>1 DEF LogInv
<1>12. \A u, v \in Tasks :
         Creating(u)' /\ Creating(v)' /\ SameThing(EventOf(u)', EventOf(v)') => u = v
  BY <1>4, <1>5 DEF LogInv
<1>13. \A k \in DOMAIN audit' : Known(audit[k])'
  BY <1>1, <1>8 DEF Known, MadeUsers, MadeProjects
<1>14. \A u \in Tasks : pc'[u] = "record" => Known(EventOf(u))'
  BY <1>1, <1>9 DEF Known, MadeUsers, MadeProjects
<1> QED
  BY <1>1, <1>10, <1>11, <1>12, <1>13, <1>14 DEF LogInv, SameThing, Creation

LEMMA LogStep ==
  ASSUME IInv, LogInv, [Next]_vars
  PROVE  LogInv'
<1>1. ASSUME NEW t \in Tasks,
             \/ Begin(t) \/ LookUpUser(t) \/ OpenSession(t) \/ FindSession(t)
             \/ RevokeSession(t) \/ ReadOwner(t) \/ ReadPage(t) \/ ReadTarget(t)
             \/ ReadBearer(t) \/ Abort(t)
      PROVE  LogInv'
  <2>0. pc \in [Tasks -> Calls \cup {"idle"}] /\ local \in [Tasks -> Local]
    BY DEF IInv, TypeOK
  <2>1. UNCHANGED <<users, projects, audit>>
    BY <1>1 DEF Begin, LookUpUser, OpenSession, FindSession, RevokeSession, ReadOwner, ReadPage,
       ReadTarget, ReadBearer, Abort, Refuse, tables
  <2>2. OthersStand(t)
    BY <1>1, <2>0 DEF Begin, LookUpUser, OpenSession, FindSession, RevokeSession, ReadOwner,
       ReadPage, ReadTarget, ReadBearer, Abort, Refuse, Goto, Answer, OthersStand
  <2>3. pc'[t] # "record"
    BY <1>1, <2>0 DEF Begin, FirstCall, LookUpUser, OpenSession, FindSession, RevokeSession,
       ReadOwner, PageCall, ReadPage, ReadTarget, ReadBearer, Abort, Refuse, Goto, Answer
  <2> QED
    BY <2>1, <2>2, <2>3, QuietKeepsLog
<1>2. ASSUME NEW t \in Tasks, WriteUser(t) \/ InsertUser(t) \/ InsertProject(t) \/ Record(t)
      PROVE  LogInv'
  BY <1>2, WriteKeepsLog, InsertUserKeepsLog, InsertProjectKeepsLog, RecordKeepsLog
<1>3. CASE Tick \/ UNCHANGED vars
  BY <1>3, IdleKeepsLog DEF Tick, vars, tables
<1> QED
  BY <1>1, <1>2, <1>3 DEF Next, Step, Finished

(* The log tells of every creation at most once and after it happened, and *)
(* of changes of users that exist, however many requests are lost between  *)
(* their change and its entry.                                             *)
THEOREM LogTruthful == Spec => []LogIsTruthful
<1>1. Init => IInv /\ LogInv
  <2>1. Init => LogInv
    BY DEF Init, LogInv, Creating
  <2> QED
    BY <2>1, InitSound
<1>2. (IInv /\ LogInv) /\ [Next]_vars => (IInv /\ LogInv)'
  BY NextSound, LogStep
<1>3. LogInv => LogIsTruthful
  <2> SUFFICES ASSUME LogInv PROVE LogIsTruthful
    OBVIOUS
  <2>1. ASSUME NEW k \in DOMAIN audit, Creation(audit[k])
        PROVE  \A t \in Tasks : Creating(t) =>
                 <<EventOf(t).resource, EventOf(t).id>> # <<audit[k].resource, audit[k].id>>
    BY <2>1 DEF LogInv, SameThing
  <2>2. \A k, l \in DOMAIN audit :
          Creation(audit[k]) /\ Creation(audit[l]) /\ audit[l].resource = audit[k].resource
            /\ audit[l].id = audit[k].id => k = l
    BY DEF LogInv, SameThing
  <2>3. \A t, u \in Tasks :
          Creating(t) /\ Creating(u) /\ EventOf(t).resource = EventOf(u).resource
            /\ EventOf(t).id = EventOf(u).id => t = u
    BY DEF LogInv, SameThing
  <2>4. \A k \in DOMAIN audit : Known(audit[k])
    BY DEF LogInv
  <2> QED
    BY <2>1, <2>2, <2>3, <2>4 DEF LogIsTruthful, Known
<1> QED
  BY <1>1, <1>2, <1>3, PTL DEF Spec
=============================================================================
