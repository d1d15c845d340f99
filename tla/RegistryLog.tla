---------------------------- MODULE RegistryLog -----------------------------
(***************************************************************************)
(* Theorems about the audit log: what it says is true, a success answer    *)
(* means that it says so, without faults it is complete at rest, and the   *)
(* registry implements the ledger.                                         *)
(***************************************************************************)
EXTENDS RegistryProofs

(* The tasks that do not act keep their place and their locals.            *)
OthersStay(t) ==
  \A u \in Tasks \ {t} : pc'[u] = pc[u] /\ local'[u] = local[u]

(* Every action moves one task.                                            *)
LEMMA OneTaskActs ==
  ASSUME IInv, NEW t \in Tasks, Begin(t) \/ Step(t) \/ Abort(t)
  PROVE  OthersStay(t)
BY DEF OthersStay, IInv, TypeOK, Step, Begin, LoadCurrent, ResolveGroup, TakeGroup,
     CheckSimilar, Hydrate, InsertContract, UpdateContract, DeleteContract,
     StoreEmbedding, DeleteEmbedding, RecordContract, RecordGroup, Abort, Goto, Answer

(* The parts of the inductive invariant: whose entries are still to come.  *)
CommittedIds == \A t \in Tasks : Committed(t) => local[t].id \in 1..issued

Deleting(t) == pc[t] \in {"unembed", "record"} /\ local[t].req.op = "delete"

DeletedIsGone == \A t \in Tasks : Deleting(t) => local[t].id \notin DOMAIN contracts

Pending(t) == pc[t] \in {"embed", "unembed", "record"} /\ local[t].req.op \in {"create", "delete"}

PendingNotLogged == \A t \in Tasks : Pending(t) => ~Logged(ContractEvent(t))

PendingApart ==
  \A t, u \in Tasks :
    Pending(t) /\ Pending(u) /\ ContractEvent(t) = ContractEvent(u) => t = u

LogInv == /\ AuditTellsTheTruth
          /\ CommittedIds
          /\ DeletedIsGone
          /\ PendingNotLogged
          /\ PendingApart

(* A task that has committed a change before and after the step.           *)
Kept(u) == /\ Committed(u)
           /\ local'[u].id = local[u].id /\ local'[u].req = local[u].req
           /\ Pending(u)' => Pending(u)
           /\ Deleting(u)' => Deleting(u)

Updating(u) == local'[u].id \in 1..issued /\ local'[u].req.op = "update"

(* A step that neither adds nor removes rows nor writes the log, and after *)
(* which no task owes more than before, except for an update.              *)
LEMMA QuietLog ==
  ASSUME LogInv, DOMAIN contracts' = DOMAIN contracts, issued' = issued, audit' = audit,
         \A u \in Tasks : ~Committed(u)' \/ Kept(u) \/ Updating(u)
  PROVE  LogInv'
<1>1. AuditTellsTheTruth'
  BY DEF LogInv, AuditTellsTheTruth, Logged, LoggedOnce
<1>2. CommittedIds'
  BY DEF LogInv, CommittedIds, Kept, Updating
<1>3. \A u \in Tasks : Deleting(u)' => Deleting(u) /\ local'[u].id = local[u].id
  BY DEF Deleting, Kept, Updating, Committed
<1>4. DeletedIsGone'
  BY <1>3 DEF LogInv, DeletedIsGone
<1>5. \A u \in Tasks : Pending(u)' => Pending(u) /\ ContractEvent(u)' = ContractEvent(u)
  BY DEF Pending, Kept, Updating, Committed, ContractEvent
<1>6. PendingNotLogged'
  BY <1>5 DEF LogInv, PendingNotLogged, Logged
<1>7. PendingApart'
  BY <1>5 DEF LogInv, PendingApart
<1> QED
  BY <1>1, <1>2, <1>4, <1>6, <1>7 DEF LogInv

(* The other tasks of a step keep what they owe.                           *)
LEMMA OthersKeep ==
  ASSUME NEW t \in Tasks, OthersStay(t), NEW u \in Tasks, u # t
  PROVE  ~Committed(u)' \/ Kept(u)
BY DEF OthersStay, Kept, Committed, Pending, Deleting

(* The calls that neither add nor remove a row nor write the log.          *)
LEMMA QuietCalls ==
  ASSUME IInv, LogInv, NEW t \in Tasks,
         \/ Begin(t) \/ LoadCurrent(t) \/ ResolveGroup(t) \/ CheckSimilar(t)
         \/ Hydrate(t) \/ StoreEmbedding(t) \/ DeleteEmbedding(t) \/ Abort(t)
  PROVE  LogInv'
<1>1. OthersStay(t)
  BY OneTaskActs DEF Step
<1>2. /\ contracts' = contracts /\ issued' = issued /\ audit' = audit
  BY DEF Begin, LoadCurrent, ResolveGroup, CheckSimilar, Hydrate, StoreEmbedding,
     DeleteEmbedding, Abort, tables
<1>3. ~Committed(t)' \/ Kept(t)
  <2>1. pc \in [Tasks -> Calls \cup {"idle"}] /\ ControlOf(t)
    BY DEF IInv, TypeOK, Control
  <2>2. CASE Begin(t)
    <3>1. PICK r \in Requests : Validates(r) /\ pc'[t] = FirstCall(r)
      BY <2>1, <2>2 DEF Begin
    <3>2. r.op \in {"create", "update", "delete", "create_group"}
      BY <3>1, RequestFacts
    <3> QED
      BY <3>1, <3>2 DEF FirstCall, Committed
  <2>3. CASE LoadCurrent(t) \/ ResolveGroup(t) \/ CheckSimilar(t) \/ Hydrate(t) \/ Abort(t)
    BY <2>1, <2>3 DEF LoadCurrent, ResolveGroup, TakeGroup, CheckSimilar, Hydrate, Abort,
       Goto, Answer, Committed
  <2>4. CASE StoreEmbedding(t) \/ DeleteEmbedding(t)
    BY <2>1, <2>4 DEF StoreEmbedding, DeleteEmbedding, Goto, Committed, Kept, Pending,
       Deleting, ControlOf
  <2> QED
    BY <2>2, <2>3, <2>4
<1>4. \A u \in Tasks : ~Committed(u)' \/ Kept(u)
  BY <1>1, <1>3, OthersKeep
<1> QED
  BY <1>2, <1>4, QuietLog

(* An update owes an entry of its own kind, which may be logged many       *)
(* times.                                                                  *)
LEMMA UpdateLog ==
  ASSUME IInv, LogInv, NEW t \in Tasks, UpdateContract(t)
  PROVE  LogInv'
<1>1. OthersStay(t)
  BY OneTaskActs DEF Step
<1>2. DOMAIN contracts' = DOMAIN contracts /\ issued' = issued /\ audit' = audit
  BY DEF UpdateContract
<1>3. /\ pc \in [Tasks -> Calls \cup {"idle"}] /\ local \in [Tasks -> Local]
      /\ local[t].req.op = "update"
  BY DEF IInv, TypeOK, Control, ControlOf, UpdateContract
<1>4. ~Committed(t)' \/ Updating(t)
  <2>1. CASE \E o : Answer(t, o)
    BY <1>3, <2>1 DEF Answer, Committed
  <2>2. CASE Present(local[t].req.project, local[t].id)
             /\ local' = [local EXCEPT ![t].vector = VectorOf(Merged(t))]
    <3>1. local[t].id \in 1..issued
      BY <2>2 DEF Present, IInv, TypeOK
    <3>2. local'[t].id = local[t].id /\ local'[t].req = local[t].req
      BY <1>3, <2>2 DEF Local
    <3> QED
      BY <1>2, <1>3, <3>1, <3>2 DEF Updating
  <2> QED
    BY <2>1, <2>2 DEF UpdateContract
<1> QED
  BY <1>1, <1>2, <1>4, OthersKeep, QuietLog

(* A create owes an entry with an identifier that no entry or task had     *)
(* before.                                                                 *)
LEMMA InsertLog ==
  ASSUME IInv, LogInv, NEW t \in Tasks, InsertContract(t)
  PROVE  LogInv'
<1> DEFINE new == issued + 1
<1>1. OthersStay(t)
  BY OneTaskActs DEF Step
<1>2. /\ pc \in [Tasks -> Calls \cup {"idle"}] /\ local \in [Tasks -> Local]
      /\ local[t].req.op = "create" /\ issued \in Nat
      /\ DOMAIN contracts \subseteq 1..issued
      /\ audit' = audit /\ pc[t] = "insert"
  BY DEF IInv, TypeOK, Control, ControlOf, InsertContract
<1>3. CASE Answer(t, "duplicate") /\ UNCHANGED <<contracts, issued>>
  <2>1. ~Committed(t)'
    BY <1>2, <1>3 DEF Answer, Committed
  <2> QED
    BY <1>1, <1>2, <1>3, <2>1, OthersKeep, QuietLog
<1>4. CASE /\ DOMAIN contracts' = DOMAIN contracts \cup {new}
           /\ issued' = new
           /\ local' = [local EXCEPT ![t].id = new]
           /\ Goto(t, "embed")
  <2>1. /\ pc'[t] = "embed" /\ local'[t].id = new /\ local'[t].req = local[t].req
        /\ new \in Nat /\ new \notin 1..issued /\ 1..new = 1..issued \cup {new}
    <3>1. pc'[t] = "embed" /\ local'[t].id = new /\ local'[t].req = local[t].req
      BY <1>2, <1>4 DEF Goto, Local
    <3>2. new \in Nat /\ new \notin 1..issued /\ 1..new = 1..issued \cup {new}
      BY <1>2
    <3> QED
      BY <3>1, <3>2
  <2>2. \A u \in Tasks : Committed(u) => local[u].id # new
    BY <2>1 DEF LogInv, CommittedIds
  <2>3. \A n \in DOMAIN audit : audit[n].resource = "contract" => audit[n].id # new
    BY <2>1 DEF LogInv, AuditTellsTheTruth
  <2>4. AuditTellsTheTruth'
    <3>1. \A a \in {"create", "delete"} : ~Logged(ContractLog(a, new))
      BY <2>3 DEF Logged, ContractLog
    <3>2. \A n \in DOMAIN audit' :
            audit'[n].resource = "contract" => audit'[n].id \in 1..issued'
      BY <1>2, <1>4, <2>1 DEF LogInv, AuditTellsTheTruth
    <3>3. \A i \in 1..issued' : Logged(ContractLog("delete", i)) => i \notin DOMAIN contracts'
      BY <1>4, <2>1, <3>1 DEF LogInv, AuditTellsTheTruth
    <3>4. \A i \in 1..issued' : LoggedOnce(ContractLog("create", i))
                                /\ LoggedOnce(ContractLog("delete", i))
      BY <1>4, <2>1, <3>1 DEF LogInv, AuditTellsTheTruth, LoggedOnce, Logged
    <3> QED
      BY <1>2, <3>2, <3>3, <3>4 DEF AuditTellsTheTruth, Logged, LoggedOnce
  <2>5. CommittedIds'
    BY <1>1, <1>4, <2>1 DEF LogInv, CommittedIds, Committed, OthersStay
  <2>6. DeletedIsGone'
    BY <1>1, <1>2, <1>4, <2>1, <2>2 DEF LogInv, DeletedIsGone, Deleting, Committed, OthersStay
  <2>7. \A u \in Tasks \ {t} : Pending(u)' =>
          /\ Pending(u) /\ Committed(u) /\ local'[u].id = local[u].id
          /\ ContractEvent(u)' = ContractEvent(u)
    BY <1>1 DEF OthersStay, Pending, Committed, ContractEvent
  <2>8. ContractEvent(t)' = ContractLog("create", new)
    BY <1>2, <2>1 DEF ContractEvent, ContractLog
  <2>9. PendingNotLogged'
    BY <1>2, <2>3, <2>7, <2>8 DEF LogInv, PendingNotLogged, Logged, ContractLog
  <2>10. \A u \in Tasks \ {t} : Pending(u)' => ContractEvent(u)'.id # new
    BY <2>2, <2>7 DEF ContractEvent
  <2>11. PendingApart'
    BY <2>7, <2>8, <2>10 DEF LogInv, PendingApart, ContractLog
  <2> QED
    BY <2>4, <2>5, <2>6, <2>9, <2>11 DEF LogInv
<1> QED
  BY <1>3, <1>4 DEF InsertContract, FreshId, Put

(* A delete owes the entry of a row that was there, so nobody else does.   *)
LEMMA DeleteLog ==
  ASSUME IInv, LogInv, NEW t \in Tasks, DeleteContract(t)
  PROVE  LogInv'
<1> DEFINE i == local[t].id
<1>1. OthersStay(t)
  BY OneTaskActs DEF Step
<1>2. /\ pc \in [Tasks -> Calls \cup {"idle"}] /\ local \in [Tasks -> Local]
      /\ local[t].req.op = "delete" /\ DOMAIN contracts \subseteq 1..issued
      /\ audit' = audit /\ issued' = issued /\ pc[t] = "delete"
  BY DEF IInv, TypeOK, Control, ControlOf, DeleteContract
<1>3. CASE Answer(t, "not_found") /\ UNCHANGED contracts
  <2>1. ~Committed(t)'
    BY <1>2, <1>3 DEF Answer, Committed
  <2> QED
    BY <1>1, <1>2, <1>3, <2>1, OthersKeep, QuietLog
<1>4. CASE /\ i \in DOMAIN contracts /\ DOMAIN contracts' = DOMAIN contracts \ {i}
           /\ Goto(t, "unembed") /\ UNCHANGED local
  <2>1. pc'[t] = "unembed" /\ local' = local /\ i \in 1..issued
    BY <1>2, <1>4 DEF Goto
  <2>2. AuditTellsTheTruth'
    BY <1>2, <1>4 DEF LogInv, AuditTellsTheTruth, Logged, LoggedOnce
  <2>3. CommittedIds'
    BY <1>1, <1>2, <2>1 DEF LogInv, CommittedIds, Committed, OthersStay
  <2>4. DeletedIsGone'
    BY <1>1, <1>4, <2>1 DEF LogInv, DeletedIsGone, Deleting, OthersStay
  <2>5. \A u \in Tasks : ContractEvent(u)' = ContractEvent(u)
    BY <2>1 DEF ContractEvent
  <2>6. \A u \in Tasks \ {t} : Pending(u)' => Pending(u)
    BY <1>1 DEF Pending, OthersStay
  <2>7. ContractEvent(t) = ContractLog("delete", i) /\ ~Logged(ContractEvent(t))
    BY <1>2, <1>4, <2>1 DEF ContractEvent, ContractLog, LogInv, AuditTellsTheTruth
  <2>8. PendingNotLogged'
    BY <1>2, <2>5, <2>6, <2>7 DEF LogInv, PendingNotLogged, Logged
  <2>9. \A u \in Tasks \ {t} : Pending(u) => ContractEvent(u) # ContractEvent(t)
    <3> SUFFICES ASSUME NEW u \in Tasks \ {t}, Pending(u), ContractEvent(u) = ContractEvent(t)
                 PROVE  FALSE
      OBVIOUS
    <3>1. local[u].req.op = "delete" /\ local[u].id = i
      BY <2>7 DEF ContractEvent, ContractLog
    <3>2. ControlOf(u)
      BY DEF IInv, Control
    <3>3. Deleting(u)
      BY <3>1, <3>2 DEF Pending, Deleting, ControlOf
    <3> QED
      BY <1>4, <3>1, <3>3 DEF LogInv, DeletedIsGone
  <2>10. PendingApart'
    BY <2>5, <2>6, <2>9 DEF LogInv, PendingApart
  <2> QED
    BY <2>2, <2>3, <2>4, <2>8, <2>10 DEF LogInv
<1>5. DOMAIN Restrict(contracts, DOMAIN contracts \ {i}) = DOMAIN contracts \ {i}
  BY DEF Restrict
<1> QED
  BY <1>3, <1>4, <1>5 DEF DeleteContract, Present

(* Appending e to the log.                                                 *)
LEMMA AppendLogs ==
  ASSUME IInv, NEW e \in Event, audit' = Append(audit, e)
  PROVE  /\ Len(audit) + 1 \in DOMAIN audit' /\ audit'[Len(audit) + 1] = e
         /\ DOMAIN audit' = DOMAIN audit \cup {Len(audit) + 1}
         /\ \A n \in DOMAIN audit : audit'[n] = audit[n] /\ n # Len(audit) + 1
         /\ Len(audit') = Len(audit) + 1
BY DEF IInv, TypeOK

(* The entry a task appends was not in the log and no other task will      *)
(* append it.                                                              *)
LEMMA RecordContractLog ==
  ASSUME IInv, LogInv, NEW t \in Tasks, RecordContract(t)
  PROVE  LogInv'
<1> DEFINE e == ContractEvent(t)
           i == local[t].id
<1>1. OthersStay(t)
  BY OneTaskActs DEF Step
<1>2. /\ pc \in [Tasks -> Calls \cup {"idle"}] /\ local \in [Tasks -> Local]
      /\ contracts' = contracts /\ issued' = issued /\ pc[t] = "record"
      /\ audit' = Append(audit, e) /\ e \in Event
  BY EventTypes DEF IInv, TypeOK, RecordContract
<1>3. /\ DOMAIN audit' = DOMAIN audit \cup {Len(audit) + 1}
      /\ audit'[Len(audit) + 1] = e
      /\ \A n \in DOMAIN audit : audit'[n] = audit[n] /\ n # Len(audit) + 1
  BY <1>2, AppendLogs
<1>4. /\ e.resource = "contract" /\ e.id = i /\ e.action = local[t].req.op
      /\ i \in 1..issued /\ Committed(t)
      /\ e = ContractLog("delete", i) => i \notin DOMAIN contracts
      /\ e.action \in {"create", "delete"} => ~Logged(e)
  <2>1. e.resource = "contract" /\ e.id = i /\ e.action = local[t].req.op /\ Committed(t)
    BY <1>2 DEF ContractEvent, Committed
  <2>2. i \in 1..issued
    BY <2>1 DEF LogInv, CommittedIds
  <2>3. ASSUME e = ContractLog("delete", i) PROVE i \notin DOMAIN contracts
    <3>1. Deleting(t)
      BY <1>2, <2>1, <2>3 DEF Deleting, ContractLog
    <3> QED
      BY <3>1 DEF LogInv, DeletedIsGone
  <2>4. ASSUME e.action \in {"create", "delete"} PROVE ~Logged(e)
    <3>1. Pending(t)
      BY <1>2, <2>1, <2>4 DEF Pending
    <3> QED
      BY <3>1 DEF LogInv, PendingNotLogged
  <2> QED
    BY <2>1, <2>2, <2>3, <2>4
<1> HIDE DEF e
<1>5. \A f : Logged(f)' <=> Logged(f) \/ f = e
  BY <1>3 DEF Logged
<1>6. \A f : LoggedOnce(f) /\ (f = e => ~Logged(e)) => LoggedOnce(f)'
  BY <1>3 DEF LoggedOnce, Logged
<1>7. AuditTellsTheTruth'
  <2>1. \A n \in DOMAIN audit' : audit'[n].resource = "contract" => audit'[n].id \in 1..issued'
    BY <1>2, <1>3, <1>4 DEF LogInv, AuditTellsTheTruth
  <2>2. \A j \in 1..issued' : Logged(ContractLog("delete", j))' => j \notin DOMAIN contracts'
    BY <1>2, <1>4, <1>5 DEF LogInv, AuditTellsTheTruth, ContractLog
  <2>3. ASSUME NEW j \in 1..issued', NEW a \in {"create", "delete"}
        PROVE  LoggedOnce(ContractLog(a, j))'
    <3>1. ContractLog(a, j) = e => ~Logged(e)
      BY <1>4, <2>3 DEF ContractLog
    <3>2. LoggedOnce(ContractLog(a, j))
      BY <1>2, <2>3 DEF LogInv, AuditTellsTheTruth
    <3> QED
      BY <1>6, <3>1, <3>2
  <2> QED
    BY <2>1, <2>2, <2>3 DEF AuditTellsTheTruth, Logged, LoggedOnce, ContractLog
<1>8. ~Committed(t)' \/ (local' = local /\ pc'[t] = "recordGroup")
  BY <1>2 DEF RecordContract, Goto, Answer, Committed
<1>9. CommittedIds'
  BY <1>1, <1>2, <1>8 DEF LogInv, CommittedIds, Committed, OthersStay
<1>10. \A u \in Tasks : /\ Deleting(u)' => u # t /\ Deleting(u)
                        /\ Pending(u)' => u # t /\ Pending(u) /\ ContractEvent(u)' = ContractEvent(u)
  BY <1>1, <1>8 DEF Deleting, Pending, Committed, OthersStay, ContractEvent
<1>11. DeletedIsGone'
  BY <1>1, <1>2, <1>10 DEF LogInv, DeletedIsGone, OthersStay
<1>12. \A u \in Tasks \ {t} : Pending(u) => ContractEvent(u) # e
  <2> SUFFICES ASSUME NEW u \in Tasks \ {t}, Pending(u), ContractEvent(u) = e PROVE FALSE
    OBVIOUS
  <2>1. Pending(t)
    BY <1>2, <1>4 DEF Pending, ContractEvent
  <2> QED
    BY <2>1 DEF LogInv, PendingApart, e
<1>13. PendingNotLogged'
  BY <1>5, <1>10, <1>12 DEF LogInv, PendingNotLogged, Logged
<1>14. PendingApart'
  BY <1>10 DEF LogInv, PendingApart
<1> QED
  BY <1>7, <1>9, <1>11, <1>13, <1>14 DEF LogInv

(* Entries of groups say nothing of contracts.                             *)
LEMMA RecordGroupLog ==
  ASSUME IInv, LogInv, NEW t \in Tasks, RecordGroup(t)
  PROVE  LogInv'
<1> DEFINE e == GroupEvent(t)
<1>1. OthersStay(t)
  BY OneTaskActs DEF Step
<1>2. /\ pc \in [Tasks -> Calls \cup {"idle"}] /\ e.resource = "group"
      /\ contracts' = contracts /\ issued' = issued /\ pc[t] = "recordGroup"
      /\ audit' = Append(audit, e) /\ e \in Event
  BY EventTypes DEF IInv, TypeOK, RecordGroup, GroupEvent
<1>3. /\ DOMAIN audit' = DOMAIN audit \cup {Len(audit) + 1}
      /\ audit'[Len(audit) + 1] = e
      /\ \A n \in DOMAIN audit : audit'[n] = audit[n] /\ n # Len(audit) + 1
  BY <1>2, AppendLogs
<1> HIDE DEF e
<1>4. \A f : f.resource = "contract" => (Logged(f)' <=> Logged(f))
                                        /\ (LoggedOnce(f) => LoggedOnce(f)')
  BY <1>2, <1>3 DEF Logged, LoggedOnce
<1>5. AuditTellsTheTruth'
  <2>1. \A n \in DOMAIN audit' : audit'[n].resource = "contract" => audit'[n].id \in 1..issued'
    BY <1>2, <1>3 DEF LogInv, AuditTellsTheTruth
  <2>2. \A a, j : ContractLog(a, j).resource = "contract"
    BY DEF ContractLog
  <2>3. \A j \in 1..issued' : Logged(ContractLog("delete", j))' => j \notin DOMAIN contracts'
    BY <1>2, <1>4, <2>2 DEF LogInv, AuditTellsTheTruth, ContractLog
  <2>4. \A j \in 1..issued' : LoggedOnce(ContractLog("create", j))'
                              /\ LoggedOnce(ContractLog("delete", j))'
    BY <1>2, <1>4, <2>2 DEF LogInv, AuditTellsTheTruth, ContractLog
  <2> QED
    BY <2>1, <2>3, <2>4 DEF AuditTellsTheTruth, Logged, LoggedOnce, ContractLog
<1>6. ~Committed(t)'
  BY <1>2 DEF RecordGroup, Answer, Committed
<1>7. CommittedIds'
  BY <1>1, <1>2, <1>6 DEF LogInv, CommittedIds, Committed, OthersStay
<1>8. \A u \in Tasks : /\ Deleting(u)' => u # t /\ Deleting(u)
                       /\ Pending(u)' => u # t /\ Pending(u) /\ ContractEvent(u)' = ContractEvent(u)
  BY <1>1, <1>6 DEF Deleting, Pending, Committed, OthersStay, ContractEvent
<1>9. DeletedIsGone'
  BY <1>1, <1>2, <1>8 DEF LogInv, DeletedIsGone, OthersStay
<1>10. PendingNotLogged'
  BY <1>4, <1>8 DEF LogInv, PendingNotLogged, ContractEvent
<1>11. PendingApart'
  BY <1>8 DEF LogInv, PendingApart
<1> QED
  BY <1>5, <1>7, <1>9, <1>10, <1>11 DEF LogInv

(* All steps together.                                                     *)
LEMMA LogStep ==
  ASSUME IInv, LogInv, [Next]_vars
  PROVE  LogInv'
<1>1. ASSUME NEW t \in Tasks, Begin(t) \/ Step(t) \/ Abort(t)
      PROVE  LogInv'
  BY <1>1, QuietCalls, UpdateLog, InsertLog, DeleteLog, RecordContractLog, RecordGroupLog
     DEF Step
<1>2. CASE UNCHANGED vars
  BY <1>2 DEF vars, LogInv, AuditTellsTheTruth, Logged, LoggedOnce, CommittedIds, Committed,
     DeletedIsGone, Deleting, PendingNotLogged, Pending, PendingApart, ContractEvent
<1> QED
  BY <1>1, <1>2 DEF Next, NoMoreRequests

(* An empty log lies about nothing.                                        *)
LEMMA LogInit == Init => LogInv
BY DEF Init, LogInv, AuditTellsTheTruth, Logged, LoggedOnce, CommittedIds, Committed,
       DeletedIsGone, Deleting, PendingNotLogged, Pending, PendingApart

(* However requests interleave and wherever tasks are lost, the log names  *)
(* only contracts that existed, what it says is deleted is gone, and no    *)
(* creation or deletion is logged twice.                                   *)
THEOREM LogTellsTheTruth == Spec => []AuditTellsTheTruth
<1>1. Init => IInv /\ LogInv
  BY InitInv, LogInit
<1>2. (IInv /\ LogInv) /\ [Next]_vars => (IInv /\ LogInv)'
  BY NextInv, LogStep
<1>3. LogInv => AuditTellsTheTruth
  BY DEF LogInv
<1> QED
  BY <1>1, <1>2, <1>3, PTL DEF Spec

----------------------------------------------------------------------------
(* A task that still has its group to record has recorded its contract.    *)
ContractFirst == \A t \in Tasks : pc[t] = "recordGroup" => Logged(ContractEvent(t))

(* The log only grows.                                                     *)
LEMMA LogGrows ==
  ASSUME IInv, [Next]_vars
  PROVE  \A e : Logged(e) => Logged(e)'
<1>1. CASE audit' = audit
  BY <1>1 DEF Logged
<1>2. ASSUME NEW t \in Tasks, RecordContract(t) PROVE \A e : Logged(e) => Logged(e)'
  BY <1>2, AppendLogs, EventTypes DEF RecordContract, Logged
<1>3. ASSUME NEW t \in Tasks, RecordGroup(t) PROVE \A e : Logged(e) => Logged(e)'
  BY <1>3, AppendLogs, EventTypes DEF RecordGroup, Logged
<1>4. audit' # audit => \E t \in Tasks : RecordContract(t) \/ RecordGroup(t)
  BY DEF Next, Step, vars, tables, Begin, LoadCurrent, ResolveGroup, CheckSimilar, Hydrate,
     InsertContract, UpdateContract, DeleteContract, StoreEmbedding, DeleteEmbedding,
     Abort, NoMoreRequests
<1> QED
  BY <1>1, <1>2, <1>3, <1>4

(* Only RecordContract leads to recordGroup.                               *)
LEMMA ContractFirstStep ==
  ASSUME IInv, ContractFirst, [Next]_vars
  PROVE  ContractFirst'
<1>1. \A f : Logged(f) => Logged(f)'
  BY LogGrows
<1>2. ASSUME NEW t \in Tasks, Begin(t) \/ Step(t) \/ Abort(t)
      PROVE  ContractFirst'
  <2>1. OthersStay(t)
    BY <1>2, OneTaskActs
  <2>2. pc'[t] = "recordGroup" => Logged(ContractEvent(t))'
    <3>1. pc \in [Tasks -> Calls \cup {"idle"}]
      BY DEF IInv, TypeOK
    <3>2. CASE RecordContract(t)
      <4>1. Logged(ContractEvent(t))' \/ local' # local
        BY <3>2, AppendLogs, EventTypes DEF RecordContract, Logged, ContractEvent
      <4> QED
        BY <3>1, <3>2, <4>1 DEF RecordContract, Answer
    <3>3. CASE Begin(t)
      <4>1. PICK r \in Requests : Validates(r) /\ pc'[t] = FirstCall(r)
        BY <3>1, <3>3 DEF Begin
      <4>2. r.op \in {"create", "update", "delete", "create_group"}
        BY <4>1, RequestFacts
      <4> QED
        BY <4>1, <4>2 DEF FirstCall
    <3>4. CASE LoadCurrent(t) \/ ResolveGroup(t) \/ CheckSimilar(t) \/ Hydrate(t)
               \/ InsertContract(t) \/ UpdateContract(t) \/ DeleteContract(t)
               \/ StoreEmbedding(t) \/ DeleteEmbedding(t) \/ RecordGroup(t) \/ Abort(t)
      BY <3>1, <3>4 DEF LoadCurrent, ResolveGroup, TakeGroup, CheckSimilar, Hydrate,
         InsertContract, UpdateContract, DeleteContract, StoreEmbedding, DeleteEmbedding,
         RecordGroup, Abort, Goto, Answer
    <3> QED
      BY <1>2, <3>2, <3>3, <3>4 DEF Step
  <2> QED
    BY <1>1, <2>1, <2>2 DEF ContractFirst, OthersStay, ContractEvent
<1>3. CASE UNCHANGED vars
  BY <1>3 DEF vars, ContractFirst, Logged, ContractEvent
<1> QED
  BY <1>2, <1>3 DEF Next, NoMoreRequests

(* Only the two recording calls answer with success to a change.           *)
LEMMA WhoSucceeds ==
  ASSUME IInv, [Next]_vars, NEW t \in Tasks,
         Answers(t), reply'[t] \in {"created", "updated", "deleted"}
  PROVE  \/ RecordContract(t) /\ ~local[t].made
         \/ RecordGroup(t)
<1>1. /\ pc \in [Tasks -> Calls \cup {"idle"}] /\ reply \in [Tasks -> Replies]
      /\ pc'[t] # pc[t]
  BY DEF IInv, TypeOK, Answers
<1>2. PICK u \in Tasks : Begin(u) \/ Step(u) \/ Abort(u)
  BY <1>1 DEF Next, NoMoreRequests, vars
<1>3. u = t
  BY <1>1, <1>2, OneTaskActs DEF OthersStay
<1>4. RecordContract(t) \/ RecordGroup(t)
  BY <1>1, <1>2, <1>3 DEF Step, Begin, LoadCurrent, ResolveGroup, TakeGroup, CheckSimilar,
     Hydrate, InsertContract, UpdateContract, DeleteContract, StoreEmbedding,
     DeleteEmbedding, Abort, Goto, Answer, Answers
<1>5. RecordContract(t) => ~local[t].made
  BY <1>1 DEF RecordContract, Goto, Answers
<1> QED
  BY <1>4, <1>5

(* A client told that its change was made finds it in the log, and with it *)
(* the group that was made on the way.                                     *)
THEOREM SuccessIsRecorded == Spec => SuccessMeansRecorded
<1> DEFINE Told == \A t \in Tasks :
             Answers(t) /\ reply'[t] \in {"created", "updated", "deleted"} =>
               /\ \E n \in DOMAIN audit' : audit'[n] = ContractEvent(t)
               /\ local[t].made => \E n \in DOMAIN audit' : audit'[n] = GroupEvent(t)
<1>1. Init => IInv /\ ContractFirst
  BY InitInv DEF Init, ContractFirst
<1>2. (IInv /\ ContractFirst) /\ [Next]_vars => (IInv /\ ContractFirst)'
  BY NextInv, ContractFirstStep
<1>3. (IInv /\ ContractFirst) /\ [Next]_vars => Told
  <2> SUFFICES ASSUME IInv, ContractFirst, [Next]_vars, NEW t \in Tasks,
                      Answers(t), reply'[t] \in {"created", "updated", "deleted"}
               PROVE  /\ \E n \in DOMAIN audit' : audit'[n] = ContractEvent(t)
                      /\ local[t].made => \E n \in DOMAIN audit' : audit'[n] = GroupEvent(t)
    OBVIOUS
  <2>1. CASE RecordContract(t) /\ ~local[t].made
    BY <2>1, AppendLogs, EventTypes DEF RecordContract
  <2>2. CASE RecordGroup(t)
    <3>1. audit' = Append(audit, GroupEvent(t)) /\ GroupEvent(t) \in Event
      BY <2>2, EventTypes DEF RecordGroup
    <3>2. \E n \in DOMAIN audit : audit[n] = ContractEvent(t)
      BY <2>2 DEF RecordGroup, ContractFirst, Logged
    <3> QED
      BY <3>1, <3>2, AppendLogs
  <2> QED
    BY <2>1, <2>2, WhoSucceeds
<1>4. (IInv /\ ContractFirst) /\ [Next]_vars => [Told]_vars
  BY <1>3
<1> QED
  BY <1>1, <1>2, <1>4, PTL DEF Spec, SuccessMeansRecorded

----------------------------------------------------------------------------
(* The registry implements the ledger                                      *)

Owing(t) == pc[t] \in {"embed", "unembed", "record"}

(* What a step of one task does to the set of owed entries.                *)
LEMMA OwedSame ==
  ASSUME NEW t \in Tasks, OthersStay(t), Owing(t)' <=> Owing(t),
         Owing(t) => ContractEvent(t)' = ContractEvent(t)
  PROVE  Owed' = Owed
BY DEF Owed, OthersStay, Owing, ContractEvent

(* A task that commits owes one entry more.                                *)
LEMMA OwedGains ==
  ASSUME NEW t \in Tasks, OthersStay(t), ~Owing(t), Owing(t)'
  PROVE  ~L!Owes(t) /\ Owed' = Owed \cup {<<t, ContractEvent(t)'>>}
<1>1. ~L!Owes(t)
  BY DEF L!Owes, Owed, Owing
<1>2. Owed' = Owed \cup {<<t, ContractEvent(t)'>>}
  BY DEF Owed, OthersStay, Owing, ContractEvent
<1> QED
  BY <1>1, <1>2

(* A task that records, or is lost, owes nothing any more.                 *)
LEMMA OwedDrops ==
  ASSUME NEW t \in Tasks, OthersStay(t), Owing(t), ~Owing(t)'
  PROVE  /\ <<t, ContractEvent(t)>> \in Owed /\ L!Owes(t)
         /\ Owed' = Owed \ {<<t, ContractEvent(t)>>}
         /\ Owed' = {e \in Owed : e[1] # t}
<1>1. <<t, ContractEvent(t)>> \in Owed
  BY DEF Owed, Owing
<1>2. L!Owes(t)
  BY <1>1 DEF L!Owes
<1>3. Owed' = {e \in Owed : e[1] # t}
  BY DEF Owed, OthersStay, Owing, ContractEvent
<1>4. {e \in Owed : e[1] # t} = Owed \ {<<t, ContractEvent(t)>>}
  BY DEF Owed
<1> QED
  BY <1>1, <1>2, <1>3, <1>4

ledgerVars == <<contracts, 1..issued, audit, Owed>>

(* Calls before the commit, and after it those that write no log.          *)
LEMMA QuietRefines ==
  ASSUME IInv, NEW t \in Tasks,
         \/ Begin(t) \/ LoadCurrent(t) \/ ResolveGroup(t) \/ CheckSimilar(t)
         \/ Hydrate(t) \/ StoreEmbedding(t) \/ DeleteEmbedding(t)
  PROVE  UNCHANGED ledgerVars
<1>1. OthersStay(t)
  BY OneTaskActs DEF Step
<1>2. contracts' = contracts /\ issued' = issued /\ audit' = audit
  BY DEF Begin, LoadCurrent, ResolveGroup, CheckSimilar, Hydrate, StoreEmbedding,
     DeleteEmbedding, tables
<1>3. (Owing(t)' <=> Owing(t)) /\ (Owing(t) => ContractEvent(t)' = ContractEvent(t))
  <2>1. pc \in [Tasks -> Calls \cup {"idle"}]
    BY DEF IInv, TypeOK
  <2>2. CASE Begin(t)
    <3>1. PICK r \in Requests : Validates(r) /\ pc'[t] = FirstCall(r)
      BY <2>1, <2>2 DEF Begin
    <3>2. r.op \in {"create", "update", "delete", "create_group"}
      BY <3>1, RequestFacts
    <3> QED
      BY <2>2, <3>1, <3>2 DEF FirstCall, Owing, Begin
  <2>3. CASE LoadCurrent(t) \/ ResolveGroup(t) \/ CheckSimilar(t) \/ Hydrate(t)
    BY <2>1, <2>3 DEF LoadCurrent, ResolveGroup, TakeGroup, CheckSimilar, Hydrate,
       Goto, Answer, Owing
  <2>4. CASE StoreEmbedding(t) \/ DeleteEmbedding(t)
    BY <2>1, <2>4 DEF StoreEmbedding, DeleteEmbedding, Goto, Owing, ContractEvent
  <2> QED
    BY <2>2, <2>3, <2>4
<1> QED
  BY <1>1, <1>2, <1>3, OwedSame DEF ledgerVars

(* An insert is Create in the ledger, or a refusal that changes nothing    *)
(* there.                                                                  *)
LEMMA InsertRefines ==
  ASSUME IInv, NEW t \in Tasks, InsertContract(t)
  PROVE  UNCHANGED ledgerVars \/ \E i \in (1..issued)' : L!Create(t, i)
<1> DEFINE new == issued + 1
           row == [project |-> local[t].req.project, group |-> local[t].group,
                   key |-> local[t].req.key, text |-> local[t].req.text]
<1>1. OthersStay(t)
  BY OneTaskActs DEF Step
<1>2. /\ pc \in [Tasks -> Calls \cup {"idle"}] /\ local \in [Tasks -> Local]
      /\ pc[t] = "insert" /\ issued \in Nat /\ audit' = audit /\ ~Owing(t)
      /\ local[t].req.op = "create" /\ DOMAIN contracts \subseteq 1..issued
  BY DEF IInv, TypeOK, Control, ControlOf, InsertContract, Owing
<1>3. CASE Answer(t, "duplicate") /\ UNCHANGED <<contracts, issued>>
  <2>1. ~Owing(t)'
    BY <1>2, <1>3 DEF Answer, Owing
  <2> QED
    BY <1>1, <1>2, <1>3, <2>1, OwedSame DEF ledgerVars
<1>4. CASE /\ ~KeyTaken(local[t].req.project, local[t].req.key, NoId)
           /\ contracts' = Put(contracts, new, row) /\ issued' = new
           /\ local' = [local EXCEPT ![t].id = new] /\ Goto(t, "embed")
  <2>1. /\ new \in (1..issued)' /\ new \notin 1..issued
        /\ (1..issued)' = 1..issued \cup {new}
    BY <1>2, <1>4
  <2>2. /\ DOMAIN contracts' = DOMAIN contracts \cup {new} /\ contracts'[new] = row
        /\ \A j \in DOMAIN contracts \ {new} : contracts'[j] = contracts[j]
        /\ new \notin DOMAIN contracts /\ NoId \notin DOMAIN contracts
    <3>1. new \notin DOMAIN contracts /\ NoId \notin DOMAIN contracts
      BY <1>2, <2>1 DEF NoId
    <3> QED
      BY <1>4, <3>1 DEF Put
  <2>3. Owing(t)' /\ ContractEvent(t)' = L!Entry("create", new)
    <3>1. pc'[t] = "embed" /\ local'[t].id = new /\ local'[t].req = local[t].req
      BY <1>2, <1>4 DEF Goto, Local
    <3> QED
      BY <1>2, <3>1 DEF Owing, ContractEvent, L!Entry
  <2>4. L!Owe(t, "create", new)
    BY <1>1, <1>2, <2>3, OwedGains DEF L!Owe
  <2>5. L!SameElsewhere(contracts', new)
    BY <2>2 DEF L!SameElsewhere
  <2>6. L!KeyFree(contracts', new)
    BY <1>4, <2>2 DEF L!KeyFree, KeyTaken
  <2>7. L!Create(t, new)
    BY <1>2, <2>1, <2>2, <2>4, <2>5, <2>6 DEF L!Create
  <2> QED
    BY <2>1, <2>7
<1> QED
  BY <1>3, <1>4 DEF InsertContract, FreshId

(* The row an update replaces stays in its project, under a key no other   *)
(* row has.                                                                *)
LEMMA Replaced ==
  ASSUME NEW t \in Tasks, Present(local[t].req.project, local[t].id),
         ~KeyTaken(local[t].req.project, Merged(t).key, local[t].id),
         contracts' = [contracts EXCEPT ![local[t].id] = Merged(t)]
  PROVE  LET i == local[t].id IN
         /\ i \in DOMAIN contracts /\ DOMAIN contracts' = DOMAIN contracts
         /\ contracts'[i] = Merged(t) /\ contracts'[i].project = contracts[i].project
         /\ L!SameElsewhere(contracts', i) /\ L!KeyFree(contracts', i)
<1> DEFINE i == local[t].id
<1>1. /\ i \in DOMAIN contracts /\ contracts[i].project = local[t].req.project
      /\ Merged(t).project = contracts[i].project
  BY DEF Present, Merged, Patched
<1>2. /\ DOMAIN contracts' = DOMAIN contracts /\ contracts'[i] = Merged(t)
      /\ \A j \in DOMAIN contracts \ {i} : contracts'[j] = contracts[j]
  BY <1>1
<1>3. L!SameElsewhere(contracts', i)
  BY <1>2 DEF L!SameElsewhere
<1>4. L!KeyFree(contracts', i)
  BY <1>1, <1>2 DEF L!KeyFree, KeyTaken
<1> QED
  BY <1>1, <1>2, <1>3, <1>4

(* An update is Amend in the ledger, or AmendRefused when it is refused    *)
(* after its commit, or changes nothing there.                             *)
LEMMA UpdateRefines ==
  ASSUME IInv, NEW t \in Tasks, UpdateContract(t)
  PROVE  \/ UNCHANGED ledgerVars
         \/ \E i \in DOMAIN contracts : L!Amend(t, i) \/ L!AmendRefused(i)
<1> DEFINE i == local[t].id
           row == Merged(t)
           c == IF AffectsEmbedding(local[t].req) THEN "embed" ELSE "record"
<1>1. OthersStay(t)
  BY OneTaskActs DEF Step
<1>2. /\ pc \in [Tasks -> Calls \cup {"idle"}] /\ local \in [Tasks -> Local]
      /\ pc[t] = "write" /\ issued' = issued /\ audit' = audit /\ ~Owing(t)
      /\ local[t].req.op = "update"
  BY DEF IInv, TypeOK, Control, ControlOf, UpdateContract, Owing
<1>3. CASE (\E o : Answer(t, o)) /\ UNCHANGED contracts
  <2>1. ~Owing(t)'
    BY <1>2, <1>3 DEF Answer, Owing
  <2> QED
    BY <1>1, <1>2, <1>3, <2>1, OwedSame DEF ledgerVars
<1>4. CASE /\ Present(local[t].req.project, i)
           /\ ~KeyTaken(local[t].req.project, row.key, i)
           /\ contracts' = [contracts EXCEPT ![i] = row]
           /\ local' = [local EXCEPT ![t].vector = VectorOf(row)] /\ Goto(t, c)
  <2>1. /\ i \in DOMAIN contracts /\ contracts[i].project = local[t].req.project
        /\ row.project = contracts[i].project
    BY <1>4 DEF Present, Merged, Patched
  <2>2. Owing(t)' /\ ContractEvent(t)' = L!Entry("update", i)
    <3>1. pc'[t] = c /\ local'[t].id = i /\ local'[t].req = local[t].req
      BY <1>2, <1>4 DEF Goto, Local
    <3> QED
      BY <1>2, <3>1 DEF Owing, ContractEvent, L!Entry
  <2>3. /\ DOMAIN contracts' = DOMAIN contracts /\ contracts'[i].project = contracts[i].project
        /\ L!SameElsewhere(contracts', i) /\ L!KeyFree(contracts', i)
    BY <1>4, Replaced
  <2>4. L!Owe(t, "update", i)
    BY <1>1, <1>2, <2>2, OwedGains DEF L!Owe
  <2> QED
    BY <1>2, <2>1, <2>3, <2>4 DEF L!Amend
<1>5. CASE /\ Present(local[t].req.project, i)
           /\ ~KeyTaken(local[t].req.project, row.key, i)
           /\ contracts' = [contracts EXCEPT ![i] = row]
           /\ row.text \in RejectedTexts /\ Answer(t, "validation")
  <2>1. /\ i \in DOMAIN contracts /\ contracts'[i].text \in RejectedTexts
        /\ DOMAIN contracts' = DOMAIN contracts /\ contracts'[i].project = contracts[i].project
        /\ L!SameElsewhere(contracts', i) /\ L!KeyFree(contracts', i)
    BY <1>5, Replaced
  <2>2. ~Owing(t)'
    BY <1>2, <1>5 DEF Answer, Owing
  <2>3. Owed' = Owed
    BY <1>1, <1>2, <2>2, OwedSame
  <2> QED
    BY <1>2, <2>1, <2>3 DEF L!AmendRefused
<1> QED
  BY <1>3, <1>4, <1>5 DEF UpdateContract

(* A delete is Remove in the ledger, or finds nothing.                     *)
LEMMA DeleteRefines ==
  ASSUME IInv, NEW t \in Tasks, DeleteContract(t)
  PROVE  UNCHANGED ledgerVars \/ \E i \in DOMAIN contracts : L!Remove(t, i)
<1> DEFINE i == local[t].id
<1>1. OthersStay(t)
  BY OneTaskActs DEF Step
<1>2. /\ pc \in [Tasks -> Calls \cup {"idle"}] /\ local \in [Tasks -> Local]
      /\ pc[t] = "delete" /\ issued' = issued /\ audit' = audit /\ ~Owing(t)
      /\ local[t].req.op = "delete"
  BY DEF IInv, TypeOK, Control, ControlOf, DeleteContract, Owing
<1>3. CASE Answer(t, "not_found") /\ UNCHANGED contracts
  <2>1. ~Owing(t)'
    BY <1>2, <1>3 DEF Answer, Owing
  <2> QED
    BY <1>1, <1>2, <1>3, <2>1, OwedSame DEF ledgerVars
<1>4. CASE /\ i \in DOMAIN contracts
           /\ contracts' = Restrict(contracts, DOMAIN contracts \ {i})
           /\ Goto(t, "unembed") /\ UNCHANGED local
  <2>1. contracts' = [j \in DOMAIN contracts \ {i} |-> contracts[j]]
    BY <1>4 DEF Restrict
  <2>2. Owing(t)' /\ ContractEvent(t)' = L!Entry("delete", i)
    BY <1>2, <1>4 DEF Owing, Goto, ContractEvent, L!Entry
  <2>3. L!Owe(t, "delete", i)
    BY <1>1, <1>2, <2>2, OwedGains DEF L!Owe
  <2>4. L!Remove(t, i)
    BY <1>2, <1>4, <2>1, <2>3 DEF L!Remove
  <2> QED
    BY <1>4, <2>4
<1> QED
  BY <1>3, <1>4 DEF DeleteContract, Present

(* Appending what a task owes is Record.                                   *)
LEMMA RecordRefines ==
  ASSUME IInv, NEW t \in Tasks, RecordContract(t)
  PROVE  L!Record(t)
<1>1. OthersStay(t)
  BY OneTaskActs DEF Step
<1>2. /\ pc \in [Tasks -> Calls \cup {"idle"}] /\ Owing(t)
      /\ audit' = Append(audit, ContractEvent(t))
      /\ contracts' = contracts /\ issued' = issued
  BY DEF IInv, TypeOK, RecordContract, Owing
<1>3. ~Owing(t)'
  BY <1>2 DEF RecordContract, Goto, Answer, Owing
<1>4. <<t, ContractEvent(t)>> \in Owed /\ Owed' = Owed \ {<<t, ContractEvent(t)>>}
  BY <1>1, <1>2, <1>3, OwedDrops
<1> QED
  BY <1>2, <1>4 DEF L!Record

(* Appending the entry of a group is RecordOther.                          *)
LEMMA RecordGroupRefines ==
  ASSUME IInv, NEW t \in Tasks, RecordGroup(t)
  PROVE  L!RecordOther
<1>1. OthersStay(t)
  BY OneTaskActs DEF Step
<1>2. /\ pc \in [Tasks -> Calls \cup {"idle"}] /\ ~Owing(t)
      /\ audit' = Append(audit, GroupEvent(t)) /\ GroupEvent(t) \in Event
      /\ contracts' = contracts /\ issued' = issued
  BY EventTypes DEF IInv, TypeOK, RecordGroup, Owing
<1>3. ~Owing(t)'
  BY <1>2 DEF RecordGroup, Answer, Owing
<1>4. Owed' = Owed
  BY <1>1, <1>2, <1>3, OwedSame
<1>5. GroupEvent(t).resource # "contract"
  BY DEF GroupEvent
<1> QED
  BY <1>2, <1>4, <1>5, AppendLogs DEF L!RecordOther

(* A task lost after its commit is Forget; before it, nothing.             *)
LEMMA AbortRefines ==
  ASSUME IInv, NEW t \in Tasks, Abort(t)
  PROVE  UNCHANGED ledgerVars \/ L!Forget(t)
<1>1. OthersStay(t)
  BY OneTaskActs
<1>2. ~Owing(t)' /\ contracts' = contracts /\ issued' = issued /\ audit' = audit
  BY DEF IInv, TypeOK, Abort, Answer, Owing, tables
<1>3. CASE Owing(t)
  BY <1>1, <1>2, <1>3, OwedDrops DEF L!Forget
<1>4. CASE ~Owing(t)
  BY <1>1, <1>2, <1>4, OwedSame DEF ledgerVars
<1> QED
  BY <1>3, <1>4

(* Every behaviour of the registry, with tasks lost anywhere, is one of    *)
(* the ledger: rows come, change and go in single steps under keys of      *)
(* their own, and each change is logged once by the task that made it, or  *)
(* lost with that task, or is one its client is told was refused.          *)
THEOREM Refinement == Spec => ImplementsLedger
<1>1. Init => L!LedgerInit
  BY DEF Init, L!LedgerInit, Owed
<1>2. IInv /\ [Next]_vars => [L!LedgerNext]_ledgerVars
  <2> SUFFICES ASSUME IInv, [Next]_vars PROVE L!LedgerNext \/ UNCHANGED ledgerVars
    OBVIOUS
  <2>1. ASSUME NEW t \in Tasks, Begin(t) \/ Step(t) \/ Abort(t)
        PROVE  L!LedgerNext \/ UNCHANGED ledgerVars
    BY <2>1, QuietRefines, InsertRefines, UpdateRefines, DeleteRefines, RecordRefines,
       RecordGroupRefines, AbortRefines DEF Step, L!LedgerNext
  <2>2. CASE UNCHANGED vars
    BY <2>2 DEF vars, ledgerVars, Owed, ContractEvent
  <2> QED
    BY <2>1, <2>2 DEF Next, NoMoreRequests
<1>3. [L!LedgerNext]_ledgerVars => [L!LedgerNext]_(L!ledger)
  BY DEF ledgerVars, L!ledger
<1> QED
  BY <1>1, <1>2, <1>3, InitInv, NextInv, PTL DEF Spec, ImplementsLedger, L!LedgerSpec

----------------------------------------------------------------------------
(* A task that has changed a row goes on to record it: when none is lost,  *)
(* every creation and deletion is in the log or on its way there.          *)
OnItsWay(e) == \E t \in Tasks : Owing(t) /\ ContractEvent(t) = e

Entered(e) == Logged(e) \/ OnItsWay(e)

AllEntered ==
  \A i \in 1..issued :
    /\ Entered(ContractLog("create", i))
    /\ i \notin DOMAIN contracts => Entered(ContractLog("delete", i))

(* A task on its way to record gets there, unless it is lost.              *)
LEMMA EntriesArrive ==
  ASSUME Faults = {}, IInv, [Next]_vars, NEW e, Entered(e)
  PROVE  Entered(e)'
<1>1. CASE Logged(e)
  BY <1>1, LogGrows DEF Entered
<1>2. ASSUME NEW u \in Tasks, Owing(u), ContractEvent(u) = e
      PROVE  Entered(e)'
  <2>0. pc \in [Tasks -> Calls \cup {"idle"}] /\ local \in [Tasks -> Local]
    BY DEF IInv, TypeOK
  <2>1. CASE pc'[u] = pc[u] /\ local'[u] = local[u]
    BY <1>2, <2>1 DEF Entered, OnItsWay, Owing, ContractEvent
  <2>2. CASE RecordContract(u)
    <3>1. audit' = Append(audit, e) /\ e \in Event
      BY <1>2, <2>2, EventTypes DEF RecordContract
    <3> QED
      BY <3>1, AppendLogs DEF Entered, Logged
  <2>3. CASE StoreEmbedding(u) \/ DeleteEmbedding(u)
    <3>1. pc'[u] = "record" /\ local' = local
      BY <2>0, <2>3 DEF StoreEmbedding, DeleteEmbedding, Goto
    <3> QED
      BY <1>2, <3>1 DEF Entered, OnItsWay, Owing, ContractEvent
  <2>4. ASSUME NEW t \in Tasks, t # u, Begin(t) \/ Step(t) \/ Abort(t)
        PROVE  pc'[u] = pc[u] /\ local'[u] = local[u]
    BY <2>4, OneTaskActs DEF OthersStay
  <2>5. Begin(u) \/ Step(u) \/ Abort(u) =>
          StoreEmbedding(u) \/ DeleteEmbedding(u) \/ RecordContract(u)
    BY <1>2 DEF Owing, Step, Begin, LoadCurrent, ResolveGroup, CheckSimilar, Hydrate,
       InsertContract, UpdateContract, DeleteContract, RecordGroup, Abort
  <2>6. CASE UNCHANGED vars
    BY <2>1, <2>6 DEF vars
  <2> QED
    BY <2>1, <2>2, <2>3, <2>4, <2>5, <2>6 DEF Next, NoMoreRequests
<1> QED
  BY <1>1, <1>2 DEF Entered, OnItsWay

LEMMA AllEnteredStep ==
  ASSUME Faults = {}, IInv, AllEntered, [Next]_vars
  PROVE  AllEntered'
<1>0. DOMAIN contracts \subseteq 1..issued /\ issued \in Nat
      /\ pc \in [Tasks -> Calls \cup {"idle"}] /\ local \in [Tasks -> Local]
  BY DEF IInv, TypeOK
<1>1. ASSUME NEW t \in Tasks, InsertContract(t), contracts' # contracts
      PROVE  AllEntered'
  <2>0. PICK new : new = issued + 1
    OBVIOUS
  <2>1. /\ issued' = new /\ contracts' = Put(contracts, new, contracts'[new])
        /\ local' = [local EXCEPT ![t].id = new] /\ pc' = [pc EXCEPT ![t] = "embed"]
    BY <1>1, <2>0, InsertEffect DEF Put, Goto
  <2>2. DOMAIN contracts' = DOMAIN contracts \cup {new}
    BY <2>1 DEF Put
  <2>3. local[t].req.op = "create"
    BY <1>1 DEF InsertContract, IInv, Control, ControlOf
  <2>4. pc'[t] = "embed" /\ local'[t].id = new /\ local'[t].req = local[t].req
    BY <1>0, <2>1 DEF Local
  <2>5. Entered(ContractLog("create", new))'
    BY <2>3, <2>4 DEF Entered, OnItsWay, Owing, ContractEvent, ContractLog
  <2>6. 1..issued' = 1..issued \cup {new} /\ new \in DOMAIN contracts'
    BY <1>0, <2>0, <2>1, <2>2
  <2>7. ASSUME NEW i \in 1..issued
        PROVE  /\ Entered(ContractLog("create", i))'
               /\ i \notin DOMAIN contracts' => Entered(ContractLog("delete", i))'
    BY <2>2, EntriesArrive DEF AllEntered
  <2> QED
    BY <2>5, <2>6, <2>7 DEF AllEntered
<1>2. ASSUME NEW t \in Tasks, DeleteContract(t), contracts' # contracts
      PROVE  AllEntered'
  <2>1. /\ issued' = issued /\ DOMAIN contracts' = DOMAIN contracts \ {local[t].id}
        /\ pc'[t] = "unembed" /\ local' = local
    BY <1>0, <1>2, DeleteEffect DEF DeleteContract, Goto
  <2>2. local[t].req.op = "delete"
    BY <1>2 DEF DeleteContract, IInv, Control, ControlOf
  <2>3. Entered(ContractLog("delete", local[t].id))'
    BY <2>1, <2>2 DEF Entered, OnItsWay, Owing, ContractEvent, ContractLog
  <2> QED
    BY <2>1, <2>3, EntriesArrive DEF AllEntered, ContractLog
<1>3. CASE DOMAIN contracts' = DOMAIN contracts /\ issued' = issued
  BY <1>3, EntriesArrive DEF AllEntered, ContractLog
<1>4. ASSUME NEW t \in Tasks, UpdateContract(t)
      PROVE  DOMAIN contracts' = DOMAIN contracts /\ issued' = issued
  BY <1>4 DEF UpdateContract
<1>5. issued' # issued => contracts' # contracts
  <2>1. issued' # issued => \E t \in Tasks : InsertContract(t)
    BY DEF Next, Step, vars, tables, Begin, LoadCurrent, ResolveGroup, CheckSimilar, Hydrate,
       UpdateContract, DeleteContract, StoreEmbedding, DeleteEmbedding, RecordContract,
       RecordGroup, Abort, NoMoreRequests
  <2>2. ASSUME NEW t \in Tasks, InsertContract(t), issued' # issued
        PROVE  issued + 1 \in DOMAIN contracts'
    BY <2>2 DEF InsertContract, FreshId, Put
  <2> QED
    BY <1>0, <2>1, <2>2
<1> QED
  BY <1>1, <1>2, <1>3, <1>4, <1>5, ContractWriters

(* When no task is lost, the log is complete whenever the system is at     *)
(* rest: every creation and every deletion is in it.                       *)
THEOREM LogIsComplete == Spec => []AtRestAllRecorded
<1>1. AllEntered => AtRestAllRecorded
  BY DEF AllEntered, Entered, OnItsWay, Owing, AtRestAllRecorded, AtRest
<1>2. CASE Faults = {}
  <2>1. Init => IInv /\ AllEntered
    BY InitInv DEF Init, AllEntered
  <2>2. (IInv /\ AllEntered) /\ [Next]_vars => (IInv /\ AllEntered)'
    BY <1>2, NextInv, AllEnteredStep
  <2> QED
    BY <1>1, <2>1, <2>2, PTL DEF Spec
<1>3. CASE Faults # {}
  <2>1. AtRestAllRecorded
    BY <1>3 DEF AtRestAllRecorded
  <2> QED
    BY <2>1, PTL
<1> QED
  BY <1>2, <1>3

----------------------------------------------------------------------------
(* Which calls refuse a request, and the one that does so after a change.  *)
LEMMA WhoRefuses ==
  ASSUME IInv, [Next]_vars, NEW t \in Tasks, Answers(t), reply'[t] \in Refusals
  PROVE  ~Committed(t) /\ (contracts' = contracts \/ RefusedLate(t))
<1>1. /\ pc \in [Tasks -> Calls \cup {"idle"}] /\ reply \in [Tasks -> Replies]
      /\ pc'[t] # pc[t] /\ pc'[t] = "idle" /\ ControlOf(t)
  BY DEF IInv, TypeOK, Answers, Control
<1>2. PICK u \in Tasks : Begin(u) \/ Step(u) \/ Abort(u)
  BY <1>1 DEF Next, NoMoreRequests, vars
<1>3. u = t
  BY <1>1, <1>2, OneTaskActs DEF OthersStay
<1>4. ~Begin(t)
  BY <1>1 DEF Begin, Answers
<1>5. ~(StoreEmbedding(t) \/ DeleteEmbedding(t))
  BY <1>1 DEF StoreEmbedding, DeleteEmbedding, Goto
<1>6. ~(RecordContract(t) \/ RecordGroup(t) \/ Abort(t))
  <2>1. SuccessOf(local[t].req.op) \in Successes \/ pc[t] \notin {"record", "recordGroup"}
    BY <1>1 DEF ControlOf, SuccessOf, Successes
  <2> QED
    BY <1>1, <2>1 DEF RecordContract, RecordGroup, Abort, Answer, Goto, Refusals, Successes
<1>7. CASE LoadCurrent(t) \/ ResolveGroup(t) \/ CheckSimilar(t) \/ Hydrate(t)
  BY <1>7 DEF LoadCurrent, ResolveGroup, CheckSimilar, Hydrate, tables, Committed
<1>8. CASE InsertContract(t)
  BY <1>1, <1>8 DEF InsertContract, Goto, Committed
<1>9. CASE DeleteContract(t)
  BY <1>1, <1>9 DEF DeleteContract, Goto, Committed
<1>10. CASE UpdateContract(t)
  <2>1. pc[t] = "write" /\ ~Committed(t)
    BY <1>10 DEF UpdateContract, Committed
  <2>2. CASE contracts' = contracts
    BY <2>1, <2>2
  <2>3. CASE /\ Present(local[t].req.project, local[t].id)
             /\ contracts' = [contracts EXCEPT ![local[t].id] = Merged(t)]
             /\ Merged(t).text \in RejectedTexts /\ Answer(t, "validation")
    <3>1. reply'[t] = "validation" /\ local[t].id \in DOMAIN contracts
      BY <1>1, <2>3 DEF Answer, Present
    <3>2. contracts'[local[t].id] = Merged(t)
      BY <2>3, <3>1
    <3> QED
      BY <2>1, <2>3, <3>1, <3>2 DEF RefusedLate
  <2> QED
    BY <1>1, <1>10, <2>2, <2>3 DEF UpdateContract, Goto
<1> QED
  BY <1>2, <1>3, <1>4, <1>5, <1>6, <1>7, <1>8, <1>9, <1>10 DEF Step

(* A client that is refused has not changed the contracts, in any of its   *)
(* calls, but by an update whose merged row fails validation after its     *)
(* commit; and that changes its own row only.                              *)
THEOREM RefusalsLeaveOneTrace == Spec => RefusalsChangeOnlyByLateValidation
<1> DEFINE Alone == \A t \in Tasks : Answers(t) /\ reply'[t] \in Refusals =>
                      /\ ~Committed(t)
                      /\ contracts' = contracts \/ RefusedLate(t)
<1>1. IInv /\ [Next]_vars => [Alone]_vars
  BY WhoRefuses
<1> QED
  BY <1>1, InitInv, NextInv, PTL DEF Spec, RefusalsChangeOnlyByLateValidation
=============================================================================
