------------------------- MODULE RegistryProperties -------------------------
(***************************************************************************)
(* What the contract registry guarantees to concurrent requests, and the   *)
(* abstract ledger it implements.                                          *)
(***************************************************************************)
EXTENDS Registry

(* The tables and every task's locals stay within their types.             *)
TypeOK ==
  /\ DOMAIN contracts \subseteq 1..issued
  /\ \A i \in DOMAIN contracts : contracts[i] \in Row
  /\ DOMAIN embeddings \subseteq Nat
  /\ \A i \in DOMAIN embeddings : embeddings[i] \in Vectors
  /\ groups \in Seq(Group)
  /\ audit \in Seq(Event)
  /\ issued \in Nat
  /\ pc \in [Tasks -> Calls \cup {"idle"}]
  /\ local \in [Tasks -> Local]
  /\ reply \in [Tasks -> Replies]
  /\ budget \in Nat

(* Two contracts of a project never share method and path, whichever way   *)
(* creates and updates that aim at the same key interleave.                *)
UniqueKeys ==
  \A i, j \in DOMAIN contracts :
    contracts[i].project = contracts[j].project /\ contracts[i].key = contracts[j].key
      => i = j

(* A contract's group exists and belongs to the contract's project, though *)
(* the id was resolved, or read from the old row, several awaits earlier.  *)
GroupsStayInProject ==
  \A i \in DOMAIN contracts :
    LET g == contracts[i].group
    IN  g # NoId => g \in DOMAIN groups /\ groups[g].project = contracts[i].project

(* A deleted contract never comes back: an update that read the row before *)
(* the delete does not write it again, and no id is handed out twice.      *)
NoResurrection ==
  [][\A i \in 1..issued : i \notin DOMAIN contracts => i \notin DOMAIN contracts']_vars

(* Two updates of one contract do not undo each other's fields: whenever   *)
(* the key or the text of a row changes, the request being served asked    *)
(* for that value.  (The group is not in this list: see the README.)       *)
PatchTouchesOnlyItsFields ==
  [][\A i \in DOMAIN contracts \cap DOMAIN contracts' :
       /\ contracts'[i].key # contracts[i].key =>
            \E t \in Tasks : /\ pc[t] = "write" /\ local[t].id = i
                             /\ contracts'[i].key = local[t].req.key
       /\ contracts'[i].text # contracts[i].text =>
            \E t \in Tasks : /\ pc[t] = "write" /\ local[t].id = i
                             /\ contracts'[i].text = local[t].req.text]_vars

----------------------------------------------------------------------------
(* The audit log                                                           *)

Logged(e) == \E n \in DOMAIN audit : audit[n] = e

LoggedOnce(e) == \A m, n \in DOMAIN audit : audit[m] = e /\ audit[n] = e => m = n

ContractLog(action, i) == [action |-> action, resource |-> "contract", id |-> i]

(* The audit log tells only what happened: it names no contract that was   *)
(* never created, a contract logged as deleted is gone, and creation and   *)
(* deletion are logged at most once, however many requests aim at the row. *)
AuditTellsTheTruth ==
  /\ \A n \in DOMAIN audit : audit[n].resource = "contract" => audit[n].id \in 1..issued
  /\ \A i \in 1..issued : Logged(ContractLog("delete", i)) => i \notin DOMAIN contracts
  /\ \A i \in 1..issued : LoggedOnce(ContractLog("create", i))
                          /\ LoggedOnce(ContractLog("delete", i))

(* The step in which a task answers its request.                           *)
Answers(t) == pc[t] # "idle" /\ pc'[t] = "idle"

(* A client that is told its contract was created, updated or deleted      *)
(* finds the change, and the group created on the way, in the audit log.   *)
SuccessMeansRecorded ==
  [][\A t \in Tasks : Answers(t) /\ reply'[t] \in {"created", "updated", "deleted"} =>
       /\ \E n \in DOMAIN audit' : audit'[n] = ContractEvent(t)
       /\ local[t].made => \E n \in DOMAIN audit' : audit'[n] = GroupEvent(t)]_vars

Committed(t) == pc[t] \in {"embed", "unembed", "record", "recordGroup"}

(* The one refusal that comes too late: an update whose merged contract    *)
(* does not validate has already written its row, and only that row.       *)
RefusedLate(t) ==
  LET i == local[t].id
  IN /\ pc[t] = "write" /\ reply'[t] = "validation"
     /\ i \in DOMAIN contracts
     /\ contracts' = [contracts EXCEPT ![i] = contracts'[i]]
     /\ contracts'[i].text \in RejectedTexts

(* A client that is refused has not changed the contracts, in the step     *)
(* that answers or in one of its calls before, unless it is refused late.  *)
RefusalsChangeOnlyByLateValidation ==
  [][\A t \in Tasks : Answers(t) /\ reply'[t] \in Refusals =>
       /\ ~Committed(t)
       /\ contracts' = contracts \/ RefusedLate(t)]_vars

(* Without faults the log is complete once the system is at rest: every    *)
(* contract ever created has its entry, and so has every deletion.         *)
AtRestAllRecorded ==
  AtRest /\ Faults = {} =>
    \A i \in 1..issued :
      /\ Logged(ContractLog("create", i))
      /\ i \notin DOMAIN contracts => Logged(ContractLog("delete", i))

(* Without faults, at rest, every group has its entry too.                 *)
GroupsAreLogged ==
  AtRest /\ Faults = {} =>
    \A g \in DOMAIN groups :
      Logged([action |-> "create", resource |-> "group", id |-> g])

----------------------------------------------------------------------------
(* Embeddings                                                              *)

(* Without faults a live contract has a vector, but for the moment between *)
(* the two calls of the request that creates it: no interleaving of        *)
(* deletes and updates can take the vector of a contract that stays.       *)
LiveContractsAreSearchable ==
  Faults = {} =>
    \A i \in DOMAIN contracts \ DOMAIN embeddings :
      \E t \in Tasks : pc[t] = "embed" /\ local[t].id = i

(* At rest no vector outlives its contract.                                *)
NoOrphanVectors == AtRest => DOMAIN embeddings \subseteq DOMAIN contracts

(* The requests that hold a vector for contract i and have not stored it.  *)
Storers(i) == {t \in Tasks : pc[t] = "embed" /\ local[t].id = i}

(* What semantic search and the duplicate check see of contract i agrees   *)
(* with its row, or one request is on its way to make it so.  Once the     *)
(* system is at rest: a contract has the vector of its key and text, and a *)
(* contract that is gone has none.                                         *)
Settled(i) ==
  IF i \in DOMAIN contracts
  THEN \/ /\ Storers(i) = {}
          /\ i \in DOMAIN embeddings
          /\ embeddings[i] = VectorOf(contracts[i])
       \/ \E t \in Tasks : /\ Storers(i) = {t}
                           /\ local[t].vector = VectorOf(contracts[i])
  ELSE i \in DOMAIN embeddings =>
         \E t \in Tasks : pc[t] = "unembed" /\ local[t].id = i

(* The calls that part a row from its vector: a write while another        *)
(* request has a vector of the row still to store, or one that is refused  *)
(* late; a vector stored for a row that is gone; a vector call that fails  *)
(* or is not reached.                                                      *)
Parts(t, i) ==
  /\ local[t].id = i /\ pc'[t] # pc[t]
  /\ \/ pc[t] = "write" /\ Storers(i) # {}
     \/ pc[t] = "write" /\ contracts'[i].text \in RejectedTexts
     \/ pc[t] = "embed" /\ i \notin DOMAIN contracts
     \/ pc[t] \in {"embed", "unembed"} /\ Faults # {} /\ embeddings' = embeddings

(* Row and vector are written by two calls and read by none together: they *)
(* part only in these calls, whatever else runs beside them.               *)
VectorsPartOnlyForAReason ==
  [][\A i \in 1..issued' :
       Settled(i) /\ ~Settled(i)' => \E t \in Tasks : Parts(t, i)]_vars

(* The contract i is one that the duplicate check of t, which is about to  *)
(* insert without `force`, should have found.                              *)
Rival(t, i) ==
  /\ pc[t] = "insert" /\ ~local[t].req.force
  /\ i \in DOMAIN contracts
  /\ contracts[i].project = local[t].req.project
  /\ Similarity[<<VectorOf(contracts[i]), local[t].vector>>] >= Threshold

(* TopK other vectors are at least as near to v as that of contract i.     *)
Crowded(i, v) ==
  \E S \in SUBSET (DOMAIN embeddings \ {i}) :
    /\ Cardinality(S) = TopK
    /\ \A j \in S : Similarity[<<embeddings[j], v>>] >= Similarity[<<embeddings[i], v>>]

(* A request goes past the duplicate check with a near duplicate in its    *)
(* project only when another request writes that contract between check    *)
(* and insert, when the contract's vector is missing or stale at the       *)
(* check, or when TopK others, of any project, are as near.                *)
DuplicatesSlipInOnlyForAReason ==
  [][\A t \in Tasks, i \in DOMAIN contracts' : Rival(t, i)' /\ ~Rival(t, i) =>
       \/ /\ pc[t] = "insert"
          /\ i \notin DOMAIN contracts \/ contracts'[i] # contracts[i]
       \/ /\ pc[t] = "similar"
          /\ \/ i \notin DOMAIN embeddings
             \/ embeddings[i] # VectorOf(contracts[i])
             \/ Crowded(i, local'[t].vector)]_vars

(* A contract is inserted without `force` only when no contract of its     *)
(* project is as similar as the threshold.                                 *)
DuplicatesNeedForce ==
  [][\A t \in Tasks : pc[t] = "insert" /\ issued' = issued + 1 =>
       \A i \in DOMAIN contracts :
         /\ contracts[i].project = local[t].req.project
         /\ Similarity[<<VectorOf(contracts[i]), local[t].vector>>] >= Threshold
         => local[t].req.force]_vars

(* Every contract in the table is one create_contract would have accepted. *)
ContractsStayValid ==
  \A i \in DOMAIN contracts : contracts[i].text \notin RejectedTexts

(* An update that does not mention the group leaves it as it is, though it *)
(* was another task that changed it since the row was read.                *)
UnmentionedGroupKept ==
  [][\A t \in Tasks : pc[t] = "write" /\ pc'[t] \notin {"write", "idle"}
                        /\ local[t].req.name = Unset =>
       contracts'[local[t].id].group = contracts[local[t].id].group]_vars

----------------------------------------------------------------------------
(* Every request is answered, whatever the other tasks do.                 *)
EveryRequestIsAnswered == \A t \in Tasks : (pc[t] # "idle") ~> (pc[t] = "idle")

----------------------------------------------------------------------------
(* The registry implements the ledger: a task owes its log entry from the  *)
(* commit of its change until it records it.                               *)
Owed == {<<t, ContractEvent(t)>> :
           t \in {u \in Tasks : pc[u] \in {"embed", "unembed", "record"}}}

L == INSTANCE Ledger WITH
       Writers <- Tasks, Refused <- RejectedTexts, table <- contracts,
       used <- 1..issued, log <- audit, owed <- Owed

(* Every step of the registry is a step of the ledger or leaves it alone:  *)
(* changes and log entries pair up one to one, but for a lost task, which  *)
(* drops its entry, and an update refused after its commit, which has none. *)
ImplementsLedger == L!LedgerSpec
=============================================================================
