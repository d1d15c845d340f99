------------------------------ MODULE Registry ------------------------------
(***************************************************************************)
(* The contract registry of ledgapi: the use cases create_contract,        *)
(* update_contract, delete_contract and the create_group tool, run by      *)
(* concurrent requests over one SQLite connection.                         *)
(*                                                                         *)
(* Every repository call takes the connection's mutex for its whole        *)
(* duration (infra/db/pool.rs, with_conn) and is one atomic step here; the *)
(* use case awaits between two calls, so the steps of different requests   *)
(* interleave.  pc[t] names the repository call that task t makes next.    *)
(*                                                                         *)
(* Data is kept to what the properties tell apart: a key stands for the    *)
(* pair (method, normalised path), a text for summary and description, an  *)
(* embedding for the pair it is computed from.                             *)
(***************************************************************************)
EXTENDS Naturals, Sequences, FiniteSets, Functions

CONSTANTS
  Tasks,          \* request handlers that can run at the same time
  Projects,       \* existing projects; the code has no way to delete one
  Names,          \* group names
  Keys,           \* (method, path) pairs
  Texts,          \* summaries and descriptions
  RejectedTexts,  \* the texts that validation refuses
  Requests,       \* the requests clients send
  Similarity,     \* of two vectors, on an integer scale
  Threshold,      \* embed.similarity_threshold, on the same scale
  TopK,           \* embed.knn_top_k
  Faults,         \* which faults happen: "abort", "vector"
  Budget,         \* bound: how many requests clients send in all
  Unset,          \* an absent field of a request (None)
  Blank           \* the group name "", which detaches

Vectors == Keys \X Texts

NoId == 0

Row   == [project : Projects, group : Nat, key : Keys, text : Texts]
Group == [project : Projects, name : Names, parent : Nat]
Event == [action : {"create", "update", "delete"},
          resource : {"contract", "group"}, id : Nat]

Request ==
  [op : {"create", "update", "delete", "create_group"},
   project : Projects, id : Nat, key : Keys \cup {Unset},
   text : Texts \cup {Unset}, name : Names \cup {Unset, Blank},
   parent : Nat, force : BOOLEAN]

ASSUME ConstantsAssumption ==
  /\ RejectedTexts \subseteq Texts
  /\ Requests \subseteq Request
  /\ Similarity \in [Vectors \X Vectors -> Nat]
  /\ Threshold \in Nat \ {0}
  /\ TopK \in Nat \ {0}
  /\ Faults \subseteq {"abort", "vector"}
  /\ Budget \in Nat
  /\ Unset # Blank
  /\ {Unset, Blank} \cap (Keys \cup Texts \cup Names) = {}

VARIABLES
  contracts,   \* table contracts: id -> row, for the ids that exist
  embeddings,  \* table contract_embeddings: id -> vector
  groups,      \* table groups, in insertion order; no row is ever deleted
  audit,       \* table audit_log, in insertion order
  issued,      \* how many contract ids Id::new() has handed out
  pc,          \* the next repository call of each task
  local,       \* the local variables of each task
  reply,       \* the last answer of each task
  budget       \* requests still to come

tables == <<contracts, embeddings, groups, audit, issued>>
vars   == <<contracts, embeddings, groups, audit, issued, pc, local, reply, budget>>

Calls == {"load", "group", "similar", "hydrate", "insert", "write", "embed",
          "delete", "unembed", "record", "recordGroup"}

Successes == {"created", "updated", "deleted", "grouped"}
Refusals  == {"similar", "duplicate", "not_found", "validation", "internal"}
Replies   == Successes \cup Refusals \cup {"none", "lost"}

(* The locals of execute_inner: the request, the contract's id, group_id,  *)
(* whether this call created that group, the contract read as `current`,   *)
(* the similar contracts still to hydrate and the vector to store.         *)
Local == [req : Requests \cup {Unset}, id : Nat, group : Nat, made : BOOLEAN,
          seen : Row \cup {Unset}, hits : SUBSET Nat, vector : Vectors \cup {Unset}]

NewLocals(r, i) == [req |-> r, id |-> i, group |-> NoId, made |-> FALSE,
                    seen |-> Unset, hits |-> {}, vector |-> Unset]

NoLocals == NewLocals(Unset, NoId)

----------------------------------------------------------------------------
(* Queries and row operations                                              *)

(* The table with v as its row i, new or replaced.                         *)
Put(table, i, v) ==
  [j \in DOMAIN table \cup {i} |-> IF j = i THEN v ELSE table[j]]

Present(p, i) == i \in DOMAIN contracts /\ contracts[i].project = p

(* Mutated form: updates do not meet the unique index.                     *)
KeyTakenOnInsertOnly(p, k, self) ==
  /\ self = NoId
  /\ \E i \in DOMAIN contracts : contracts[i].project = p /\ contracts[i].key = k

(* UNIQUE (project_id, method, path), for the row `self` being written.    *)
KeyTaken(p, k, self) ==
  \E i \in DOMAIN contracts \ {self} :
    contracts[i].project = p /\ contracts[i].key = k

(* Mutated form: the lookup by name forgets the project.                   *)
GroupNamedAnywhere(p, n) == {g \in DOMAIN groups : groups[g].name = n}

GroupNamed(p, n) == {g \in DOMAIN groups : groups[g].project = p /\ groups[g].name = n}

(* Mutated form: ids are counted over the rows that are left.              *)
FreshIdByCount == Cardinality(DOMAIN contracts) + 1

(* Id::new(): an id no contract has had.                                   *)
FreshId == issued + 1

VectorOf(row) == <<row.key, row.text>>

(* The k nearest rows of the vec0 table: a KNN query over the rows of all  *)
(* projects; ties fall either way.                                         *)
Nearest(v) ==
  LET stored == DOMAIN embeddings
      k == IF Cardinality(stored) < TopK THEN Cardinality(stored) ELSE TopK
  IN  {S \in SUBSET stored :
         /\ Cardinality(S) = k
         /\ \A i \in S, j \in stored \ S :
              Similarity[<<embeddings[j], v>>] <= Similarity[<<embeddings[i], v>>]}

(* search_semantic joins the k nearest with contracts and only then keeps  *)
(* the rows of the project.                                                *)
Similar(p, v) == {{i \in S : Present(p, i)} : S \in Nearest(v)}

(* Mutated form: the threshold itself no longer counts as similar.         *)
TooSimilarStrictly(i, v) == Similarity[<<embeddings[i], v>>] > Threshold

TooSimilar(i, v) == Similarity[<<embeddings[i], v>>] >= Threshold

(* ContractCreate::validate and ContractUpdate::is_empty: what is refused  *)
(* before anything is read or written.                                     *)
Validates(r) ==
  /\ r.op = "create" => r.key # Unset /\ r.text \in Texts \ RejectedTexts
  /\ r.op = "update" => ~(r.key = Unset /\ r.text = Unset /\ r.name = Unset)
  /\ r.op = "create_group" => r.name \in Names

(* Mutated form: a new summary or description leaves the vector as it is.  *)
AffectsEmbeddingByKey(r) == r.key # Unset

AffectsEmbedding(r) == r.key # Unset \/ r.text # Unset

(* Mutated form: a field the patch leaves out is overwritten with nothing. *)
PatchedVerbatim(row, r, g) ==
  [project |-> row.project, group |-> g, key |-> r.key, text |-> r.text]

(* The patch laid over a row, with the group the use case resolved.        *)
Patched(row, r, g) ==
  [project |-> row.project,
   group   |-> g,
   key     |-> IF r.key = Unset THEN row.key ELSE r.key,
   text    |-> IF r.text = Unset THEN row.text ELSE r.text]

(* Mutated form: the patch is laid over the copy read before the awaits.   *)
MergedFromCopy(t) == Patched(local[t].seen, local[t].req, local[t].group)

(* SqliteContractRepo::update loads the row again under the lock.          *)
Merged(t) == Patched(contracts[local[t].id], local[t].req, local[t].group)

----------------------------------------------------------------------------
(* Control of a task                                                       *)

Goto(t, call) == pc' = [pc EXCEPT ![t] = call] /\ UNCHANGED reply

Answer(t, outcome) ==
  /\ pc' = [pc EXCEPT ![t] = "idle"]
  /\ reply' = [reply EXCEPT ![t] = outcome]
  /\ local' = [local EXCEPT ![t] = NoLocals]

FirstCall(r) ==
  [create       |-> IF r.name \in Names THEN "group" ELSE "similar",
   update       |-> "load",
   delete       |-> "delete",
   create_group |-> "group"][r.op]

(* A request arrives and passes validation.  A request refused here leaves *)
(* no trace and is not modelled.                                           *)
Begin(t) ==
  /\ pc[t] = "idle"
  /\ budget > 0
  /\ \E r \in Requests :
       /\ Validates(r)
       /\ pc' = [pc EXCEPT ![t] = FirstCall(r)]
       /\ local' = [local EXCEPT ![t] = NewLocals(r, r.id)]
  /\ reply' = [reply EXCEPT ![t] = "none"]
  /\ budget' = budget - 1
  /\ UNCHANGED tables

(* update: the current row is read for its group_id.                       *)
LoadCurrent(t) ==
  LET r == local[t].req
      i == local[t].id
  IN /\ pc[t] = "load"
     /\ \/ /\ Present(r.project, i)
           /\ local' = [local EXCEPT
                ![t].seen  = contracts[i],
                ![t].group = IF r.name = Unset THEN contracts[i].group ELSE NoId]
           /\ Goto(t, IF r.name \in Names THEN "group" ELSE "write")
        \/ ~Present(r.project, i) /\ Answer(t, "not_found")
     /\ UNCHANGED <<tables, budget>>

(* The group is known: the task goes on with its id.                       *)
TakeGroup(t, g, created) ==
  IF local[t].req.op = "create_group"
  THEN Answer(t, "grouped")
  ELSE /\ local' = [local EXCEPT ![t].group = g, ![t].made = created]
       /\ Goto(t, IF local[t].req.op = "create" THEN "similar" ELSE "write")

(* resolve / resolve_with_created: INSERT OR IGNORE, then read the row     *)
(* with that name.  The existing row wins whatever parent was asked for;   *)
(* a parent that does not exist fails the foreign key.                     *)
ResolveGroup(t) ==
  LET r == local[t].req
      parent == IF r.op = "update" THEN NoId ELSE r.parent
      named == GroupNamed(r.project, r.name)
  IN /\ pc[t] = "group"
     /\ \/ /\ \E g \in named : TakeGroup(t, g, FALSE)
           /\ UNCHANGED groups
        \/ /\ named = {}
           /\ parent \in DOMAIN groups \cup {NoId}
           /\ groups' = Append(groups, [project |-> r.project, name |-> r.name,
                                        parent |-> parent])
           /\ TakeGroup(t, Len(groups) + 1, TRUE)
        \/ /\ named = {}
           /\ parent \notin DOMAIN groups \cup {NoId}
           /\ Answer(t, "internal")
           /\ UNCHANGED groups
     /\ UNCHANGED <<contracts, embeddings, audit, issued, budget>>

(* create: embed the input and look for near duplicates.                   *)
CheckSimilar(t) ==
  LET r == local[t].req
      v == <<r.key, r.text>>
  IN /\ pc[t] = "similar"
     /\ \E hits \in Similar(r.project, v) :
          IF ~r.force /\ \E i \in hits : TooSimilar(i, v)
          THEN local' = [local EXCEPT ![t].hits = hits] /\ Goto(t, "hydrate")
          ELSE local' = [local EXCEPT ![t].vector = v] /\ Goto(t, "insert")
     /\ UNCHANGED <<tables, budget>>

(* Mutated form: the answer assumes that the similar contracts still exist. *)
HydratePresentOnly(t) ==
  /\ pc[t] = "hydrate"
  /\ \E i \in local[t].hits :
       /\ Present(local[t].req.project, i)
       /\ IF local[t].hits = {i}
          THEN Answer(t, "similar")
          ELSE local' = [local EXCEPT ![t].hits = @ \ {i}] /\ UNCHANGED <<pc, reply>>
  /\ UNCHANGED <<tables, budget>>

(* create, refused: read the similar contracts one by one for the answer.  *)
Hydrate(t) ==
  /\ pc[t] = "hydrate"
  /\ \E i \in local[t].hits :
       \/ /\ Present(local[t].req.project, i)
          /\ local[t].hits # {i}
          /\ local' = [local EXCEPT ![t].hits = @ \ {i}]
          /\ UNCHANGED <<pc, reply>>
       \/ /\ Present(local[t].req.project, i)
          /\ local[t].hits = {i}
          /\ Answer(t, "similar")
       \/ ~Present(local[t].req.project, i) /\ Answer(t, "not_found")
  /\ UNCHANGED <<tables, budget>>

(* create: INSERT under a new id, or the unique index refuses the key.     *)
InsertContract(t) ==
  LET r == local[t].req
      new == FreshId
  IN /\ pc[t] = "insert"
     /\ \/ /\ ~KeyTaken(r.project, r.key, NoId)
           /\ contracts' = Put(contracts, new,
                               [project |-> r.project, group |-> local[t].group,
                                key |-> r.key, text |-> r.text])
           /\ issued' = new
           /\ local' = [local EXCEPT ![t].id = new]
           /\ Goto(t, "embed")
        \/ /\ KeyTaken(r.project, r.key, NoId)
           /\ Answer(t, "duplicate")
           /\ UNCHANGED <<contracts, issued>>
     /\ UNCHANGED <<embeddings, groups, audit, budget>>

(* update: the row is written first and the merged contract is validated   *)
(* after the transaction has committed.                                    *)
UpdateContract(t) ==
  LET r == local[t].req
      i == local[t].id
      row == Merged(t)
  IN /\ pc[t] = "write"
     /\ \/ ~Present(r.project, i) /\ Answer(t, "not_found") /\ UNCHANGED contracts
        \/ /\ Present(r.project, i)
           /\ KeyTaken(r.project, row.key, i)
           /\ Answer(t, "internal")
           /\ UNCHANGED contracts
        \/ /\ Present(r.project, i)
           /\ ~KeyTaken(r.project, row.key, i)
           /\ contracts' = [contracts EXCEPT ![i] = row]
           /\ IF row.text \in RejectedTexts
              THEN Answer(t, "validation")
              ELSE /\ local' = [local EXCEPT ![t].vector = VectorOf(row)]
                   /\ Goto(t, IF AffectsEmbedding(r) THEN "embed" ELSE "record")
     /\ UNCHANGED <<embeddings, groups, audit, issued, budget>>

(* create and update: store the vector.  A failure is only logged.         *)
StoreEmbedding(t) ==
  /\ pc[t] = "embed"
  /\ \/ embeddings' = Put(embeddings, local[t].id, local[t].vector)
     \/ "vector" \in Faults /\ UNCHANGED embeddings
  /\ Goto(t, "record")
  /\ UNCHANGED <<contracts, groups, audit, issued, local, budget>>

(* Mutated form: the number of deleted rows is not looked at.              *)
DeleteContractUnchecked(t) ==
  /\ pc[t] = "delete"
  /\ contracts' = Restrict(contracts, DOMAIN contracts \ {local[t].id})
  /\ Goto(t, "unembed")
  /\ UNCHANGED <<embeddings, groups, audit, issued, local, budget>>

(* DELETE of the row; no row deleted means NotFound.                       *)
DeleteContract(t) ==
  LET i == local[t].id
  IN /\ pc[t] = "delete"
     /\ \/ /\ Present(local[t].req.project, i)
           /\ contracts' = Restrict(contracts, DOMAIN contracts \ {i})
           /\ Goto(t, "unembed")
           /\ UNCHANGED local
        \/ /\ ~Present(local[t].req.project, i)
           /\ Answer(t, "not_found")
           /\ UNCHANGED contracts
     /\ UNCHANGED <<embeddings, groups, audit, issued, budget>>

(* Mutated form: a missing vector is an error instead of a warning.        *)
DeleteEmbeddingStrictly(t) ==
  /\ pc[t] = "unembed"
  /\ IF local[t].id \in DOMAIN embeddings
     THEN /\ embeddings' = Restrict(embeddings, DOMAIN embeddings \ {local[t].id})
          /\ Goto(t, "record")
          /\ UNCHANGED local
     ELSE Answer(t, "not_found") /\ UNCHANGED embeddings
  /\ UNCHANGED <<contracts, groups, audit, issued, budget>>

(* Mutated form: the vectors are deleted by project_id.                    *)
DeleteEmbeddingsOfProject(t) ==
  /\ pc[t] = "unembed"
  /\ embeddings' = Restrict(embeddings,
       {i \in DOMAIN embeddings \ {local[t].id} : ~Present(local[t].req.project, i)})
  /\ Goto(t, "record")
  /\ UNCHANGED <<contracts, groups, audit, issued, local, budget>>

(* delete: drop the vector.  A failure is only logged.                     *)
DeleteEmbedding(t) ==
  /\ pc[t] = "unembed"
  /\ \/ embeddings' = Restrict(embeddings, DOMAIN embeddings \ {local[t].id})
     \/ "vector" \in Faults /\ UNCHANGED embeddings
  /\ Goto(t, "record")
  /\ UNCHANGED <<contracts, groups, audit, issued, local, budget>>

SuccessOf(op) == [create |-> "created", update |-> "updated", delete |-> "deleted"][op]

ContractEvent(t) == [action |-> local[t].req.op, resource |-> "contract",
                     id |-> local[t].id]
GroupEvent(t)    == [action |-> "create", resource |-> "group", id |-> local[t].group]

(* Mutated form: the group created on the way is not recorded.             *)
RecordContractOnly(t) ==
  /\ pc[t] = "record"
  /\ audit' = Append(audit, ContractEvent(t))
  /\ Answer(t, SuccessOf(local[t].req.op))
  /\ UNCHANGED <<contracts, embeddings, groups, issued, budget>>

(* audit::record for the contract.                                         *)
RecordContract(t) ==
  /\ pc[t] = "record"
  /\ audit' = Append(audit, ContractEvent(t))
  /\ IF local[t].made
     THEN Goto(t, "recordGroup") /\ UNCHANGED local
     ELSE Answer(t, SuccessOf(local[t].req.op))
  /\ UNCHANGED <<contracts, embeddings, groups, issued, budget>>

(* audit::record for the group this call created on the way.               *)
RecordGroup(t) ==
  /\ pc[t] = "recordGroup"
  /\ audit' = Append(audit, GroupEvent(t))
  /\ Answer(t, SuccessOf(local[t].req.op))
  /\ UNCHANGED <<contracts, embeddings, groups, issued, budget>>

(* The task ends before its next call: the client has gone and its future  *)
(* is dropped, the process stops, or the call returns an error the use     *)
(* case passes on with `?`.                                                *)
Abort(t) ==
  /\ "abort" \in Faults
  /\ pc[t] # "idle"
  /\ Answer(t, "lost")
  /\ UNCHANGED <<tables, budget>>

----------------------------------------------------------------------------
Init ==
  /\ contracts  = << >>
  /\ embeddings = << >>
  /\ groups = << >>
  /\ audit  = << >>
  /\ issued = 0
  /\ pc     = [t \in Tasks |-> "idle"]
  /\ local  = [t \in Tasks |-> NoLocals]
  /\ reply  = [t \in Tasks |-> "none"]
  /\ budget = Budget

Step(t) ==
  \/ LoadCurrent(t) \/ ResolveGroup(t) \/ CheckSimilar(t) \/ Hydrate(t)
  \/ InsertContract(t) \/ UpdateContract(t) \/ DeleteContract(t)
  \/ StoreEmbedding(t) \/ DeleteEmbedding(t)
  \/ RecordContract(t) \/ RecordGroup(t)

AtRest == \A t \in Tasks : pc[t] = "idle"

(* The clients have sent all their requests and have their answers.        *)
NoMoreRequests == budget = 0 /\ AtRest /\ UNCHANGED vars

Next ==
  \/ \E t \in Tasks : Begin(t) \/ Step(t) \/ Abort(t)
  \/ NoMoreRequests

Spec == Init /\ [][Next]_vars

(* The runtime schedules every task, and no call holds the mutex across an *)
(* await.                                                                  *)
FairSpec == Spec /\ \A t \in Tasks : WF_vars(Step(t))
=============================================================================
