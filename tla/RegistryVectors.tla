-------------------------- MODULE RegistryVectors ---------------------------
(***************************************************************************)
(* Theorems about the vectors of the contract registry: a live contract is *)
(* searchable, a row and its vector part only for a reason, and so does a  *)
(* near duplicate slip in.                                                 *)
(***************************************************************************)
EXTENDS RegistryLog, FiniteSetTheorems

(* Only two calls write the vectors.                                       *)
LEMMA VectorWriters ==
  ASSUME [Next]_vars, embeddings' # embeddings
  PROVE  \E t \in Tasks : StoreEmbedding(t) \/ DeleteEmbedding(t)
BY DEF Next, Step, vars, tables, Begin, LoadCurrent, ResolveGroup, CheckSimilar, Hydrate,
       InsertContract, UpdateContract, DeleteContract, RecordContract, RecordGroup, Abort,
       NoMoreRequests

(* What they make of the table.                                            *)
LEMMA StoreEffect ==
  ASSUME Faults = {}, NEW t \in Tasks, StoreEmbedding(t)
  PROVE  LET i == local[t].id IN
         /\ DOMAIN embeddings' = DOMAIN embeddings \cup {i}
         /\ \A j \in DOMAIN embeddings' :
              embeddings'[j] = IF j = i THEN local[t].vector ELSE embeddings[j]
BY DEF StoreEmbedding, Put

LEMMA DropEffect ==
  ASSUME Faults = {}, NEW t \in Tasks, DeleteEmbedding(t)
  PROVE  LET i == local[t].id IN
         /\ DOMAIN embeddings' = DOMAIN embeddings \ {i}
         /\ \A j \in DOMAIN embeddings' : embeddings'[j] = embeddings[j]
BY DEF DeleteEmbedding, Restrict

(* A task about to store a vector stays there until it has.                *)
LEMMA StorersStay ==
  ASSUME Faults = {}, IInv, [Next]_vars, NEW u \in Tasks, pc[u] = "embed", ~StoreEmbedding(u)
  PROVE  pc'[u] = "embed" /\ local'[u] = local[u]
<1>1. ASSUME NEW t \in Tasks, t # u, Begin(t) \/ Step(t) \/ Abort(t)
      PROVE  pc'[u] = pc[u] /\ local'[u] = local[u]
  BY <1>1, OneTaskActs DEF OthersStay
<1>2. ~(Begin(u) \/ Step(u) \/ Abort(u))
  BY DEF Step, Begin, LoadCurrent, ResolveGroup, CheckSimilar, Hydrate, InsertContract,
     UpdateContract, DeleteContract, DeleteEmbedding, RecordContract, RecordGroup, Abort
<1>3. CASE UNCHANGED vars
  BY <1>3 DEF vars
<1> QED
  BY <1>1, <1>2, <1>3 DEF Next, NoMoreRequests

(* A contract without a vector is about to get one.                        *)
LEMMA SearchableStep ==
  ASSUME IInv, LogInv, LiveContractsAreSearchable, [Next]_vars
  PROVE  LiveContractsAreSearchable'
<1> SUFFICES ASSUME Faults = {}, NEW i \in DOMAIN contracts' \ DOMAIN embeddings'
             PROVE  \E t \in Tasks : pc'[t] = "embed" /\ local'[t].id = i
  BY DEF LiveContractsAreSearchable
<1>0. pc \in [Tasks -> Calls \cup {"idle"}] /\ local \in [Tasks -> Local]
  BY DEF IInv, TypeOK
<1>1. CASE i \notin DOMAIN contracts
  <2>1. contracts' # contracts
    BY <1>1
  <2>2. ASSUME NEW t \in Tasks, UpdateContract(t) \/ DeleteContract(t) PROVE FALSE
    BY <1>1, <2>1, <2>2, UpdateEffect, DeleteEffect
  <2>3. PICK t \in Tasks : InsertContract(t)
    BY <2>1, <2>2, ContractWriters
  <2>4. /\ DOMAIN contracts' = DOMAIN contracts \cup {issued + 1}
        /\ local' = [local EXCEPT ![t].id = issued + 1] /\ pc' = [pc EXCEPT ![t] = "embed"]
    BY <2>1, <2>3, InsertEffect DEF Put, Goto
  <2>5. pc'[t] = "embed" /\ local'[t].id = issued + 1
    BY <1>0, <2>4 DEF Local
  <2> QED
    BY <1>1, <2>4, <2>5
<1>2. CASE i \in DOMAIN contracts /\ i \in DOMAIN embeddings
  <2>1. ASSUME NEW t \in Tasks, StoreEmbedding(t) PROVE FALSE
    BY <1>2, <2>1, StoreEffect
  <2>2. PICK t \in Tasks : DeleteEmbedding(t)
    BY <1>2, <2>1, VectorWriters
  <2>3. i = local[t].id
    BY <1>2, <2>2, DropEffect
  <2>4. Deleting(t)
    BY <2>2 DEF DeleteEmbedding, Deleting, IInv, Control, ControlOf
  <2> QED
    BY <1>2, <2>3, <2>4 DEF LogInv, DeletedIsGone
<1>3. CASE i \in DOMAIN contracts /\ i \notin DOMAIN embeddings
  <2>1. PICK t \in Tasks : pc[t] = "embed" /\ local[t].id = i
    BY <1>3 DEF LiveContractsAreSearchable
  <2>2. ~StoreEmbedding(t)
    BY <2>1, StoreEffect
  <2> QED
    BY <2>1, <2>2, StorersStay
<1> QED
  BY <1>1, <1>2, <1>3

(* Unless a call on the vectors fails, a live contract has a vector or is  *)
(* about to get it, whatever creates, updates and deletes interleave.      *)
THEOREM LiveIsSearchable == Spec => []LiveContractsAreSearchable
<1>1. Init => IInv /\ LogInv /\ LiveContractsAreSearchable
  BY InitInv, LogInit DEF Init, LiveContractsAreSearchable
<1>2. (IInv /\ LogInv /\ LiveContractsAreSearchable) /\ [Next]_vars
        => (IInv /\ LogInv /\ LiveContractsAreSearchable)'
  BY NextInv, LogStep, SearchableStep
<1> QED
  BY <1>1, <1>2, PTL DEF Spec

----------------------------------------------------------------------------
(* A row and its vector part only for a reason.                            *)

(* Nothing that Settled looks at has changed.                              *)
LEMMA SettledSame ==
  ASSUME NEW i, Settled(i), NEW t \in Tasks, OthersStay(t),
         i \in DOMAIN contracts' <=> i \in DOMAIN contracts,
         i \in DOMAIN contracts => VectorOf(contracts'[i]) = VectorOf(contracts[i]),
         i \in DOMAIN embeddings' <=> i \in DOMAIN embeddings,
         i \in DOMAIN embeddings => embeddings'[i] = embeddings[i],
         ~(pc[t] \in {"embed", "unembed"} /\ local[t].id = i),
         ~(pc'[t] = "embed" /\ local'[t].id = i)
  PROVE  Settled(i)'
<1>1. Storers(i)' = Storers(i) /\ t \notin Storers(i)
  BY DEF Storers, OthersStay
<1>2. \A u \in Storers(i) : local'[u] = local[u]
  BY <1>1 DEF Storers, OthersStay
<1>3. \A u \in Tasks : pc[u] = "unembed" /\ local[u].id = i
                       => pc'[u] = "unembed" /\ local'[u].id = i
  BY DEF OthersStay
<1>4. CASE i \in DOMAIN contracts
  <2>1. CASE Storers(i) = {} /\ i \in DOMAIN embeddings /\ embeddings[i] = VectorOf(contracts[i])
    BY <1>1, <1>4, <2>1 DEF Settled
  <2>2. ASSUME NEW u \in Tasks, Storers(i) = {u}, local[u].vector = VectorOf(contracts[i])
        PROVE  Settled(i)'
    <3>1. Storers(i)' = {u} /\ local'[u].vector = VectorOf(contracts'[i])
      BY <1>1, <1>2, <1>4, <2>2
    <3> QED
      BY <1>4, <3>1 DEF Settled, VectorOf
  <2> QED
    BY <1>4, <2>1, <2>2 DEF Settled
<1>5. CASE i \notin DOMAIN contracts
  BY <1>3, <1>5 DEF Settled
<1> QED
  BY <1>4, <1>5

(* The calls that write neither a row nor a vector.                        *)
LEMMA QuietParts ==
  ASSUME IInv, NEW i, Settled(i), NEW t \in Tasks,
         \/ Begin(t) \/ LoadCurrent(t) \/ ResolveGroup(t) \/ CheckSimilar(t) \/ Hydrate(t)
         \/ RecordContract(t) \/ RecordGroup(t) \/ Abort(t)
  PROVE  Settled(i)' \/ Parts(t, i)
<1>0. pc \in [Tasks -> Calls \cup {"idle"}]
  BY DEF IInv, TypeOK
<1>1. OthersStay(t)
  BY OneTaskActs DEF Step
<1>2. contracts' = contracts /\ embeddings' = embeddings
  BY DEF Begin, LoadCurrent, ResolveGroup, CheckSimilar, Hydrate, RecordContract,
     RecordGroup, Abort, tables
<1>3. pc'[t] # "embed"
  <2>1. CASE Begin(t)
    <3>1. PICK r \in Requests : Validates(r) /\ pc'[t] = FirstCall(r)
      BY <1>0, <2>1 DEF Begin
    <3>2. r.op \in {"create", "update", "delete", "create_group"}
      BY <3>1, RequestFacts
    <3> QED
      BY <3>1, <3>2 DEF FirstCall
  <2>2. CASE ~Begin(t)
    BY <1>0, <2>2 DEF LoadCurrent, ResolveGroup, TakeGroup, CheckSimilar, Hydrate,
       RecordContract, RecordGroup, Abort, Goto, Answer
  <2> QED
    BY <2>1, <2>2
<1>4. CASE pc[t] \in {"embed", "unembed"} /\ local[t].id = i
  <2>1. Abort(t)
    BY <1>4 DEF Begin, LoadCurrent, ResolveGroup, CheckSimilar, Hydrate, RecordContract,
       RecordGroup
  <2> QED
    BY <1>0, <1>2, <1>4, <2>1 DEF Parts, Abort, Answer
<1>5. CASE ~(pc[t] \in {"embed", "unembed"} /\ local[t].id = i)
  BY <1>1, <1>2, <1>3, <1>5, SettledSame
<1> QED
  BY <1>4, <1>5

(* A new row's vector is held by the request that inserts it, alone.       *)
LEMMA InsertParts ==
  ASSUME IInv, LogInv, NEW i, Settled(i), NEW t \in Tasks, InsertContract(t)
  PROVE  Settled(i)'
<1>0. /\ pc \in [Tasks -> Calls \cup {"idle"}] /\ local \in [Tasks -> Local]
      /\ pc[t] = "insert" /\ embeddings' = embeddings /\ issued \in Nat
      /\ local[t].vector = <<local[t].req.key, local[t].req.text>>
  BY DEF IInv, TypeOK, InsertContract, Control, ControlOf
<1>1. OthersStay(t)
  BY OneTaskActs DEF Step
<1>2. CASE contracts' = contracts /\ Answer(t, "duplicate")
  <2>1. pc'[t] # "embed"
    BY <1>0, <1>2 DEF Answer
  <2> QED
    BY <1>0, <1>1, <1>2, <2>1, SettledSame
<1>3. ASSUME NEW new, new = issued + 1, NEW row,
             row = [project |-> local[t].req.project, group |-> local[t].group,
                    key |-> local[t].req.key, text |-> local[t].req.text],
             contracts' = Put(contracts, new, row),
             local' = [local EXCEPT ![t].id = new], Goto(t, "embed")
      PROVE  Settled(i)'
  <2>1. /\ pc'[t] = "embed" /\ local'[t].id = new /\ local'[t].vector = local[t].vector
        /\ DOMAIN contracts' = DOMAIN contracts \cup {new} /\ contracts'[new] = row
        /\ \A j \in DOMAIN contracts : j # new => contracts'[j] = contracts[j]
    BY <1>0, <1>3 DEF Goto, Local, Put
  <2>2. CASE i = new
    <3>1. \A u \in Tasks \ {t} : pc[u] = "embed" => local[u].id # new
      BY <1>0, <1>3 DEF LogInv, CommittedIds, Committed
    <3>2. Storers(i)' = {t}
      BY <1>1, <2>1, <2>2, <3>1 DEF Storers, OthersStay
    <3>3. VectorOf(contracts'[i]) = local'[t].vector
      BY <1>0, <1>3, <2>1, <2>2 DEF VectorOf
    <3> QED
      BY <2>1, <2>2, <3>2, <3>3 DEF Settled, VectorOf
  <2>3. CASE i # new
    BY <1>0, <1>1, <2>1, <2>3, SettledSame
  <2> QED
    BY <2>2, <2>3
<1> QED
  BY <1>2, <1>3 DEF InsertContract, FreshId

(* An update that is alone on its row takes the new vector with it, or     *)
(* leaves key and text as they are.                                        *)
LEMMA UpdateParts ==
  ASSUME IInv, NEW i, Settled(i), NEW t \in Tasks, UpdateContract(t)
  PROVE  Settled(i)' \/ Parts(t, i)
<1> DEFINE row == Merged(t)
           r == local[t].req
           call == IF AffectsEmbedding(r) THEN "embed" ELSE "record"
<1>0. /\ pc \in [Tasks -> Calls \cup {"idle"}] /\ local \in [Tasks -> Local]
      /\ pc[t] = "write" /\ embeddings' = embeddings
  BY DEF IInv, TypeOK, UpdateContract
<1>1. OthersStay(t)
  BY OneTaskActs DEF Step
<1>2. CASE contracts' = contracts /\ \E o : Answer(t, o)
  <2>1. pc'[t] # "embed"
    BY <1>0, <1>2 DEF Answer
  <2> QED
    BY <1>0, <1>1, <1>2, <2>1, SettledSame
<1>3. CASE /\ local[t].id \in DOMAIN contracts
           /\ contracts' = [contracts EXCEPT ![local[t].id] = row]
           /\ \/ row.text \in RejectedTexts /\ Answer(t, "validation")
              \/ local' = [local EXCEPT ![t].vector = VectorOf(row)] /\ Goto(t, call)
  <2>1. CASE i # local[t].id
    <3>1. ~(pc'[t] = "embed" /\ local'[t].id = i)
      BY <1>0, <1>3, <2>1 DEF Goto, Answer, Local
    <3>2. /\ DOMAIN contracts' = DOMAIN contracts
          /\ i \in DOMAIN contracts => contracts'[i] = contracts[i]
      BY <1>3, <2>1
    <3> QED
      BY <1>0, <1>1, <3>1, <3>2, SettledSame
  <2>2. CASE i = local[t].id /\ (Storers(i) # {} \/ row.text \in RejectedTexts)
    <3>1. contracts'[i].text = row.text /\ pc'[t] # pc[t]
      BY <1>0, <1>3, <2>2 DEF Goto, Answer
    <3> QED
      BY <1>0, <2>2, <3>1 DEF Parts
  <2>3. CASE i = local[t].id /\ Storers(i) = {} /\ row.text \notin RejectedTexts
    <3>1. /\ contracts'[i] = row /\ i \in DOMAIN contracts /\ i \in DOMAIN contracts'
          /\ pc'[t] = call /\ local'[t].id = i /\ local'[t].vector = VectorOf(row)
      BY <1>0, <1>3, <2>3 DEF Goto, Local
    <3>2. i \in DOMAIN embeddings /\ embeddings[i] = VectorOf(contracts[i])
      BY <2>3, <3>1 DEF Settled
    <3>3. CASE AffectsEmbedding(r)
      <4>1. Storers(i)' = {t}
        BY <1>1, <2>3, <3>1, <3>3 DEF Storers, OthersStay
      <4> QED
        BY <3>1, <4>1 DEF Settled, VectorOf
    <3>4. CASE ~AffectsEmbedding(r)
      <4>1. VectorOf(contracts'[i]) = VectorOf(contracts[i])
        BY <2>3, <3>1, <3>4 DEF AffectsEmbedding, Merged, Patched, VectorOf
      <4> QED
        BY <1>0, <1>1, <3>1, <3>4, <4>1, SettledSame
    <3> QED
      BY <3>3, <3>4
  <2> QED
    BY <2>1, <2>2, <2>3
<1> QED
  BY <1>2, <1>3 DEF UpdateContract, Present

(* The request that deletes a row goes on to drop its vector.              *)
LEMMA DeleteParts ==
  ASSUME IInv, NEW i, Settled(i), NEW t \in Tasks, DeleteContract(t)
  PROVE  Settled(i)'
<1>0. /\ pc \in [Tasks -> Calls \cup {"idle"}]
      /\ pc[t] = "delete" /\ embeddings' = embeddings
  BY DEF IInv, TypeOK, DeleteContract
<1>1. OthersStay(t) /\ pc'[t] # "embed"
  BY <1>0, OneTaskActs DEF Step, DeleteContract, Goto, Answer
<1>2. CASE contracts' = contracts
  BY <1>0, <1>1, <1>2, SettledSame
<1>3. CASE contracts' # contracts
  <2>1. /\ DOMAIN contracts' = DOMAIN contracts \ {local[t].id}
        /\ \A j \in DOMAIN contracts' : contracts'[j] = contracts[j]
        /\ pc'[t] = "unembed" /\ local' = local
    BY <1>0, <1>3, DeleteEffect DEF Goto
  <2>2. CASE i = local[t].id
    BY <2>1, <2>2 DEF Settled
  <2>3. CASE i # local[t].id
    BY <1>0, <1>1, <2>1, <2>3, SettledSame
  <2> QED
    BY <2>2, <2>3
<1> QED
  BY <1>2, <1>3

(* The one request that has the vector of a row stores what the row needs. *)
LEMMA StoreParts ==
  ASSUME IInv, NEW i, Settled(i), NEW t \in Tasks, StoreEmbedding(t)
  PROVE  Settled(i)' \/ Parts(t, i)
<1>0. /\ pc \in [Tasks -> Calls \cup {"idle"}] /\ pc[t] = "embed" /\ pc'[t] = "record"
      /\ contracts' = contracts /\ local' = local
  BY DEF IInv, TypeOK, StoreEmbedding, Goto
<1>1. OthersStay(t)
  BY OneTaskActs DEF Step
<1>2. CASE i # local[t].id
  <2>1. /\ i \in DOMAIN embeddings' <=> i \in DOMAIN embeddings
        /\ i \in DOMAIN embeddings => embeddings'[i] = embeddings[i]
    BY <1>2 DEF StoreEmbedding, Put
  <2> QED
    BY <1>0, <1>1, <1>2, <2>1, SettledSame
<1>3. CASE i = local[t].id /\ i \notin DOMAIN contracts
  BY <1>0, <1>3 DEF Parts
<1>4. CASE i = local[t].id /\ embeddings' = embeddings /\ Faults # {}
  BY <1>0, <1>4 DEF Parts
<1>5. CASE /\ i = local[t].id /\ i \in DOMAIN contracts
           /\ embeddings' = Put(embeddings, i, local[t].vector)
  <2>1. Storers(i) = {t} /\ local[t].vector = VectorOf(contracts[i])
    BY <1>0, <1>5 DEF Settled, Storers
  <2>2. Storers(i)' = {}
    BY <1>0, <1>1, <2>1 DEF Storers, OthersStay
  <2>3. i \in DOMAIN embeddings' /\ embeddings'[i] = local[t].vector
    BY <1>5 DEF Put
  <2> QED
    BY <1>0, <1>5, <2>1, <2>2, <2>3 DEF Settled
<1> QED
  BY <1>2, <1>3, <1>4, <1>5 DEF StoreEmbedding

(* A vector is dropped when its row is gone.                               *)
LEMMA DropParts ==
  ASSUME IInv, LogInv, NEW i, Settled(i), NEW t \in Tasks, DeleteEmbedding(t)
  PROVE  Settled(i)' \/ Parts(t, i)
<1>0. /\ pc \in [Tasks -> Calls \cup {"idle"}] /\ pc[t] = "unembed" /\ pc'[t] = "record"
      /\ contracts' = contracts
  BY DEF IInv, TypeOK, DeleteEmbedding, Goto
<1>1. OthersStay(t)
  BY OneTaskActs DEF Step
<1>2. CASE i # local[t].id
  <2>1. /\ i \in DOMAIN embeddings' <=> i \in DOMAIN embeddings
        /\ i \in DOMAIN embeddings => embeddings'[i] = embeddings[i]
    BY <1>2 DEF DeleteEmbedding, Restrict
  <2> QED
    BY <1>0, <1>1, <1>2, <2>1, SettledSame
<1>3. CASE i = local[t].id /\ embeddings' = embeddings /\ Faults # {}
  BY <1>0, <1>3 DEF Parts
<1>4. CASE i = local[t].id /\ embeddings' = Restrict(embeddings, DOMAIN embeddings \ {i})
  <2>1. Deleting(t)
    BY <1>0 DEF Deleting, IInv, Control, ControlOf
  <2>2. i \notin DOMAIN contracts' /\ i \notin DOMAIN embeddings'
    BY <1>0, <1>4, <2>1 DEF LogInv, DeletedIsGone, Restrict
  <2> QED
    BY <2>2 DEF Settled
<1> QED
  BY <1>2, <1>3, <1>4 DEF DeleteEmbedding

(* Row and vector of a contract part only by a write while another request *)
(* holds a vector of that row or that is refused late, by a vector stored  *)
(* for a row that is gone, or by a vector call that fails or is not        *)
(* reached - whatever the tasks, the requests and the faults.              *)
THEOREM PartingsHaveReasons == Spec => VectorsPartOnlyForAReason
<1> DEFINE Reasons == \A i \in 1..issued' :
             Settled(i) /\ ~Settled(i)' => \E t \in Tasks : Parts(t, i)
<1>1. ASSUME IInv, LogInv, [Next]_vars, NEW i, Settled(i), ~Settled(i)'
      PROVE  \E t \in Tasks : Parts(t, i)
  <2>1. CASE UNCHANGED vars
    <3>1. Storers(i)' = Storers(i)
      BY <2>1 DEF vars, Storers
    <3> QED
      BY <1>1, <2>1, <3>1 DEF vars, Settled, VectorOf
  <2>2. ASSUME NEW t \in Tasks, Begin(t) \/ Step(t) \/ Abort(t)
        PROVE  Parts(t, i)
    BY <1>1, <2>2, QuietParts, InsertParts, UpdateParts, DeleteParts, StoreParts, DropParts
       DEF Step
  <2> QED
    BY <1>1, <2>1, <2>2 DEF Next, NoMoreRequests
<1>2. IInv /\ LogInv /\ [Next]_vars => [Reasons]_vars
  BY <1>1
<1> QED
  BY <1>2, InitInv, LogInit, NextInv, LogStep, PTL DEF Spec, VectorsPartOnlyForAReason

----------------------------------------------------------------------------
(* A near duplicate slips in only for a reason.                            *)

(* Every vector was stored for a contract that had an identifier.          *)
VectorIds == DOMAIN embeddings \subseteq 1..issued

LEMMA VectorIdsStep ==
  ASSUME IInv, LogInv, VectorIds, [Next]_vars
  PROVE  VectorIds'
<1>0. issued \in Nat
  BY DEF IInv, TypeOK
<1>1. 1..issued \subseteq 1..issued'
  <2>1. issued' \in {issued, issued + 1}
    BY DEF Next, Step, vars, tables, Begin, LoadCurrent, ResolveGroup, CheckSimilar, Hydrate,
       InsertContract, UpdateContract, DeleteContract, StoreEmbedding, DeleteEmbedding,
       RecordContract, RecordGroup, Abort, NoMoreRequests, FreshId
  <2> QED
    BY <1>0, <2>1
<1>2. CASE embeddings' = embeddings
  BY <1>1, <1>2 DEF VectorIds
<1>3. ASSUME NEW t \in Tasks, StoreEmbedding(t) PROVE VectorIds'
  <2>1. local[t].id \in 1..issued
    BY <1>3 DEF StoreEmbedding, LogInv, CommittedIds, Committed
  <2> QED
    BY <1>1, <1>3, <2>1 DEF StoreEmbedding, Put, VectorIds
<1>4. ASSUME NEW t \in Tasks, DeleteEmbedding(t) PROVE VectorIds'
  BY <1>1, <1>4 DEF DeleteEmbedding, Restrict, VectorIds
<1> QED
  BY <1>2, <1>3, <1>4, VectorWriters

(* A vector the search leaves out gave way to TopK that are as near.       *)
LEMMA LeftOut ==
  ASSUME IInv, VectorIds, NEW v, NEW S \in Nearest(v), NEW i \in DOMAIN embeddings, i \notin S
  PROVE  Crowded(i, v)
<1> DEFINE stored == DOMAIN embeddings
<1>1. IsFiniteSet(stored)
  <2>1. IsFiniteSet(1..issued)
    BY FS_Interval DEF IInv, TypeOK
  <2> QED
    BY <2>1, FS_Subset DEF VectorIds
<1>2. /\ S \in SUBSET stored
      /\ Cardinality(S) = IF Cardinality(stored) < TopK THEN Cardinality(stored) ELSE TopK
      /\ \A j \in S : Similarity[<<embeddings[i], v>>] <= Similarity[<<embeddings[j], v>>]
  BY DEF Nearest
<1>3. Cardinality(S) # Cardinality(stored)
  BY <1>1, <1>2, FS_Subset
<1>4. Cardinality(S) = TopK
  BY <1>2, <1>3
<1>5. S \in SUBSET (stored \ {i})
  BY <1>2
<1> QED
  BY <1>2, <1>4, <1>5 DEF Crowded

(* What the check has let pass when it goes on to the insert.              *)
LEMMA LetPass ==
  ASSUME IInv, VectorIds, NEW t \in Tasks, CheckSimilar(t), NEW i, Rival(t, i)'
  PROVE  \/ i \notin DOMAIN embeddings
         \/ embeddings[i] # VectorOf(contracts[i])
         \/ Crowded(i, local'[t].vector)
<1> DEFINE r == local[t].req
           v == <<r.key, r.text>>
<1> SUFFICES ASSUME i \in DOMAIN embeddings, embeddings[i] = VectorOf(contracts[i])
             PROVE  Crowded(i, local'[t].vector)
  OBVIOUS
<1>0. /\ pc \in [Tasks -> Calls \cup {"idle"}] /\ local \in [Tasks -> Local]
      /\ contracts' = contracts /\ pc'[t] = "insert"
  BY DEF IInv, TypeOK, CheckSimilar, tables, Rival
<1>1. PICK hits \in Similar(r.project, v) :
        IF ~r.force /\ \E j \in hits : TooSimilar(j, v)
        THEN Goto(t, "hydrate")
        ELSE local' = [local EXCEPT ![t].vector = v]
  BY DEF CheckSimilar
<1>2. local' = [local EXCEPT ![t].vector = v] /\ (r.force \/ \A j \in hits : ~TooSimilar(j, v))
  BY <1>0, <1>1 DEF Goto
<1>3. local'[t].vector = v /\ local'[t].req = r
  BY <1>0, <1>2 DEF Local
<1>4. /\ ~r.force /\ Present(r.project, i)
      /\ Similarity[<<VectorOf(contracts[i]), v>>] >= Threshold
  <2> HIDE DEF v
  <2> QED
    BY <1>0, <1>3 DEF Rival, Present, VectorOf
<1>5. TooSimilar(i, v)
  BY <1>4 DEF TooSimilar
<1>6. PICK S \in Nearest(v) : hits = {j \in S : Present(r.project, j)}
  BY DEF Similar
<1>7. i \notin S
  BY <1>2, <1>4, <1>5, <1>6
<1> QED
  BY <1>3, <1>6, <1>7, LeftOut

(* Why t has a rival at the insert that it did not have before.            *)
Excuse(t, i) ==
  \/ /\ pc[t] = "insert"
     /\ i \notin DOMAIN contracts \/ contracts'[i] # contracts[i]
  \/ /\ pc[t] = "similar"
     /\ \/ i \notin DOMAIN embeddings
        \/ embeddings[i] # VectorOf(contracts[i])
        \/ Crowded(i, local'[t].vector)

LEMMA SlipStep ==
  ASSUME IInv, VectorIds, [Next]_vars, NEW t \in Tasks, NEW i, Rival(t, i)', ~Rival(t, i)
  PROVE  Excuse(t, i)
<1>0. pc \in [Tasks -> Calls \cup {"idle"}] /\ pc'[t] = "insert"
  BY DEF IInv, TypeOK, Rival
<1>1. CASE pc'[t] = pc[t] /\ local'[t] = local[t]
  BY <1>0, <1>1 DEF Rival, Excuse, VectorOf
<1>2. CASE UNCHANGED vars
  BY <1>1, <1>2 DEF vars
<1>3. ASSUME NEW u \in Tasks, u # t, Begin(u) \/ Step(u) \/ Abort(u)
      PROVE  pc'[t] = pc[t] /\ local'[t] = local[t]
  BY <1>3, OneTaskActs DEF OthersStay
<1>4. ~Begin(t)
  <2> SUFFICES ASSUME Begin(t) PROVE FALSE
    OBVIOUS
  <2>1. PICK r \in Requests : Validates(r) /\ pc'[t] = FirstCall(r)
    BY <1>0 DEF Begin
  <2>2. r.op \in {"create", "update", "delete", "create_group"}
    BY <2>1, RequestFacts
  <2> QED
    BY <1>0, <2>1, <2>2 DEF FirstCall
<1>5. Step(t) \/ Abort(t) => CheckSimilar(t)
  BY <1>0 DEF Step, LoadCurrent, ResolveGroup, TakeGroup, Hydrate, InsertContract,
     UpdateContract, DeleteContract, StoreEmbedding, DeleteEmbedding, RecordContract,
     RecordGroup, Abort, Goto, Answer
<1>6. CASE CheckSimilar(t)
  BY <1>6, LetPass DEF Excuse, CheckSimilar
<1> QED
  BY <1>1, <1>2, <1>3, <1>4, <1>5, <1>6 DEF Next, NoMoreRequests

(* Whatever the tasks, the requests, the faults and TopK, a request goes   *)
(* past the duplicate check with a near duplicate in its project only when *)
(* another request writes that contract between check and insert, when the *)
(* contract's vector is missing or stale at the check, or when TopK others *)
(* are as near.                                                            *)
THEOREM SlipsHaveReasons == Spec => DuplicatesSlipInOnlyForAReason
<1> DEFINE Reasons == \A t \in Tasks, i \in DOMAIN contracts' :
             Rival(t, i)' /\ ~Rival(t, i) =>
               \/ /\ pc[t] = "insert"
                  /\ i \notin DOMAIN contracts \/ contracts'[i] # contracts[i]
               \/ /\ pc[t] = "similar"
                  /\ \/ i \notin DOMAIN embeddings
                     \/ embeddings[i] # VectorOf(contracts[i])
                     \/ Crowded(i, local'[t].vector)
<1>1. Init => VectorIds
  BY DEF Init, VectorIds
<1>2. IInv /\ VectorIds /\ [Next]_vars => [Reasons]_vars
  BY SlipStep DEF Excuse
<1>3. IInv /\ LogInv /\ VectorIds /\ [Next]_vars => VectorIds'
  BY VectorIdsStep
<1> QED
  BY <1>1, <1>2, <1>3, InitInv, LogInit, NextInv, LogStep, PTL
     DEF Spec, DuplicatesSlipInOnlyForAReason
=============================================================================
