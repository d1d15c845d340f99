--------------------------- MODULE RegistryProofs ---------------------------
(***************************************************************************)
(* Proofs about the contract registry, for any tasks, projects, requests,  *)
(* similarity and faults: its types, and what holds of the rows and of     *)
(* their groups.                                                           *)
(***************************************************************************)
EXTENDS RegistryProperties, TLAPS

(* What the next call of a task tells about its locals: which use case it  *)
(* runs, that its request has passed validation, and what it has computed. *)
ControlOf(t) ==
  LET r == local[t].req IN
  /\ pc[t] # "idle" => r \in Requests /\ Validates(r)
  /\ pc[t] = "idle" => local[t] = NoLocals
  /\ pc[t] \in {"load", "write"} => r.op = "update"
  /\ pc[t] \in {"similar", "hydrate", "insert"} => r.op = "create"
  /\ pc[t] \in {"delete", "unembed"} => r.op = "delete"
  /\ pc[t] = "group" => r.op \in {"create", "update", "create_group"} /\ r.name \in Names
  /\ pc[t] = "insert" => local[t].vector = <<r.key, r.text>>
  /\ pc[t] = "embed" => r.op \in {"create", "update"} /\ local[t].vector \in Vectors
  /\ pc[t] \in {"record", "recordGroup"} => r.op \in {"create", "update", "delete"}

Control == \A t \in Tasks : ControlOf(t)

(* The values a validated request can hold.                                *)
LEMMA RequestFacts ==
  ASSUME NEW r \in Requests, Validates(r)
  PROVE  /\ r \in Request
         /\ r.project \in Projects /\ r.id \in Nat /\ r.parent \in Nat
         /\ r.op \in {"create", "update", "delete", "create_group"}
         /\ r.op = "create" => r.key \in Keys /\ r.text \in Texts
         /\ r.key = Unset \/ r.key \in Keys
         /\ r.text = Unset \/ r.text \in Texts
         /\ r.op = "create_group" => r.name \in Names
         /\ FirstCall(r) \in Calls
<1>1. r \in Request
  BY ConstantsAssumption DEF ConstantsAssumption
<1>2. r.op = "create" => r.key \in Keys /\ r.text \in Texts
  BY <1>1 DEF Validates, Request
<1>3. r.op = "create_group" => r.name \in Names
  BY <1>1 DEF Validates, Request
<1>4. FirstCall(r) \in Calls
  BY <1>1 DEF FirstCall, Calls, Request
<1>5. QED
  BY <1>1, <1>2, <1>3, <1>4 DEF Request

(* Appending to a table's sequence keeps its type.                         *)
LEMMA AppendType ==
  ASSUME NEW S, NEW s \in Seq(S), NEW e \in S
  PROVE  Append(s, e) \in Seq(S)
OBVIOUS

(* The locals of a task at rest.                                           *)
LEMMA NoLocalsType == NoLocals \in Local
  BY DEF NoLocals, NewLocals, Local, NoId

(* A step that moves one task keeps the control state of all in order when *)
(* it does so for that task.                                               *)
LEMMA OneTaskMoves ==
  ASSUME TypeOK, Control, NEW t \in Tasks, NEW c, NEW l,
         pc' = [pc EXCEPT ![t] = c], local' = [local EXCEPT ![t] = l],
         ControlOf(t)'
  PROVE  Control'
<1> SUFFICES ASSUME NEW u \in Tasks, u # t PROVE ControlOf(u)'
  BY DEF Control
<1>1. pc'[u] = pc[u] /\ local'[u] = local[u]
  BY DEF TypeOK
<1>2. ControlOf(u)
  BY DEF Control
<1> QED
  BY <1>1, <1>2 DEF ControlOf, Validates

(* The part of TypeOK about the tables.                                    *)
TablesOK ==
  /\ DOMAIN contracts \subseteq 1..issued
  /\ \A i \in DOMAIN contracts : contracts[i] \in Row
  /\ DOMAIN embeddings \subseteq Nat
  /\ \A i \in DOMAIN embeddings : embeddings[i] \in Vectors
  /\ groups \in Seq(Group)
  /\ audit \in Seq(Event)
  /\ issued \in Nat
  /\ budget \in Nat

IInv == TypeOK /\ Control

(* A step that answers keeps the invariant if it keeps the tables' types.  *)
LEMMA AnswerInv ==
  ASSUME IInv, TablesOK', NEW t \in Tasks, NEW outcome \in Replies, Answer(t, outcome)
  PROVE  IInv'
<1>1. /\ pc' \in [Tasks -> Calls \cup {"idle"}]
      /\ local' \in [Tasks -> Local]
      /\ reply' \in [Tasks -> Replies]
  BY NoLocalsType DEF Answer, IInv, TypeOK
<1>2. ControlOf(t)'
  BY DEF Answer, IInv, TypeOK, ControlOf
<1> QED
  BY <1>1, <1>2, OneTaskMoves DEF Answer, IInv, TypeOK, TablesOK

(* So does one that goes on to the next call with locals l.                *)
LEMMA GotoInv ==
  ASSUME IInv, TablesOK', NEW t \in Tasks, NEW c \in Calls, NEW l \in Local,
         Goto(t, c), local' = [local EXCEPT ![t] = l], ControlOf(t)'
  PROVE  IInv'
<1>1. /\ pc' \in [Tasks -> Calls \cup {"idle"}]
      /\ local' \in [Tasks -> Local]
      /\ reply' \in [Tasks -> Replies]
  BY DEF Goto, IInv, TypeOK
<1> QED
  BY <1>1, OneTaskMoves DEF Goto, IInv, TypeOK, TablesOK

(* The control state of the acting task, and the values of its request.    *)
LEMMA TaskFacts ==
  ASSUME IInv, NEW t \in Tasks, pc[t] # "idle"
  PROVE  /\ TypeOK /\ Control /\ ControlOf(t)
         /\ local[t] \in Local
         /\ local[t].req \in Requests /\ Validates(local[t].req)
BY DEF IInv, TypeOK, Control, ControlOf

(* A request that arrives has passed validation, and its task starts with  *)
(* locals of its own.                                                      *)
LEMMA BeginInv ==
  ASSUME IInv, NEW t \in Tasks, Begin(t)
  PROVE  IInv'
<1>1. PICK r \in Requests :
        /\ Validates(r)
        /\ pc' = [pc EXCEPT ![t] = FirstCall(r)]
        /\ local' = [local EXCEPT ![t] = NewLocals(r, r.id)]
  BY DEF Begin
<1>2. r \in Request /\ r.id \in Nat /\ FirstCall(r) \in Calls
  BY <1>1, RequestFacts
<1>3. NewLocals(r, r.id) \in Local
  BY <1>2 DEF NewLocals, Local, NoId
<1>4. /\ pc' \in [Tasks -> Calls \cup {"idle"}]
      /\ local' \in [Tasks -> Local]
      /\ reply' \in [Tasks -> Replies]
  BY <1>1, <1>2, <1>3 DEF IInv, TypeOK, Begin, Replies
<1>5. ControlOf(t)'
  <2>1. local'[t].req = r /\ pc'[t] = FirstCall(r)
    BY <1>1 DEF IInv, TypeOK, NewLocals
  <2>2. r.op = "create_group" => r.name \in Names
    BY <1>1 DEF Validates
  <2> QED
    BY <1>1, <1>2, <2>1, <2>2 DEF ControlOf, Validates, FirstCall, Request
<1>6. Control'
  BY <1>1, <1>5, OneTaskMoves DEF IInv
<1>7. TablesOK'
  BY DEF IInv, TypeOK, TablesOK, Begin, tables
<1> QED
  BY <1>4, <1>6, <1>7 DEF IInv, TypeOK, TablesOK

(* Update: the row it loads and the group it carries over are typed.       *)
LEMMA LoadCurrentInv ==
  ASSUME IInv, NEW t \in Tasks, LoadCurrent(t)
  PROVE  IInv'
<1> DEFINE r == local[t].req
           i == local[t].id
           g == IF r.name = Unset THEN contracts[i].group ELSE NoId
           l == [local[t] EXCEPT !.seen = contracts[i], !.group = g]
<1>1. TablesOK'
  BY DEF IInv, TypeOK, TablesOK, LoadCurrent, tables
<1>2. pc[t] = "load" /\ ControlOf(t) /\ TypeOK /\ Control
  BY DEF LoadCurrent, IInv, Control
<1>3. r \in Requests /\ Validates(r) /\ r.op = "update"
  BY <1>2 DEF ControlOf
<1>4. CASE Present(r.project, i) /\ local' = [local EXCEPT ![t] = l]
           /\ Goto(t, IF r.name \in Names THEN "group" ELSE "write")
  <2>1. contracts[i] \in Row /\ local[t] \in Local
    BY <1>2, <1>4 DEF TypeOK, Present
  <2>2. l \in Local
    BY <2>1 DEF Local, Row, NoId
  <2>3. pc'[t] = (IF r.name \in Names THEN "group" ELSE "write") /\ local'[t].req = r
    BY <1>2, <1>4, <2>1 DEF Goto, TypeOK, Local
  <2>4. ControlOf(t)'
    BY <1>3, <2>3 DEF ControlOf, Validates
  <2> QED
    BY <1>1, <1>4, <2>2, <2>4, GotoInv DEF Calls
<1>5. CASE Answer(t, "not_found")
  BY <1>1, <1>5, AnswerInv DEF Replies, Refusals
<1> QED
  BY <1>4, <1>5 DEF LoadCurrent

(* Found or made, the group a task takes is typed; so is the new row of    *)
(* the table.                                                              *)
LEMMA ResolveGroupInv ==
  ASSUME IInv, NEW t \in Tasks, ResolveGroup(t)
  PROVE  IInv'
<1> DEFINE r == local[t].req
           parent == IF r.op = "update" THEN NoId ELSE r.parent
           row == [project |-> r.project, name |-> r.name, parent |-> parent]
<1>1. /\ pc[t] = "group" /\ TypeOK /\ ControlOf(t) /\ local[t] \in Local
      /\ r \in Requests /\ Validates(r)
  BY TaskFacts DEF ResolveGroup
<1>2. r.op \in {"create", "update", "create_group"} /\ r.name \in Names
  BY <1>1 DEF ControlOf
<1>3. row \in Group
  BY <1>1, <1>2, RequestFacts DEF Group, NoId
<1>4. groups' = groups \/ groups' = Append(groups, row)
  BY DEF ResolveGroup
<1>5. TablesOK'
  <2>1. groups' \in Seq(Group)
    BY <1>1, <1>3, <1>4, AppendType DEF TypeOK
  <2> QED
    BY <1>1, <2>1 DEF TypeOK, TablesOK, ResolveGroup
<1>6. ASSUME NEW g \in Nat, NEW created \in BOOLEAN, TakeGroup(t, g, created)
      PROVE  IInv'
  <2>1. CASE r.op = "create_group"
    BY <1>5, <1>6, <2>1, AnswerInv DEF TakeGroup, Replies, Successes
  <2>2. CASE r.op # "create_group"
    <3> DEFINE l == [local[t] EXCEPT !.group = g, !.made = created]
               c == IF r.op = "create" THEN "similar" ELSE "write"
    <3>1. l \in Local /\ local' = [local EXCEPT ![t] = l] /\ Goto(t, c)
      BY <1>1, <1>6, <2>2 DEF TakeGroup, Local
    <3>2. pc'[t] = c /\ local'[t].req = r
      BY <1>1, <3>1 DEF Goto, TypeOK, Local
    <3>3. ControlOf(t)'
      BY <1>1, <1>2, <2>2, <3>2 DEF ControlOf, Validates
    <3> QED
      BY <1>5, <3>1, <3>3, GotoInv DEF Calls
  <2> QED
    BY <2>1, <2>2
<1>7. CASE \E g \in GroupNamed(r.project, r.name) : TakeGroup(t, g, FALSE)
  <2>1. PICK g \in DOMAIN groups : TakeGroup(t, g, FALSE)
    BY <1>7 DEF GroupNamed
  <2>2. g \in Nat
    BY <1>1, <2>1 DEF TypeOK
  <2> QED
    BY <1>6, <2>1, <2>2
<1>8. CASE TakeGroup(t, Len(groups) + 1, TRUE)
  <2>1. Len(groups) + 1 \in Nat
    BY <1>1 DEF TypeOK
  <2> QED
    BY <1>6, <1>8, <2>1
<1>9. CASE Answer(t, "internal")
  BY <1>5, <1>9, AnswerInv DEF Replies, Refusals
<1> QED
  BY <1>7, <1>8, <1>9 DEF ResolveGroup

(* Create: the vector it computes and the neighbours it keeps are typed.   *)
LEMMA CheckSimilarInv ==
  ASSUME IInv, NEW t \in Tasks, CheckSimilar(t)
  PROVE  IInv'
<1> DEFINE r == local[t].req
           v == <<r.key, r.text>>
<1>1. /\ pc[t] = "similar" /\ TypeOK /\ ControlOf(t) /\ local[t] \in Local
      /\ r \in Requests /\ Validates(r) /\ r.op = "create"
  BY TaskFacts DEF CheckSimilar, ControlOf
<1>2. v \in Vectors
  BY <1>1, RequestFacts DEF Vectors
<1>3. TablesOK'
  BY <1>1 DEF TypeOK, TablesOK, CheckSimilar, tables
<1>4. PICK hits \in Similar(r.project, v) :
        \/ local' = [local EXCEPT ![t].hits = hits] /\ Goto(t, "hydrate")
        \/ local' = [local EXCEPT ![t].vector = v] /\ Goto(t, "insert")
  BY DEF CheckSimilar
<1>5. hits \in SUBSET Nat
  BY <1>1 DEF Similar, Nearest, TypeOK
<1>6. CASE local' = [local EXCEPT ![t].hits = hits] /\ Goto(t, "hydrate")
  <2> DEFINE l == [local[t] EXCEPT !.hits = hits]
  <2>1. l \in Local /\ local' = [local EXCEPT ![t] = l]
    BY <1>1, <1>5, <1>6 DEF Local
  <2>2. ControlOf(t)'
    BY <1>1, <1>6, <2>1 DEF ControlOf, Validates, Goto, TypeOK, Local
  <2> QED
    BY <1>3, <1>6, <2>1, <2>2, GotoInv DEF Calls
<1>7. CASE local' = [local EXCEPT ![t].vector = v] /\ Goto(t, "insert")
  <2> DEFINE l == [local[t] EXCEPT !.vector = v]
  <2>1. l \in Local /\ local' = [local EXCEPT ![t] = l]
    BY <1>1, <1>2, <1>7 DEF Local
  <2>2. ControlOf(t)'
    BY <1>1, <1>7, <2>1 DEF ControlOf, Validates, Goto, TypeOK, Local
  <2> QED
    BY <1>3, <1>7, <2>1, <2>2, GotoInv DEF Calls
<1> QED
  BY <1>4, <1>6, <1>7

(* Create: reading the neighbours changes no table and ends the request.   *)
LEMMA HydrateInv ==
  ASSUME IInv, NEW t \in Tasks, Hydrate(t)
  PROVE  IInv'
<1>1. /\ pc[t] = "hydrate" /\ TypeOK /\ Control /\ ControlOf(t) /\ local[t] \in Local
  BY TaskFacts DEF Hydrate
<1>2. TablesOK'
  BY <1>1 DEF TypeOK, TablesOK, Hydrate, tables
<1>3. ASSUME NEW i \in local[t].hits,
             local' = [local EXCEPT ![t].hits = @ \ {i}], UNCHANGED <<pc, reply>>
      PROVE  IInv'
  <2> DEFINE l == [local[t] EXCEPT !.hits = @ \ {i}]
  <2>1. l \in Local /\ local' = [local EXCEPT ![t] = l]
    BY <1>1, <1>3 DEF Local
  <2>2. pc'[t] = pc[t] /\ local'[t].req = local[t].req
    BY <1>1, <1>3, <2>1 DEF TypeOK, Local
  <2>3. ControlOf(t)'
    BY <1>1, <2>2 DEF ControlOf, Validates
  <2>4. Goto(t, "hydrate")
    BY <1>1, <1>3 DEF Goto, TypeOK
  <2> QED
    BY <1>2, <2>1, <2>3, <2>4, GotoInv DEF Calls
<1>4. CASE Answer(t, "similar") \/ Answer(t, "not_found")
  BY <1>2, <1>4, AnswerInv DEF Replies, Refusals
<1> QED
  BY <1>3, <1>4 DEF Hydrate

(* Create: a validated request makes a typed row with a fresh identifier.  *)
LEMMA InsertContractInv ==
  ASSUME IInv, NEW t \in Tasks, InsertContract(t)
  PROVE  IInv'
<1> DEFINE r == local[t].req
           new == issued + 1
           row == [project |-> r.project, group |-> local[t].group,
                   key |-> r.key, text |-> r.text]
           l == [local[t] EXCEPT !.id = new]
<1>1. /\ pc[t] = "insert" /\ TypeOK /\ ControlOf(t) /\ local[t] \in Local
      /\ r \in Requests /\ Validates(r) /\ r.op = "create"
      /\ local[t].vector = <<r.key, r.text>>
  BY TaskFacts DEF InsertContract, ControlOf
<1>2. row \in Row /\ local[t].vector \in Vectors
  BY <1>1, RequestFacts DEF Row, Local, Vectors
<1>3. CASE Answer(t, "duplicate") /\ UNCHANGED <<contracts, issued>>
  <2>1. TablesOK'
    BY <1>1, <1>3 DEF TypeOK, TablesOK, InsertContract
  <2> QED
    BY <1>3, <2>1, AnswerInv DEF Replies, Refusals
<1>4. CASE /\ contracts' = Put(contracts, new, row)
           /\ issued' = new
           /\ local' = [local EXCEPT ![t].id = new]
           /\ Goto(t, "embed")
  <2>1. /\ DOMAIN contracts' = DOMAIN contracts \cup {new}
        /\ \A i \in DOMAIN contracts' :
             contracts'[i] = IF i = new THEN row ELSE contracts[i]
    BY <1>4 DEF Put
  <2>2. DOMAIN contracts' \subseteq 1..issued'
    BY <1>1, <1>4, <2>1 DEF TypeOK
  <2>3. \A i \in DOMAIN contracts' : contracts'[i] \in Row
    BY <1>1, <1>2, <2>1 DEF TypeOK
  <2>4. TablesOK'
    BY <1>1, <1>4, <2>2, <2>3 DEF TypeOK, TablesOK, InsertContract
  <2>5. l \in Local /\ local' = [local EXCEPT ![t] = l]
    <3>1. new \in Nat
      BY <1>1 DEF TypeOK
    <3>2. l \in Local
      BY <1>1, <3>1 DEF Local
    <3> QED
      BY <1>4, <3>2
  <2>6. pc'[t] = "embed" /\ local'[t].req = r /\ local'[t].vector = local[t].vector
    BY <1>1, <1>4, <2>5 DEF Goto, TypeOK, Local
  <2>7. ControlOf(t)'
    BY <1>1, <1>2, <2>6 DEF ControlOf, Validates
  <2> QED
    BY <1>4, <2>4, <2>5, <2>7, GotoInv DEF Calls
<1> QED
  BY <1>3, <1>4 DEF InsertContract, FreshId

(* Update: the merged row is typed, because the stored one and the request *)
(* are.                                                                    *)
LEMMA UpdateContractInv ==
  ASSUME IInv, NEW t \in Tasks, UpdateContract(t)
  PROVE  IInv'
<1> DEFINE r == local[t].req
           i == local[t].id
           row == Merged(t)
           c == IF AffectsEmbedding(r) THEN "embed" ELSE "record"
           l == [local[t] EXCEPT !.vector = VectorOf(row)]
<1>1. /\ pc[t] = "write" /\ TypeOK /\ ControlOf(t) /\ local[t] \in Local
      /\ r \in Requests /\ Validates(r) /\ r.op = "update"
  BY TaskFacts DEF UpdateContract, ControlOf
<1>2. CASE UNCHANGED contracts /\ \E o \in {"not_found", "internal"} : Answer(t, o)
  <2>1. TablesOK'
    BY <1>1, <1>2 DEF TypeOK, TablesOK, UpdateContract
  <2> QED
    BY <1>2, <2>1, AnswerInv DEF Replies, Refusals
<1>3. CASE /\ Present(r.project, i)
           /\ contracts' = [contracts EXCEPT ![i] = row]
           /\ \/ Answer(t, "validation")
              \/ local' = [local EXCEPT ![t].vector = VectorOf(row)] /\ Goto(t, c)
  <2>1. contracts[i] \in Row /\ i \in DOMAIN contracts
    BY <1>1, <1>3 DEF TypeOK, Present
  <2>2. row \in Row
    BY <1>1, <2>1, RequestFacts DEF Merged, Patched, Row, Local
  <2>3. VectorOf(row) \in Vectors
    BY <2>2 DEF VectorOf, Vectors, Row
  <2>4. TablesOK'
    BY <1>1, <1>3, <2>2 DEF TypeOK, TablesOK, UpdateContract
  <2>5. CASE Answer(t, "validation")
    BY <2>4, <2>5, AnswerInv DEF Replies, Refusals
  <2>6. CASE local' = [local EXCEPT ![t].vector = VectorOf(row)] /\ Goto(t, c)
    <3> HIDE DEF row
    <3>1. l \in Local /\ local' = [local EXCEPT ![t] = l]
      BY <1>1, <2>3, <2>6 DEF Local
    <3>2. /\ pc'[t] = c /\ local'[t].req = r /\ local'[t].vector \in Vectors
      BY <1>1, <2>3, <2>6, <3>1 DEF Goto, TypeOK, Local
    <3>3. ControlOf(t)'
      BY <1>1, <3>2 DEF ControlOf, Validates
    <3> QED
      BY <2>4, <2>6, <3>1, <3>3, GotoInv DEF Calls
  <2> QED
    BY <1>3, <2>5, <2>6
<1> QED
  BY <1>2, <1>3 DEF UpdateContract

(* The vector a task stores is one it has computed.                        *)
LEMMA StoreEmbeddingInv ==
  ASSUME IInv, NEW t \in Tasks, StoreEmbedding(t)
  PROVE  IInv'
<1> DEFINE i == local[t].id
           v == local[t].vector
<1>1. /\ pc[t] = "embed" /\ TypeOK /\ ControlOf(t) /\ local[t] \in Local
      /\ local[t].req.op \in {"create", "update"} /\ v \in Vectors /\ i \in Nat
  BY TaskFacts DEF StoreEmbedding, ControlOf, Local
<1>2. /\ DOMAIN embeddings' \subseteq Nat
      /\ \A j \in DOMAIN embeddings' : embeddings'[j] \in Vectors
  <2>1. CASE UNCHANGED embeddings
    BY <1>1, <2>1 DEF TypeOK
  <2>2. CASE embeddings' = Put(embeddings, i, v)
    <3>1. /\ DOMAIN embeddings' = DOMAIN embeddings \cup {i}
          /\ \A j \in DOMAIN embeddings' :
               embeddings'[j] = IF j = i THEN v ELSE embeddings[j]
      BY <2>2 DEF Put
    <3> QED
      BY <1>1, <3>1 DEF TypeOK
  <2> QED
    BY <2>1, <2>2 DEF StoreEmbedding
<1>3. TablesOK'
  BY <1>1, <1>2 DEF TypeOK, TablesOK, StoreEmbedding
<1>4. Goto(t, "record") /\ local' = [local EXCEPT ![t] = local[t]]
  BY <1>1 DEF StoreEmbedding, TypeOK
<1>5. pc'[t] = "record" /\ local'[t] = local[t]
  BY <1>1, <1>4 DEF Goto, TypeOK
<1>6. ControlOf(t)'
  BY <1>1, <1>5 DEF ControlOf, Validates
<1> QED
  BY <1>1, <1>3, <1>4, <1>6, GotoInv DEF Calls

(* Delete: a table without one row is a table.                             *)
LEMMA DeleteContractInv ==
  ASSUME IInv, NEW t \in Tasks, DeleteContract(t)
  PROVE  IInv'
<1>1. /\ pc[t] = "delete" /\ TypeOK /\ ControlOf(t) /\ local[t] \in Local
  BY TaskFacts DEF DeleteContract
<1>2. TablesOK'
  BY <1>1 DEF TypeOK, TablesOK, DeleteContract, Restrict
<1>3. CASE Answer(t, "not_found")
  BY <1>2, <1>3, AnswerInv DEF Replies, Refusals
<1>4. CASE Goto(t, "unembed") /\ UNCHANGED local
  <2>1. pc'[t] = "unembed" /\ local'[t] = local[t] /\ local' = [local EXCEPT ![t] = local[t]]
    BY <1>1, <1>4 DEF Goto, TypeOK
  <2>2. ControlOf(t)'
    BY <1>1, <2>1 DEF ControlOf, Validates
  <2> QED
    BY <1>1, <1>2, <1>4, <2>1, <2>2, GotoInv DEF Calls
<1> QED
  BY <1>3, <1>4 DEF DeleteContract

(* Delete: vectors without one vector are vectors.                         *)
LEMMA DeleteEmbeddingInv ==
  ASSUME IInv, NEW t \in Tasks, DeleteEmbedding(t)
  PROVE  IInv'
<1>1. /\ pc[t] = "unembed" /\ TypeOK /\ ControlOf(t) /\ local[t] \in Local
  BY TaskFacts DEF DeleteEmbedding
<1>2. TablesOK'
  BY <1>1 DEF TypeOK, TablesOK, DeleteEmbedding, Restrict
<1>3. /\ Goto(t, "record") /\ local' = [local EXCEPT ![t] = local[t]]
      /\ pc'[t] = "record" /\ local'[t] = local[t]
  BY <1>1 DEF DeleteEmbedding, Goto, TypeOK
<1>4. ControlOf(t)'
  BY <1>1, <1>3 DEF ControlOf, Validates
<1> QED
  BY <1>1, <1>2, <1>3, <1>4, GotoInv DEF Calls

(* An audit entry about an existing operation has the type of one.         *)
LEMMA EventTypes ==
  ASSUME IInv, NEW t \in Tasks, pc[t] \in {"record", "recordGroup"}
  PROVE  /\ ContractEvent(t) \in Event /\ GroupEvent(t) \in Event
         /\ SuccessOf(local[t].req.op) \in Replies
<1>1. ControlOf(t) /\ local[t] \in Local
  BY TaskFacts
<1>2. local[t].req.op \in {"create", "update", "delete"}
  BY <1>1 DEF ControlOf
<1>3. local[t].id \in Nat /\ local[t].group \in Nat
  BY <1>1 DEF Local
<1> QED
  BY <1>2, <1>3 DEF ContractEvent, GroupEvent, Event, SuccessOf, Replies, Successes

(* Appending the entry of a contract keeps the log typed.                  *)
LEMMA RecordContractInv ==
  ASSUME IInv, NEW t \in Tasks, RecordContract(t)
  PROVE  IInv'
<1>1. /\ pc[t] = "record" /\ TypeOK /\ ControlOf(t) /\ local[t] \in Local
      /\ ContractEvent(t) \in Event /\ SuccessOf(local[t].req.op) \in Replies
  BY TaskFacts, EventTypes DEF RecordContract
<1>2. audit' \in Seq(Event)
  BY <1>1, AppendType DEF RecordContract, TypeOK
<1>3. TablesOK'
  BY <1>1, <1>2 DEF TypeOK, TablesOK, RecordContract
<1>4. CASE Goto(t, "recordGroup") /\ UNCHANGED local
  <2>1. /\ local' = [local EXCEPT ![t] = local[t]]
        /\ pc'[t] = "recordGroup" /\ local'[t] = local[t]
    BY <1>1, <1>4 DEF Goto, TypeOK
  <2>2. ControlOf(t)'
    BY <1>1, <2>1 DEF ControlOf, Validates
  <2> QED
    BY <1>1, <1>3, <1>4, <2>1, <2>2, GotoInv DEF Calls
<1>5. CASE Answer(t, SuccessOf(local[t].req.op))
  BY <1>1, <1>3, <1>5, AnswerInv
<1> QED
  BY <1>4, <1>5 DEF RecordContract

(* Appending the entry of a group keeps the log typed.                     *)
LEMMA RecordGroupInv ==
  ASSUME IInv, NEW t \in Tasks, RecordGroup(t)
  PROVE  IInv'
<1>1. /\ pc[t] = "recordGroup" /\ TypeOK
      /\ GroupEvent(t) \in Event /\ SuccessOf(local[t].req.op) \in Replies
  BY TaskFacts, EventTypes DEF RecordGroup
<1>2. audit' \in Seq(Event)
  BY <1>1, AppendType DEF RecordGroup, TypeOK
<1>3. TablesOK'
  BY <1>1, <1>2 DEF TypeOK, TablesOK, RecordGroup
<1> QED
  BY <1>1, <1>3, AnswerInv DEF RecordGroup

(* A lost task leaves the tables and forgets its locals.                   *)
LEMMA AbortInv ==
  ASSUME IInv, NEW t \in Tasks, Abort(t)
  PROVE  IInv'
<1>1. TablesOK'
  BY DEF IInv, TypeOK, TablesOK, Abort, tables
<1> QED
  BY <1>1, AnswerInv DEF Abort, Replies

(* The empty database and tasks at rest satisfy the invariant.             *)
LEMMA InitInv == Init => IInv
<1> SUFFICES ASSUME Init PROVE IInv
  OBVIOUS
<1>1. TypeOK
  BY NoLocalsType, ConstantsAssumption DEF Init, TypeOK, Replies, ConstantsAssumption
<1>2. Control
  BY DEF Init, Control, ControlOf
<1> QED
  BY <1>1, <1>2 DEF IInv

(* Every step keeps the inductive invariant.                               *)
LEMMA NextInv ==
  ASSUME IInv, [Next]_vars
  PROVE  IInv'
<1>1. ASSUME NEW t \in Tasks, Begin(t) \/ Step(t) \/ Abort(t)
      PROVE  IInv'
  BY <1>1, BeginInv, LoadCurrentInv, ResolveGroupInv, CheckSimilarInv, HydrateInv,
     InsertContractInv, UpdateContractInv, DeleteContractInv, StoreEmbeddingInv,
     DeleteEmbeddingInv, RecordContractInv, RecordGroupInv, AbortInv DEF Step
<1>2. CASE UNCHANGED vars
  BY <1>2 DEF IInv, TypeOK, Control, ControlOf, Validates, vars
<1> QED
  BY <1>1, <1>2 DEF Next, NoMoreRequests

(* The tables and the locals of every task keep their types, in every      *)
(* interleaving of any number of requests.                                 *)
THEOREM TypeCorrect == Spec => []TypeOK
<1>1. Init => IInv
  BY InitInv
<1>2. IInv /\ [Next]_vars => IInv'
  BY NextInv
<1>3. IInv => TypeOK
  BY DEF IInv
<1> QED
  BY <1>1, <1>2, <1>3, PTL DEF Spec

----------------------------------------------------------------------------
(* Safety: who writes the contracts, unique keys, groups.                  *)

(* Only three calls write the contracts table.                             *)
LEMMA ContractWriters ==
  ASSUME [Next]_vars, contracts' # contracts
  PROVE  \E t \in Tasks : InsertContract(t) \/ UpdateContract(t) \/ DeleteContract(t)
BY DEF Next, Step, vars, tables, Begin, LoadCurrent, ResolveGroup, CheckSimilar, Hydrate,
       StoreEmbedding, DeleteEmbedding, RecordContract, RecordGroup, Abort, NoMoreRequests

(* What those calls make of the table.                                     *)
LEMMA InsertEffect ==
  ASSUME IInv, NEW t \in Tasks, InsertContract(t), contracts' # contracts
  PROVE  LET r == local[t].req IN
         /\ issued' = issued + 1 /\ issued + 1 \notin DOMAIN contracts
         /\ ~KeyTaken(r.project, r.key, NoId)
         /\ contracts' = Put(contracts, issued + 1,
              [project |-> r.project, group |-> local[t].group,
               key |-> r.key, text |-> r.text])
         /\ local' = [local EXCEPT ![t].id = issued + 1]
         /\ Goto(t, "embed")
BY DEF InsertContract, FreshId, IInv, TypeOK

(* An update replaces one row of its project by a row whose key no other   *)
(* row has.                                                                *)
LEMMA UpdateEffect ==
  ASSUME IInv, NEW t \in Tasks, UpdateContract(t), contracts' # contracts
  PROVE  LET r == local[t].req
             i == local[t].id IN
         /\ i \in DOMAIN contracts /\ contracts[i].project = r.project
         /\ ~KeyTaken(r.project, Merged(t).key, i)
         /\ contracts' = [contracts EXCEPT ![i] = Merged(t)]
         /\ Merged(t).project = r.project /\ Merged(t).group = local[t].group
BY DEF UpdateContract, Present, Merged, Patched

(* A delete removes one row of its project and leaves the others as they   *)
(* are.                                                                    *)
LEMMA DeleteEffect ==
  ASSUME NEW t \in Tasks, DeleteContract(t), contracts' # contracts
  PROVE  LET i == local[t].id IN
         /\ i \in DOMAIN contracts /\ contracts[i].project = local[t].req.project
         /\ DOMAIN contracts' = DOMAIN contracts \ {i}
         /\ \A j \in DOMAIN contracts' : contracts'[j] = contracts[j]
         /\ Goto(t, "unembed") /\ UNCHANGED local
BY DEF DeleteContract, Present, Restrict

----------------------------------------------------------------------------
(* Inserts and updates check the unique index in the call that writes.     *)
LEMMA UniqueKeysStep ==
  ASSUME IInv, UniqueKeys, [Next]_vars
  PROVE  UniqueKeys'
<1>1. CASE contracts' = contracts
  BY <1>1 DEF UniqueKeys
<1>2. ASSUME NEW t \in Tasks, InsertContract(t), contracts' # contracts
      PROVE  UniqueKeys'
  <2>1. ~KeyTaken(local[t].req.project, local[t].req.key, NoId)
    BY <1>2, InsertEffect
  <2>2. \A i \in DOMAIN contracts : i # NoId
    BY DEF IInv, TypeOK, NoId
  <2> QED
    BY <1>2, <2>1, <2>2, InsertEffect DEF UniqueKeys, KeyTaken, Put
<1>3. ASSUME NEW t \in Tasks, UpdateContract(t), contracts' # contracts
      PROVE  UniqueKeys'
  <2> DEFINE i == local[t].id
  <2>1. /\ i \in DOMAIN contracts
        /\ ~KeyTaken(local[t].req.project, Merged(t).key, i)
        /\ contracts' = [contracts EXCEPT ![i] = Merged(t)]
        /\ Merged(t).project = local[t].req.project
    BY <1>3, UpdateEffect
  <2>2. DOMAIN contracts' = DOMAIN contracts /\ contracts'[i] = Merged(t)
    BY <2>1
  <2>3. \A j \in DOMAIN contracts \ {i} :
          /\ contracts'[j] = contracts[j]
          /\ ~(contracts[j].project = Merged(t).project /\ contracts[j].key = Merged(t).key)
    BY <2>1 DEF KeyTaken
  <2>4. ASSUME NEW j \in DOMAIN contracts', NEW k \in DOMAIN contracts',
               contracts'[j].project = contracts'[k].project,
               contracts'[j].key = contracts'[k].key
        PROVE  j = k
    <3>1. CASE j = i /\ k # i
      BY <2>2, <2>3, <2>4, <3>1
    <3>2. CASE j # i /\ k = i
      BY <2>2, <2>3, <2>4, <3>2
    <3>3. CASE j # i /\ k # i
      BY <2>2, <2>3, <2>4, <3>3 DEF UniqueKeys
    <3> QED
      BY <3>1, <3>2, <3>3
  <2> QED
    BY <2>4 DEF UniqueKeys
<1>4. ASSUME NEW t \in Tasks, DeleteContract(t), contracts' # contracts
      PROVE  UniqueKeys'
  <2>1. /\ DOMAIN contracts' \subseteq DOMAIN contracts
        /\ \A j \in DOMAIN contracts' : contracts'[j] = contracts[j]
    BY <1>4, DeleteEffect
  <2> QED
    BY <2>1 DEF UniqueKeys
<1> QED
  BY <1>1, <1>2, <1>3, <1>4, ContractWriters

(* No interleaving of creates and updates gives two contracts of a project *)
(* the same method and path.                                               *)
THEOREM KeysAreUnique == Spec => []UniqueKeys
<1>1. Init => IInv /\ UniqueKeys
  BY InitInv DEF Init, UniqueKeys
<1>2. (IInv /\ UniqueKeys) /\ [Next]_vars => (IInv /\ UniqueKeys)'
  BY NextInv, UniqueKeysStep
<1> QED
  BY <1>1, <1>2, PTL DEF Spec

(* A deleted contract never comes back, and no id is handed out twice.     *)
THEOREM DeletedStaysDeleted == Spec => NoResurrection
<1> DEFINE Stays == \A i \in 1..issued : i \notin DOMAIN contracts => i \notin DOMAIN contracts'
<1>1. IInv /\ [Next]_vars => Stays
  <2> SUFFICES ASSUME IInv, [Next]_vars PROVE Stays
    OBVIOUS
  <2>1. ASSUME NEW t \in Tasks, InsertContract(t), contracts' # contracts PROVE Stays
    <3>1. DOMAIN contracts' = DOMAIN contracts \cup {issued + 1} /\ issued \in Nat
      BY <2>1, InsertEffect DEF Put, IInv, TypeOK
    <3> QED
      BY <3>1
  <2>2. ASSUME NEW t \in Tasks, UpdateContract(t), contracts' # contracts PROVE Stays
    BY <2>2, UpdateEffect
  <2>3. ASSUME NEW t \in Tasks, DeleteContract(t), contracts' # contracts PROVE Stays
    BY <2>3, DeleteEffect
  <2> QED
    BY <2>1, <2>2, <2>3, ContractWriters
<1>2. IInv /\ [Next]_vars => [Stays]_vars
  BY <1>1
<1> QED
  BY <1>2, InitInv, NextInv, PTL DEF Spec, NoResurrection

----------------------------------------------------------------------------
(* Groups: what a task has resolved or read is a group of its project.     *)
KnownGroup(g, p) == g # NoId => g \in DOMAIN groups /\ groups[g].project = p

(* The same after the step.                                                *)
KnownLater(g, p) == g # NoId => g \in DOMAIN groups' /\ groups'[g].project = p

ResolvedGroups ==
  \A t \in Tasks : pc[t] # "idle" => KnownGroup(local[t].group, local[t].req.project)

GroupInv == GroupsStayInProject /\ ResolvedGroups

(* Groups are only ever added.                                             *)
LEMMA GroupsGrow ==
  ASSUME IInv, [Next]_vars
  PROVE  \A g, p : KnownGroup(g, p) => KnownLater(g, p)
<1>1. CASE groups' = groups
  BY <1>1 DEF KnownGroup, KnownLater
<1>2. ASSUME NEW t \in Tasks, ResolveGroup(t), groups' # groups
      PROVE  \A g, p : KnownGroup(g, p) => KnownLater(g, p)
  <2>1. PICK row : groups' = Append(groups, row)
    BY <1>2 DEF ResolveGroup
  <2>2. \A g \in DOMAIN groups : g \in DOMAIN groups' /\ groups'[g] = groups[g]
    BY <2>1 DEF IInv, TypeOK
  <2> QED
    BY <2>2 DEF KnownGroup, KnownLater
<1>3. groups' # groups => \E t \in Tasks : ResolveGroup(t)
  BY DEF Next, Step, vars, tables, Begin, LoadCurrent, CheckSimilar, Hydrate,
       InsertContract, UpdateContract, DeleteContract,
       StoreEmbedding, DeleteEmbedding, RecordContract, RecordGroup, Abort, NoMoreRequests
<1> QED
  BY <1>1, <1>2, <1>3

(* A step that leaves a task's request and group alone, or answers.        *)
LEMMA SameGroup ==
  ASSUME IInv, ResolvedGroups, [Next]_vars, NEW t \in Tasks,
         \/ pc'[t] = "idle"
         \/ /\ pc[t] # "idle" /\ local'[t].req = local[t].req
            /\ local'[t].group = local[t].group
  PROVE  pc'[t] # "idle" => KnownGroup(local[t].group, local[t].req.project)'
BY GroupsGrow DEF ResolvedGroups, KnownGroup, KnownLater

(* Where a task takes a group it is one of its project, and it keeps it to *)
(* the end.                                                                *)
LEMMA ResolvedGroupsStep ==
  ASSUME IInv, GroupInv, [Next]_vars
  PROVE  ResolvedGroups'
<1> SUFFICES ASSUME NEW u \in Tasks, pc'[u] # "idle"
             PROVE  KnownGroup(local[u].group, local[u].req.project)'
  BY DEF ResolvedGroups
<1>0. pc \in [Tasks -> Calls \cup {"idle"}] /\ local \in [Tasks -> Local] /\ ResolvedGroups
  BY DEF IInv, TypeOK, GroupInv
<1>1. CASE local'[u] = local[u] /\ pc[u] # "idle"
  BY <1>0, <1>1, SameGroup
<1>2. CASE Begin(u)
  <2>1. local'[u].group = NoId
    BY <1>0, <1>2 DEF Begin, NewLocals
  <2> QED
    BY <2>1 DEF KnownGroup
<1>3. CASE LoadCurrent(u)
  <2>1. Goto(u, IF local[u].req.name \in Names THEN "group" ELSE "write")
    BY <1>0, <1>3 DEF LoadCurrent, Answer
  <2>2. /\ Present(local[u].req.project, local[u].id)
        /\ local'[u].req = local[u].req
        /\ local'[u].group \in {NoId, contracts[local[u].id].group}
        /\ UNCHANGED groups
    BY <1>0, <1>3 DEF LoadCurrent, Answer, tables, Local
  <2> QED
    BY <2>2 DEF KnownGroup, Present, GroupInv, GroupsStayInProject
<1>4. CASE ResolveGroup(u)
  <2>1. ASSUME NEW g \in Nat, NEW created \in BOOLEAN, TakeGroup(u, g, created),
               KnownLater(g, local[u].req.project)
        PROVE  KnownGroup(local[u].group, local[u].req.project)'
    <3>1. local'[u].req = local[u].req /\ local'[u].group = g
      BY <1>0, <2>1 DEF TakeGroup, Answer, Local
    <3> QED
      BY <2>1, <3>1 DEF KnownGroup, KnownLater
  <2>2. groups \in Seq(Group)
    BY DEF IInv, TypeOK
  <2>3. CASE /\ \E g \in GroupNamed(local[u].req.project, local[u].req.name) :
                   TakeGroup(u, g, FALSE)
             /\ UNCHANGED groups
    <3>1. PICK g \in GroupNamed(local[u].req.project, local[u].req.name) :
            TakeGroup(u, g, FALSE)
      BY <2>3
    <3>2. g \in DOMAIN groups /\ groups[g].project = local[u].req.project
      BY <3>1 DEF GroupNamed
    <3>3. g \in Nat /\ KnownLater(g, local[u].req.project)
      BY <2>2, <2>3, <3>2 DEF KnownLater
    <3> QED
      BY <2>1, <3>1, <3>3
  <2>4. ASSUME NEW row, row.project = local[u].req.project,
               groups' = Append(groups, row), TakeGroup(u, Len(groups) + 1, TRUE)
        PROVE  KnownGroup(local[u].group, local[u].req.project)'
    <3>1. /\ Len(groups) + 1 \in DOMAIN groups' /\ groups'[Len(groups) + 1] = row
          /\ Len(groups) + 1 \in Nat
      BY <2>2, <2>4
    <3>2. local'[u].req = local[u].req /\ local'[u].group = Len(groups) + 1
      BY <1>0, <2>4, <3>1 DEF TakeGroup, Answer, Local
    <3> QED
      BY <2>4, <3>1, <3>2 DEF KnownGroup
  <2>5. CASE Answer(u, "internal")
    BY <1>0, <2>5 DEF Answer
  <2> QED
    BY <1>4, <2>3, <2>4, <2>5 DEF ResolveGroup
<1>5. CASE CheckSimilar(u) \/ Hydrate(u) \/ InsertContract(u) \/ UpdateContract(u)
           \/ DeleteContract(u)
  <2>1. /\ pc[u] # "idle" /\ local'[u].req = local[u].req
        /\ local'[u].group = local[u].group
    BY <1>0, <1>5 DEF CheckSimilar, Hydrate, InsertContract, UpdateContract,
         DeleteContract, Answer, Local
  <2> QED
    BY <1>0, <2>1, SameGroup
<1>6. CASE StoreEmbedding(u) \/ DeleteEmbedding(u) \/ RecordContract(u)
           \/ RecordGroup(u) \/ Abort(u)
  <2>1. pc[u] # "idle" /\ local'[u] = local[u]
    BY <1>0, <1>6 DEF StoreEmbedding, DeleteEmbedding, RecordContract, RecordGroup,
         Abort, Answer
  <2> QED
    BY <1>1, <2>1
<1>7. ASSUME NEW t \in Tasks, t # u, Begin(t) \/ Step(t) \/ Abort(t)
      PROVE  local'[u] = local[u] /\ pc'[u] = pc[u]
  BY <1>0, <1>7 DEF Step, Begin, LoadCurrent, ResolveGroup, TakeGroup, CheckSimilar,
     Hydrate, InsertContract, UpdateContract, DeleteContract, StoreEmbedding,
     DeleteEmbedding, RecordContract, RecordGroup, Abort, Goto, Answer
<1>8. CASE UNCHANGED vars
  BY <1>1, <1>8 DEF vars
<1> QED
  BY <1>1, <1>2, <1>3, <1>4, <1>5, <1>6, <1>7, <1>8 DEF Next, Step, NoMoreRequests

(* A row is written with the group of its task, which is one of its        *)
(* project.                                                                *)
LEMMA GroupsStayStep ==
  ASSUME IInv, GroupInv, [Next]_vars
  PROVE  GroupsStayInProject'
<1>1. SUFFICES \A i \in DOMAIN contracts' :
                 KnownLater(contracts'[i].group, contracts'[i].project)
  BY DEF GroupsStayInProject, KnownLater
<1>2. \A i \in DOMAIN contracts : KnownLater(contracts[i].group, contracts[i].project)
  BY GroupsGrow DEF GroupInv, GroupsStayInProject, KnownGroup
<1>3. \A t \in Tasks : pc[t] # "idle" => KnownLater(local[t].group, local[t].req.project)
  BY GroupsGrow DEF GroupInv, ResolvedGroups
<1>4. CASE contracts' = contracts
  BY <1>2, <1>4
<1>5. ASSUME NEW t \in Tasks, InsertContract(t), contracts' # contracts
      PROVE  \A i \in DOMAIN contracts' :
               KnownLater(contracts'[i].group, contracts'[i].project)
  <2> DEFINE row == [project |-> local[t].req.project, group |-> local[t].group,
                     key |-> local[t].req.key, text |-> local[t].req.text]
  <2>1. KnownLater(row.group, row.project)
    BY <1>3, <1>5 DEF InsertContract
  <2>2. contracts' = Put(contracts, issued + 1, row)
    BY <1>5, InsertEffect
  <2> HIDE DEF row
  <2> QED
    BY <1>2, <2>1, <2>2 DEF Put
<1>6. ASSUME NEW t \in Tasks, UpdateContract(t), contracts' # contracts
      PROVE  \A i \in DOMAIN contracts' :
               KnownLater(contracts'[i].group, contracts'[i].project)
  <2> DEFINE row == Merged(t)
             i == local[t].id
  <2>1. /\ contracts' = [contracts EXCEPT ![i] = row]
        /\ row.group = local[t].group /\ row.project = local[t].req.project
    BY <1>6, UpdateEffect
  <2>2. KnownLater(row.group, row.project)
    BY <1>3, <1>6, <2>1 DEF UpdateContract
  <2> HIDE DEF row
  <2>3. \A j \in DOMAIN contracts' :
           j \in DOMAIN contracts /\ contracts'[j] = IF j = i THEN row ELSE contracts[j]
    BY <2>1
  <2> QED
    BY <1>2, <2>2, <2>3
<1>7. ASSUME NEW t \in Tasks, DeleteContract(t), contracts' # contracts
      PROVE  \A i \in DOMAIN contracts' :
               KnownLater(contracts'[i].group, contracts'[i].project)
  BY <1>2, <1>7, DeleteEffect
<1> QED
  BY <1>4, <1>5, <1>6, <1>7, ContractWriters

(* A contract's group exists and is of the contract's project, though the  *)
(* group was resolved, or read from the old row, several awaits before.    *)
THEOREM GroupsBelong == Spec => []GroupsStayInProject
<1>1. Init => IInv /\ GroupInv
  BY InitInv DEF Init, GroupInv, GroupsStayInProject, ResolvedGroups
<1>2. (IInv /\ GroupInv) /\ [Next]_vars => (IInv /\ GroupInv)'
  BY NextInv, GroupsStayStep, ResolvedGroupsStep DEF GroupInv
<1>3. GroupInv => GroupsStayInProject
  BY DEF GroupInv
<1> QED
  BY <1>1, <1>2, <1>3, PTL DEF Spec

(* An update lays the fields of its patch over the row as it is in that    *)
(* call, so that two updates do not undo each other.                       *)
THEOREM PatchesKeepToTheirFields == Spec => PatchTouchesOnlyItsFields
<1> DEFINE Patches ==
      \A i \in DOMAIN contracts \cap DOMAIN contracts' :
        /\ contracts'[i].key # contracts[i].key =>
             \E t \in Tasks : /\ pc[t] = "write" /\ local[t].id = i
                              /\ contracts'[i].key = local[t].req.key
        /\ contracts'[i].text # contracts[i].text =>
             \E t \in Tasks : /\ pc[t] = "write" /\ local[t].id = i
                              /\ contracts'[i].text = local[t].req.text
<1>1. IInv /\ [Next]_vars => Patches
  <2> SUFFICES ASSUME IInv, [Next]_vars, NEW i \in DOMAIN contracts \cap DOMAIN contracts',
                      contracts'[i] # contracts[i]
               PROVE  \E t \in Tasks :
                        /\ pc[t] = "write" /\ local[t].id = i
                        /\ contracts'[i].key \in {contracts[i].key, local[t].req.key}
                        /\ contracts'[i].text \in {contracts[i].text, local[t].req.text}
    OBVIOUS
  <2>1. ASSUME NEW t \in Tasks, InsertContract(t) PROVE FALSE
    BY <2>1, InsertEffect DEF Put
  <2>2. ASSUME NEW t \in Tasks, DeleteContract(t) PROVE FALSE
    BY <2>2, DeleteEffect
  <2>3. PICK t \in Tasks : UpdateContract(t)
    BY <2>1, <2>2, ContractWriters
  <2>4. contracts' = [contracts EXCEPT ![local[t].id] = Merged(t)] /\ pc[t] = "write"
    BY <2>3, UpdateEffect DEF UpdateContract
  <2>5. local[t].id = i /\ contracts'[i] = Merged(t)
    BY <2>4
  <2> QED
    BY <2>4, <2>5 DEF Merged, Patched
<1>2. IInv /\ [Next]_vars => [Patches]_vars
  BY <1>1
<1> QED
  BY <1>2, InitInv, NextInv, PTL DEF Spec, PatchTouchesOnlyItsFields
=============================================================================
