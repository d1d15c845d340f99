---------------------------- MODULE StartupProofs ----------------------------
(***************************************************************************)
(* Proofs about starts: what a server that serves stands on, why a start   *)
(* may fail, and what it leaves as it was.                                 *)
(***************************************************************************)
EXTENDS StartupProperties, TLAPS, SequenceTheorems

(* A migration is in the hands of the process that has made its first      *)
(* statement and not yet recorded it.                                      *)
Owns(p, m) ==
  /\ mark[p].step = m
  /\ at[p] = "record" \/ (at[p] = "apply" /\ mark[p].statement > 1)

Migrated == {"select", "backfill", "count", "seed", "load", "serving"}

(* What the next statement of a process says about the tables.             *)
AtWork(p) ==
  LET m == mark[p].step
      k == mark[p].statement
  IN /\ m > 0
     /\ ~Down(p) => mark[p].config \in Configs
     /\ at[p] \in {"check", "apply", "record"} =>
          \A n \in Migrations : n < m => n \in recorded
     /\ at[p] \in {"apply", "record"} => m \in Migrations
     /\ at[p] = "apply" =>
          /\ k \in 1..Statements[m] /\ k <= made[m] + 1
          /\ k > 1 /\ m \notin Repeatable => made[m] = k - 1
     /\ at[p] = "record" => made[m] = Statements[m]
     /\ at[p] \in Migrated => Migrations \subseteq recorded
     /\ at[p] = "seed" => CanSeed(mark[p].config)
     /\ at[p] \in {"load", "serving"} => DOMAIN users # {}

(* A row read by the backfill is as it was read.                           *)
Fresh(row) ==
  /\ row.contract \in Alive
  /\ contracts[row.contract].request = row.request
  /\ contracts[row.contract].response = row.response
  /\ contracts[row.contract].examples = << >>

(* What a process may rely on if no other has been up since its start.     *)
Undisturbed(p) ==
  mark[p].alone /\ ~Down(p) =>
    /\ \A q \in Procs \ {p} : Down(q)
    /\ at[p] \in {"apply", "record"} => mark[p].step \notin recorded
    /\ at[p] = "backfill" =>
         /\ \A row \in mark[p].rows : Fresh(row)
         /\ \A c \in Alive : Lacks(contracts[c]) =>
              \E row \in mark[p].rows : row.contract = c
    /\ at[p] \in {"count", "seed", "load"} => \A c \in Alive : ~Lacks(contracts[c])
    /\ at[p] = "seed" => DOMAIN users = {}

(* A migration that is not repeatable and is neither untouched nor         *)
(* recorded has one owner, or was cut off.                                 *)
Bookkept ==
  /\ \A m \in recorded : made[m] = Statements[m]
  /\ cut \subseteq Migrations \ Repeatable
  /\ \A m \in Migrations \ Repeatable :
       /\ made[m] > 0 /\ m \notin recorded => m \in cut \/ \E p \in Procs : Owns(p, m)
       /\ m \in cut => m \notin recorded /\ made[m] > 0
       /\ \A p \in Procs : Owns(p, m) => m \notin recorded \cup cut
       /\ \A p, q \in Procs : Owns(p, m) /\ Owns(q, m) => p = q

IInv ==
  /\ TypeOK
  /\ \A p \in Procs : AtWork(p) /\ Undisturbed(p)
  /\ Bookkept
  /\ ExampleNamesAreUnique

----------------------------------------------------------------------------
(* Rows and their examples                                                 *)

LEMMA ValuesApart == Unset \notin Values /\ JsonNull \in Values /\ Default \in ExampleNames
  BY ExamplesAssumption

(* A list from a client keeps its length and gets the trimmed names.       *)
LEMMA InputIsTrimmed ==
  ASSUME NEW es \in Seq(Example)
  PROVE  /\ ExamplesFromInput(es) \in Seq(Example)
         /\ DOMAIN ExamplesFromInput(es) = DOMAIN es
         /\ \A k \in DOMAIN es : ExamplesFromInput(es)[k].name = TrimExample[es[k].name]
<1>1. es \in [1..Len(es) -> Example] /\ Len(es) \in Nat /\ DOMAIN es = 1..Len(es)
  BY LenProperties
<1>2. \A k \in DOMAIN es : [es[k] EXCEPT !.name = TrimExample[@]] \in Example
  <2>1. TrimExample \in [ExampleNames -> ExampleNames]
    BY ExamplesAssumption
  <2>2. \A k \in DOMAIN es : es[k] \in Example
    BY <1>1
  <2> QED
    BY <2>1, <2>2 DEF Example
<1>3. \A k \in DOMAIN es : [es[k] EXCEPT !.name = TrimExample[@]].name = TrimExample[es[k].name]
  BY <1>1 DEF Example
<1>4. ExamplesFromInput(es) \in [1..Len(es) -> Example]
  BY <1>1, <1>2 DEF ExamplesFromInput
<1>5. ExamplesFromInput(es) \in Seq(Example)
  BY <1>1, <1>4
<1> QED
  BY <1>1, <1>3, <1>5 DEF ExamplesFromInput

LEMMA MirroredMirrors ==
  ASSUME NEW es \in Seq(Example)
  PROVE  Mirrored(es) \in Row /\ Mirrored(es).examples = es /\ Mirrors(Mirrored(es))
<1>1. es # << >> => es[1] \in Example
  BY EmptySeq, ElementOfSeq
<1>2. es # << >> => es[1].request \in Values /\ es[1].response \in Values
  BY <1>1 DEF Example
<1> QED
  BY <1>2 DEF Mirrored, Row, Mirrors

(* What an accepted list becomes has no name twice.                        *)
LEMMA AcceptedIsUnique ==
  ASSUME NEW es \in Seq(Example), ValidExamples(es)
  PROVE  UniqueExamples(Mirrored(ExamplesFromInput(es)))
<1>1. Mirrored(ExamplesFromInput(es)).examples = ExamplesFromInput(es)
  BY DEF Mirrored
<1>2. \A j, k \in DOMAIN es : TrimExample[es[j].name] = TrimExample[es[k].name] => j = k
  BY DEF ValidExamples
<1> QED
  BY <1>1, <1>2, InputIsTrimmed DEF UniqueExamples

LEMMA DefaultIsExample ==
  ASSUME NEW request \in Values, NEW response \in Values
  PROVE  DefaultExample(request, response) \in Example
  BY ValuesApart DEF DefaultExample, Example

LEMMA PreparedIsRow ==
  ASSUME NEW input \in Input, Accepted(input)
  PROVE  Prepared(input) \in Row /\ UniqueExamples(Prepared(input))
<1>1. CASE input.examples # Unset
  <2>1. input.examples \in Seq(Example) /\ ValidExamples(input.examples)
    BY <1>1 DEF Input, Accepted
  <2>2. Prepared(input) = Mirrored(ExamplesFromInput(input.examples))
    BY <1>1 DEF Prepared
  <2> QED
    BY <2>1, <2>2, InputIsTrimmed, MirroredMirrors, AcceptedIsUnique
<1>2. CASE input.examples = Unset
  <2> DEFINE e == DefaultExample(input.request, input.response)
  <2>1. input.request \in Values \cup {Unset} /\ input.response \in Values \cup {Unset}
    BY DEF Input
  <2>2. CASE input.request # Unset /\ input.response # Unset
    <3>1. e \in Example
      BY <2>1, <2>2, DefaultIsExample
    <3> HIDE DEF e
    <3>2. <<e>> \in Seq(Example) /\ DOMAIN <<e>> = {1}
      BY <3>1
    <3>3. Prepared(input) = [request |-> input.request, response |-> input.response,
                             examples |-> <<e>>]
      BY <1>2, <2>2 DEF Prepared, e
    <3> QED
      BY <2>1, <3>2, <3>3 DEF Row, UniqueExamples
  <2>3. CASE ~(input.request # Unset /\ input.response # Unset)
    <3>1. Prepared(input) = [request |-> input.request, response |-> input.response,
                             examples |-> << >>]
      BY <1>2, <2>3 DEF Prepared
    <3>2. << >> \in Seq(Example) /\ DOMAIN << >> = {}
      BY EmptySeq
    <3> QED
      BY <2>1, <3>1, <3>2 DEF Row, UniqueExamples
  <2> QED
    BY <2>2, <2>3
<1> QED
  BY <1>1, <1>2

(* A patch keeps names unique, and the columns like the first example.     *)
LEMMA MergedIsRow ==
  ASSUME NEW row \in Row, NEW patch \in Input, Accepted(patch)
  PROVE  /\ Merged(row, patch) \in Row
         /\ UniqueExamples(row) => UniqueExamples(Merged(row, patch))
         /\ Mirrors(row) => Mirrors(Merged(row, patch))
<1>1. CASE patch.examples # Unset
  <2>1. patch.examples \in Seq(Example) /\ ValidExamples(patch.examples)
    BY <1>1 DEF Input, Accepted
  <2>2. Merged(row, patch) = Mirrored(ExamplesFromInput(patch.examples))
    BY <1>1 DEF Merged
  <2> QED
    BY <2>1, <2>2, InputIsTrimmed, MirroredMirrors, AcceptedIsUnique
<1>2. CASE patch.examples = Unset
  <2> DEFINE q == Or(patch.request, row.request)
             r == Or(patch.response, row.response)
             first == [row.examples[1] EXCEPT !.request = Or(q, JsonNull),
                                              !.response = Or(r, JsonNull)]
             es == IF (patch.request # Unset \/ patch.response # Unset) /\ row.examples # << >>
                   THEN [row.examples EXCEPT ![1] = first] ELSE row.examples
  <2>1. q \in Values \cup {Unset} /\ r \in Values \cup {Unset}
    BY DEF Input, Row, Or
  <2>2. Merged(row, patch) = [request |-> q, response |-> r, examples |-> es]
    BY <1>2 DEF Merged
  <2>3. Or(q, JsonNull) \in Values /\ Or(r, JsonNull) \in Values
    BY <2>1, ValuesApart DEF Or
  <2>4. row.examples \in Seq(Example)
    BY DEF Row
  <2>5. row.examples # << >> => row.examples[1] \in Example /\ 1 \in 1..Len(row.examples)
    BY <2>4, EmptySeq, ElementOfSeq
  <2>6. row.examples # << >> =>
          /\ first \in Example /\ first.name = row.examples[1].name
          /\ first.request = Or(q, JsonNull) /\ first.response = Or(r, JsonNull)
    <3> HIDE DEF q, r
    <3> QED
      BY <2>3, <2>5 DEF Example
  <2>7. /\ es \in Seq(Example) /\ DOMAIN es = DOMAIN row.examples
        /\ \A k \in DOMAIN es : es[k].name = row.examples[k].name
        /\ (patch.request # Unset \/ patch.response # Unset) /\ row.examples # << >> => es[1] = first
    <3> HIDE DEF first
    <3>1. DOMAIN row.examples = 1..Len(row.examples)
      BY <2>4, LenProperties
    <3> QED
      BY <2>4, <2>5, <2>6, <3>1, ExceptSeq
  <2>8. Merged(row, patch) \in Row
    <3> HIDE DEF q, r, es
    <3> QED
      BY <2>1, <2>2, <2>7 DEF Row
  <2>9. UniqueExamples(row) => UniqueExamples(Merged(row, patch))
    <3> HIDE DEF q, r, es
    <3> QED
      BY <2>2, <2>7 DEF UniqueExamples
  <2>10. ASSUME Mirrors(row) PROVE Mirrors(Merged(row, patch))
    <3>1. es # << >> => row.examples # << >>
      BY <2>7, <2>4, EmptySeq, LenProperties
    <3>2. row.examples # << >> => row.request \in Values /\ row.response \in Values
      BY <2>10, <2>5 DEF Mirrors, Example
    <3>3. row.examples # << >> => q # Unset /\ r # Unset
      BY <3>2, ValuesApart DEF Or
    <3>4. row.examples # << >> => es[1].request = q /\ es[1].response = r
      <4>1. CASE patch.request # Unset \/ patch.response # Unset
        <5> HIDE DEF q, r, es, first
        <5> QED
          BY <4>1, <2>6, <2>7, <3>3 DEF Or
      <4>2. CASE patch.request = Unset /\ patch.response = Unset
        BY <4>2, <2>10 DEF Mirrors, Or
      <4> QED
        BY <4>1, <4>2
    <3> HIDE DEF q, r, es, first
    <3> QED
      BY <2>2, <3>1, <3>4 DEF Mirrors
  <2> QED
    BY <2>8, <2>9, <2>10
<1> QED
  BY <1>1, <1>2

(* The backfill of a row loses none of its examples.                       *)
LEMMA WithDefaultIsRow ==
  ASSUME NEW row \in Row, NEW request \in Values, NEW response \in Values
  PROVE  LET new == WithDefault(row, request, response)
         IN /\ new \in Row /\ new.examples # << >>
            /\ new.request = row.request /\ new.response = row.response
            /\ \A k \in DOMAIN row.examples :
                 \E l \in DOMAIN new.examples : new.examples[l] = row.examples[k]
            /\ UniqueExamples(row) /\ ~HasExample(row, Default) => UniqueExamples(new)
            /\ row.examples = << >> /\ row.request = request /\ row.response = response =>
                 Mirrors(new)
<1> DEFINE e == DefaultExample(request, response)
           old == row.examples
           es == IF old = << >> THEN <<e>> ELSE <<old[1]>> \o <<e>> \o Tail(old)
<1>1. e \in Example /\ e.name = Default /\ e.request = request /\ e.response = response
  BY DefaultIsExample DEF DefaultExample
<1> HIDE DEF e
<1>2. row \in [request : Values \cup {Unset}, response : Values \cup {Unset}, examples : Seq(Example)]
  BY DEF Row
<1>3. old \in Seq(Example)
  BY <1>2
<1>4. WithDefault(row, request, response) = [row EXCEPT !.examples = es]
  BY DEF WithDefault, e
<1>5. DOMAIN old = 1..Len(old) /\ Len(old) \in Nat
  BY <1>3, LenProperties
<1>6. old = << >> =>
        /\ es \in Seq(Example) /\ DOMAIN es = {1} /\ es[1] = e
        /\ DOMAIN old = {}
  BY <1>1, <1>5, EmptySeq
<1>7. old # << >> =>
        /\ es \in Seq(Example) /\ Len(es) = Len(old) + 1 /\ Len(old) > 0
        /\ es[1] = old[1] /\ es[2] = e
        /\ \A k \in 3..Len(old) + 1 : es[k] = old[k - 1]
  <2> SUFFICES ASSUME old # << >>
               PROVE  /\ es \in Seq(Example) /\ Len(es) = Len(old) + 1 /\ Len(old) > 0
                      /\ es[1] = old[1] /\ es[2] = e
                      /\ \A k \in 3..Len(old) + 1 : es[k] = old[k - 1]
    OBVIOUS
  <2> DEFINE front == <<old[1]>> \o <<e>>
             tail == Tail(old)
  <2>1. Len(old) > 0 /\ old[1] \in Example
    BY <1>3, EmptySeq, ElementOfSeq
  <2>2. <<old[1]>> \in Seq(Example) /\ <<e>> \in Seq(Example)
    BY <1>1, <2>1
  <2>3. front \in Seq(Example) /\ Len(front) = 2 /\ front[1] = old[1] /\ front[2] = e
    BY <2>2, ConcatProperties
  <2>4. /\ tail \in Seq(Example) /\ Len(tail) = Len(old) - 1
        /\ \A k \in 1..Len(tail) : tail[k] = old[k + 1]
    BY <1>3, HeadTailProperties
  <2>5. es = front \o tail
    OBVIOUS
  <2> HIDE DEF front, tail, es, old
  <2>6. /\ es \in Seq(Example) /\ Len(es) = 2 + (Len(old) - 1)
        /\ \A k \in 1..2 + (Len(old) - 1) :
             es[k] = IF k <= 2 THEN front[k] ELSE tail[k - 2]
    <3>1. /\ front \o tail \in Seq(Example) /\ Len(front \o tail) = Len(front) + Len(tail)
          /\ \A k \in 1..Len(front) + Len(tail) :
               (front \o tail)[k] = IF k <= Len(front) THEN front[k] ELSE tail[k - Len(front)]
      BY <2>3, <2>4, ConcatProperties
    <3> QED
      BY <2>3, <2>4, <2>5, <3>1
  <2>7. es[1] = old[1] /\ es[2] = e
    BY <1>5, <2>1, <2>3, <2>6
  <2>8. \A k \in 3..Len(old) + 1 : es[k] = old[k - 1]
    <3> TAKE k \in 3..Len(old) + 1
    <3>1. es[k] = tail[k - 2] /\ k - 2 \in 1..Len(tail) /\ (k - 2) + 1 = k - 1
      BY <1>5, <2>1, <2>4, <2>6
    <3> QED
      BY <2>4, <3>1
  <2> QED
    BY <1>5, <2>1, <2>6, <2>7, <2>8
<1>8. old # << >> => DOMAIN es = 1..Len(old) + 1
  BY <1>7, LenProperties
<1> DEFINE new == WithDefault(row, request, response)
<1> HIDE DEF es
<1>9. /\ new.examples = es /\ new.request = row.request /\ new.response = row.response
      /\ es \in Seq(Example) => new \in Row
  BY <1>2, <1>4 DEF Row
<1> HIDE DEF new
<1>10. es \in Seq(Example) /\ es # << >>
  <2>1. << >> \in Seq(Example) /\ Len(<< >>) = 0 /\ DOMAIN << >> = {}
    BY EmptySeq
  <2> QED
    BY <1>5, <1>6, <1>7, <2>1
<1>11. \A k \in DOMAIN old : \E l \in DOMAIN es : es[l] = old[k]
  <2> SUFFICES ASSUME NEW k \in DOMAIN old PROVE \E l \in DOMAIN es : es[l] = old[k]
    OBVIOUS
  <2>1. old # << >>
    BY <1>6
  <2>2. CASE k = 1
    <3>1. 1 \in DOMAIN es
      BY <1>5, <1>8, <2>1
    <3> QED
      BY <1>7, <2>1, <2>2, <3>1
  <2>3. CASE k # 1
    <3>1. k + 1 \in DOMAIN es /\ k + 1 \in 3..Len(old) + 1 /\ (k + 1) - 1 = k
      BY <1>5, <1>8, <2>1, <2>3
    <3> QED
      BY <1>7, <2>1, <3>1
  <2> QED
    BY <2>2, <2>3
<1>12. ASSUME UniqueExamples(row), ~HasExample(row, Default)
       PROVE  \A j, k \in DOMAIN es : es[j].name = es[k].name => j = k
  <2>1. CASE old = << >>
    BY <1>6, <2>1
  <2>2. CASE old # << >>
    <3> DEFINE from(k) == IF k = 1 THEN 1 ELSE k - 1
    <3>1. \A k \in DOMAIN es \ {2} : from(k) \in DOMAIN old /\ es[k] = old[from(k)]
      <4> TAKE k \in DOMAIN es \ {2}
      <4>1. CASE k = 1
        BY <1>5, <1>7, <2>2, <4>1
      <4>2. CASE k # 1
        <5>1. k \in 3..Len(old) + 1 /\ k - 1 \in 1..Len(old)
          BY <1>5, <1>8, <2>2, <4>2
        <5> QED
          BY <1>5, <1>7, <2>2, <4>2, <5>1
      <4> QED
        BY <4>1, <4>2
    <3>2. \A k \in DOMAIN old : old[k].name # Default
      BY <1>12 DEF HasExample
    <3>3. \A j, k \in DOMAIN old : old[j].name = old[k].name => j = k
      BY <1>12 DEF UniqueExamples
    <3>4. \A j, k \in DOMAIN es \ {2} : from(j) = from(k) => j = k
      BY <1>5, <1>8, <2>2
    <3>5. \A k \in DOMAIN es \ {2} : es[k].name # es[2].name
      BY <1>1, <1>7, <2>2, <3>1, <3>2
    <3> HIDE DEF from
    <3>6. \A j, k \in DOMAIN es \ {2} : es[j].name = es[k].name => j = k
      BY <3>1, <3>3, <3>4
    <3> QED
      BY <3>5, <3>6
  <2> QED
    BY <2>1, <2>2
<1> QED
  BY <1>1, <1>6, <1>9, <1>10, <1>11, <1>12 DEF UniqueExamples, Mirrors, new

----------------------------------------------------------------------------
(* Every step keeps the invariant                                          *)

LEMMA MigrationsAreNumbers ==
  /\ Migrations = 1..Len(Statements) /\ Len(Statements) \in Nat
  /\ \A m \in Migrations : m \in Nat /\ Statements[m] \in Nat /\ Statements[m] > 0
<1>1. Statements \in Seq(Nat \ {0})
  BY StartupAssumption
<1>2. Migrations = 1..Len(Statements) /\ Len(Statements) \in Nat
  BY <1>1, LenProperties DEF Migrations
<1>3. \A m \in Migrations : Statements[m] \in Nat \ {0}
  BY <1>1, <1>2, ElementOfSeq
<1> QED
  BY <1>2, <1>3

LEMMA AliveRows ==
  ASSUME TypeOK
  PROVE  /\ DOMAIN contracts = 1..Len(contracts) /\ Len(contracts) \in Nat
         /\ \A c \in Alive : c \in DOMAIN contracts /\ c \in Nat /\ contracts[c] \in Row
<1>1. DOMAIN contracts = 1..Len(contracts) /\ Len(contracts) \in Nat
  BY LenProperties DEF TypeOK
<1>2. \A c \in DOMAIN contracts : contracts[c] \in Row \cup {Gone}
  BY <1>1, ElementOfSeq DEF TypeOK
<1> QED
  BY <1>1, <1>2 DEF Alive

OthersStand(p) ==
  \A q \in Procs \ {p} : at'[q] = at[q] /\ mark'[q] = mark[q]

(* No migration is unmade or forgotten, no user removed.                   *)
Grows ==
  /\ recorded \subseteq recorded'
  /\ \A m \in Migrations : made[m] <= made'[m]
  /\ DOMAIN users \subseteq DOMAIN users'

(* What an owner relies on is not changed by others.                       *)
OwnersStand(p) ==
  \A m \in Migrations \ Repeatable : \A q \in Procs \ {p} : Owns(q, m) => made'[m] = made[m]

LEMMA StandsGrows ==
  ASSUME TypeOK, UNCHANGED <<made, recorded>>, DOMAIN users \subseteq DOMAIN users', NEW p
  PROVE  Grows /\ OwnersStand(p)
  BY DEF TypeOK, Grows, OwnersStand

(* A process stays where it is while another one works.                    *)
LEMMA WorkStands ==
  ASSUME IInv, TypeOK', Grows, NEW p \in Procs, OwnersStand(p), NEW q \in Procs \ {p},
         at'[q] = at[q], mark'[q].step = mark[q].step,
         mark'[q].statement = mark[q].statement, mark'[q].config = mark[q].config
  PROVE  AtWork(q)'
<1> DEFINE m == mark[q].step
           k == mark[q].statement
<1>0. AtWork(q) /\ TypeOK
  BY DEF IInv
<1>1. at[q] \in {"apply", "record"} =>
        /\ m \in Migrations /\ made[m] \in Nat /\ made'[m] \in Nat
        /\ made[m] <= made'[m] /\ made'[m] <= Statements[m]
  BY <1>0 DEF AtWork, Grows, TypeOK
<1>2. at[q] = "apply" /\ k > 1 /\ m \notin Repeatable => Owns(q, m)
  BY DEF Owns
<1>3. at[q] = "apply" /\ k > 1 /\ m \notin Repeatable => made'[m] = made[m]
  BY <1>1, <1>2 DEF OwnersStand
<1>4. at[q] = "record" => made'[m] = Statements[m]
  BY <1>0, <1>1, MigrationsAreNumbers DEF AtWork
<1>5. at[q] = "apply" => k \in 1..Statements[m] /\ k <= made'[m] + 1
  BY <1>0, <1>1, MigrationsAreNumbers DEF AtWork
<1>6. at[q] \in {"load", "serving"} => DOMAIN users' # {}
  BY <1>0 DEF AtWork, Grows
<1>7. Down(q)' <=> Down(q)
  BY DEF Down
<1> QED
  BY <1>0, <1>1, <1>3, <1>4, <1>5, <1>6, <1>7 DEF AtWork, Grows

(* Nobody relies on being alone while another one works.                   *)
LEMMA OthersAreDisturbed ==
  ASSUME IInv, NEW p \in Procs, ~Down(p), OthersStand(p), NEW q \in Procs \ {p}
  PROVE  Undisturbed(q)'
  BY DEF IInv, Undisturbed, OthersStand, Down

LEMMA StepKeeps ==
  ASSUME IInv, TypeOK', NEW p \in Procs, ~Down(p), OthersStand(p), Grows, OwnersStand(p),
         AtWork(p)', Undisturbed(p)', Bookkept', ExampleNamesAreUnique'
  PROVE  IInv'
<1>1. \A q \in Procs \ {p} : AtWork(q)'
  BY WorkStands DEF OthersStand
<1>2. \A q \in Procs \ {p} : Undisturbed(q)'
  BY OthersAreDisturbed
<1> QED
  BY <1>1, <1>2 DEF IInv

LEMMA BooksStand ==
  ASSUME Bookkept, UNCHANGED <<made, recorded, cut>>,
         \A q \in Procs : \A m \in Migrations \ Repeatable : Owns(q, m)' <=> Owns(q, m)
  PROVE  Bookkept'
  BY DEF Bookkept

(* A process that stops may leave a migration half done.                   *)
LEMMA StopIsSafe ==
  ASSUME IInv, NEW p \in Procs, ~Down(p), NEW state \in {"down", "failed"}, Stop(p, state),
         UNCHANGED <<tables, starts, edits>>
  PROVE  IInv'
<1>0. TypeOK /\ Bookkept /\ AtWork(p) /\ ExampleNamesAreUnique
  BY DEF IInv
<1>1. at'[p] = state /\ mark'[p] = NoMark /\ OthersStand(p)
  BY <1>0 DEF Stop, Goto, TypeOK, OthersStand
<1>2. NoMark \in Mark
  BY DEF NoMark, Mark
<1>3. \A m : Owns(p, m) => m \in Migrations
  BY <1>0 DEF AtWork, Owns
<1>4. cut' = cut \cup {m \in Migrations \ Repeatable : Owns(p, m)}
  BY <1>3 DEF Stop, Owns
<1>5. TypeOK'
  <2>1. at' \in [Procs -> States] /\ mark' \in [Procs -> Mark] /\ cut' \subseteq Migrations
    BY <1>0, <1>2, <1>4 DEF Stop, Goto, TypeOK, States
  <2> QED
    BY <1>0, <2>1 DEF TypeOK, tables
<1>6. \A q \in Procs : \A m \in Migrations \ Repeatable :
        Owns(q, m)' <=> q # p /\ Owns(q, m)
  BY <1>1 DEF Owns, OthersStand
<1>7. Bookkept'
  <2>1. UNCHANGED <<made, recorded>>
    BY DEF tables
  <2>2. cut' \subseteq Migrations \ Repeatable
    BY <1>0, <1>4 DEF Bookkept
  <2>3. ASSUME NEW m \in Migrations \ Repeatable
        PROVE  /\ made[m] > 0 /\ m \notin recorded => m \in cut' \/ \E q \in Procs : Owns(q, m)'
               /\ m \in cut' => m \notin recorded /\ made[m] > 0
               /\ \A q \in Procs : Owns(q, m)' => m \notin recorded \cup cut'
               /\ \A q, r \in Procs : Owns(q, m)' /\ Owns(r, m)' => q = r
    <3>1. Owns(p, m) => made[m] > 0
      BY <1>0, MigrationsAreNumbers DEF AtWork, Owns, TypeOK
    <3>2. m \in cut' <=> m \in cut \/ Owns(p, m)
      BY <1>4
    <3> QED
      BY <1>0, <1>6, <3>1, <3>2 DEF Bookkept
  <2> QED
    BY <1>0, <2>1, <2>2, <2>3 DEF Bookkept
<1>8. AtWork(p)' /\ Undisturbed(p)'
  BY <1>1 DEF AtWork, Undisturbed, Down, Migrated, NoMark
<1>9. ExampleNamesAreUnique' /\ Grows /\ OwnersStand(p)
  BY <1>0, StandsGrows DEF tables, ExampleNamesAreUnique, Alive
<1> QED
  BY <1>1, <1>5, <1>7, <1>8, <1>9, StepKeeps

LEMMA StartIsSafe ==
  ASSUME IInv, NEW p \in Procs, Start(p)
  PROVE  IInv'
<1>0. TypeOK /\ Bookkept /\ Down(p) /\ ExampleNamesAreUnique
  BY DEF IInv, Start
<1>1. PICK config \in Configs :
        mark' = [q \in Procs |->
          IF q = p THEN [NoMark EXCEPT !.config = config, !.alone = \A r \in Procs \ {p} : Down(r)]
          ELSE IF Down(q) THEN mark[q] ELSE [mark[q] EXCEPT !.alone = FALSE]]
  BY DEF Start
<1> DEFINE l == [NoMark EXCEPT !.config = config, !.alone = \A r \in Procs \ {p} : Down(r)]
<1>2. /\ l \in Mark /\ l.step = 1 /\ l.statement = 1 /\ l.config = config
      /\ l.alone = (\A r \in Procs \ {p} : Down(r))
  <2>1. config \in Config
    BY StartupAssumption
  <2>2. (\A r \in Procs \ {p} : Down(r)) \in BOOLEAN
    OBVIOUS
  <2> QED
    BY <2>1, <2>2 DEF NoMark, Mark
<1>3. mark'[p] = l
  BY <1>1
<1> HIDE DEF l
<1>4. \A q \in Procs \ {p} :
        /\ mark'[q] \in Mark
        /\ mark'[q].step = mark[q].step /\ mark'[q].statement = mark[q].statement
        /\ mark'[q].config = mark[q].config
        /\ ~Down(q) => mark'[q].alone = FALSE
  <2> TAKE q \in Procs \ {p}
  <2>1. mark'[q] = IF Down(q) THEN mark[q] ELSE [mark[q] EXCEPT !.alone = FALSE]
    BY <1>1
  <2>2. mark[q] \in Mark
    BY <1>0 DEF TypeOK
  <2> QED
    BY <2>1, <2>2 DEF Mark
<1>5. at'[p] = "check" /\ \A q \in Procs \ {p} : at'[q] = at[q]
  BY <1>0 DEF Start, Goto, TypeOK
<1>6. UNCHANGED <<made, recorded, users, contracts, edits, cut>> /\ starts' \in Nat
  <2>1. UNCHANGED <<made, recorded, users, contracts, edits, cut>>
    BY DEF Start, tables
  <2>2. starts > 0 /\ starts' = starts - 1
    BY DEF Start
  <2> QED
    BY <1>0, <2>1, <2>2 DEF TypeOK
<1>7. TypeOK'
  <2>1. at' \in [Procs -> States]
    BY <1>0 DEF Start, Goto, TypeOK, States, Starting
  <2>2. mark' \in [Procs -> Mark]
    BY <1>1, <1>2, <1>3, <1>4
  <2> QED
    BY <1>0, <1>6, <2>1, <2>2 DEF TypeOK
<1>8. Grows /\ OwnersStand(p)
  BY <1>0, <1>6, StandsGrows
<1>9. \A q \in Procs \ {p} : AtWork(q)'
  BY <1>4, <1>5, <1>7, <1>8, WorkStands
<1>10. AtWork(p)'
  <2>1. \A n \in Migrations : ~(n < 1)
    BY MigrationsAreNumbers
  <2> QED
    BY <1>2, <1>3, <1>5, <2>1 DEF AtWork, Migrated
<1>11. \A q \in Procs : Undisturbed(q)'
  <2>1. Undisturbed(p)'
    BY <1>2, <1>3, <1>5 DEF Undisturbed, Down
  <2>2. \A q \in Procs \ {p} : Undisturbed(q)'
    BY <1>4, <1>5 DEF Undisturbed, Down
  <2> QED
    BY <2>1, <2>2
<1>12. Bookkept'
  <2>1. \A q \in Procs : \A m : Owns(q, m)' <=> Owns(q, m)
    BY <1>0, <1>4, <1>5 DEF Owns, Down
  <2> QED
    BY <1>0, <1>6, <2>1, BooksStand
<1>13. ExampleNamesAreUnique'
  BY <1>0, <1>6 DEF ExampleNamesAreUnique, Alive
<1> QED
  BY <1>7, <1>9, <1>10, <1>11, <1>12, <1>13 DEF IInv

(* With the tables untouched, one process moves on.                        *)
LEMMA MoveIsSafe ==
  ASSUME IInv, NEW p \in Procs, ~Down(p), UNCHANGED <<tables, starts, edits, cut>>,
         at' \in [Procs -> States], mark' \in [Procs -> Mark], OthersStand(p),
         \A m \in Migrations \ Repeatable : Owns(p, m)' <=> Owns(p, m),
         AtWork(p)', Undisturbed(p)'
  PROVE  IInv'
<1>0. TypeOK /\ Bookkept /\ ExampleNamesAreUnique
  BY DEF IInv
<1>1. UNCHANGED <<made, recorded, users, contracts>>
  BY DEF tables
<1>2. TypeOK'
  BY <1>0, <1>1 DEF TypeOK
<1>3. Grows /\ OwnersStand(p)
  BY <1>0, <1>1, StandsGrows
<1>4. \A q \in Procs : \A m \in Migrations \ Repeatable : Owns(q, m)' <=> Owns(q, m)
  BY DEF Owns, OthersStand
<1>5. Bookkept'
  BY <1>0, <1>1, <1>4, BooksStand
<1>6. ExampleNamesAreUnique'
  BY <1>0, <1>1 DEF ExampleNamesAreUnique, Alive
<1> QED
  BY <1>2, <1>3, <1>5, <1>6, StepKeeps

(* A change of the mark of one process.                                    *)
LEMMA Marked ==
  ASSUME TypeOK, NEW p \in Procs, NEW l \in Mark, mark' = [mark EXCEPT ![p] = l]
  PROVE  mark' \in [Procs -> Mark] /\ mark'[p] = l /\ \A q \in Procs \ {p} : mark'[q] = mark[q]
  BY DEF TypeOK

LEMMA Moved ==
  ASSUME TypeOK, NEW p \in Procs, NEW state \in States, Goto(p, state)
  PROVE  at' \in [Procs -> States] /\ at'[p] = state /\ \A q \in Procs \ {p} : at'[q] = at[q]
  BY DEF TypeOK, Goto

LEMMA CheckMigrationIsSafe ==
  ASSUME IInv, NEW p \in Procs, CheckMigration(p)
  PROVE  IInv'
<1> DEFINE m == mark[p].step
<1>0. /\ TypeOK /\ AtWork(p) /\ Undisturbed(p) /\ at[p] = "check" /\ ~Down(p)
      /\ UNCHANGED <<tables, starts, edits, cut>>
  BY DEF IInv, CheckMigration, Down
<1>1. /\ mark \in [Procs -> Mark] /\ mark[p] \in Mark /\ at \in [Procs -> States]
      /\ m \in Nat /\ m > 0 /\ UNCHANGED recorded
      /\ \A n \in Migrations : n < m => n \in recorded
  BY <1>0 DEF TypeOK, Mark, tables, AtWork
<1>2. \A n : ~Owns(p, n)
  BY <1>0 DEF Owns
<1>3. CASE m \notin Migrations /\ Goto(p, "select") /\ UNCHANGED mark
  <2>1. at' \in [Procs -> States] /\ at'[p] = "select" /\ mark'[p] = mark[p] /\ OthersStand(p)
    BY <1>0, <1>3, Moved DEF States, Starting, OthersStand
  <2>2. Migrations \subseteq recorded
    BY <1>1, <1>3, MigrationsAreNumbers
  <2>3. AtWork(p)'
    BY <1>0, <1>1, <2>1, <2>2 DEF AtWork, Down, Migrated
  <2>4. Undisturbed(p)'
    BY <1>0, <2>1 DEF Undisturbed, Down, OthersStand
  <2>5. \A n : ~Owns(p, n)'
    BY <2>1 DEF Owns
  <2> QED
    BY <1>0, <1>1, <1>2, <1>3, <2>1, <2>3, <2>4, <2>5, MoveIsSafe
<1>4. CASE m \in Migrations /\ Applied(m) /\ mark' = [mark EXCEPT ![p].step = m + 1] /\ UNCHANGED at
  <2> DEFINE l == [mark[p] EXCEPT !.step = m + 1]
  <2>1. /\ l \in Mark /\ l.step = m + 1 /\ l.statement = mark[p].statement
        /\ l.config = mark[p].config /\ l.alone = mark[p].alone /\ mark' = [mark EXCEPT ![p] = l]
    BY <1>1, <1>4 DEF Mark
  <2> HIDE DEF l
  <2>2. mark' \in [Procs -> Mark] /\ mark'[p] = l /\ at'[p] = "check" /\ OthersStand(p)
    BY <1>0, <1>4, <2>1, Marked DEF OthersStand
  <2>3. \A n \in Migrations : n < m + 1 => n \in recorded
    BY <1>1, <1>4, MigrationsAreNumbers DEF Applied
  <2>4. AtWork(p)'
    BY <1>0, <1>1, <2>1, <2>2, <2>3 DEF AtWork, Down, Migrated
  <2>5. Undisturbed(p)'
    BY <1>0, <2>1, <2>2 DEF Undisturbed, Down, OthersStand
  <2>6. \A n : ~Owns(p, n)'
    BY <2>2 DEF Owns
  <2> QED
    BY <1>0, <1>1, <1>2, <1>4, <2>2, <2>4, <2>5, <2>6, MoveIsSafe
<1>5. CASE m \in Migrations /\ ~Applied(m) /\ mark' = [mark EXCEPT ![p].statement = 1] /\ Goto(p, "apply")
  <2> DEFINE l == [mark[p] EXCEPT !.statement = 1]
  <2>1. /\ l \in Mark /\ l.step = m /\ l.statement = 1
        /\ l.config = mark[p].config /\ l.alone = mark[p].alone /\ mark' = [mark EXCEPT ![p] = l]
    BY <1>1, <1>5 DEF Mark
  <2> HIDE DEF l
  <2>2. /\ mark' \in [Procs -> Mark] /\ mark'[p] = l
        /\ at' \in [Procs -> States] /\ at'[p] = "apply" /\ OthersStand(p)
    BY <1>0, <1>5, <2>1, Marked, Moved DEF OthersStand, States, Starting
  <2>3. 1 \in 1..Statements[m] /\ 1 <= made'[m] + 1
    BY <1>0, <1>5, MigrationsAreNumbers DEF TypeOK, tables
  <2>4. AtWork(p)'
    BY <1>0, <1>1, <1>5, <2>1, <2>2, <2>3 DEF AtWork, Down, Migrated
  <2>5. Undisturbed(p)'
    BY <1>0, <1>1, <1>5, <2>1, <2>2 DEF Undisturbed, Down, OthersStand, Applied
  <2>6. \A n : ~Owns(p, n)'
    BY <2>1, <2>2 DEF Owns
  <2> QED
    BY <1>0, <1>1, <1>2, <2>2, <2>4, <2>5, <2>6, MoveIsSafe
<1> QED
  BY <1>3, <1>4, <1>5 DEF CheckMigration

(* The one who makes a statement of a migration that is not repeatable     *)
(* owns it from then on, and nobody else does.                             *)
LEMMA ApplyStatementIsSafe ==
  ASSUME IInv, NEW p \in Procs, ApplyStatement(p)
  PROVE  IInv'
<1> DEFINE m == mark[p].step
           k == mark[p].statement
           next == made'[m]
<1>0. /\ TypeOK /\ Bookkept /\ AtWork(p) /\ Undisturbed(p) /\ ExampleNamesAreUnique
      /\ at[p] = "apply" /\ ~Down(p) /\ UNCHANGED <<starts, edits>>
  BY DEF IInv, ApplyStatement, Down
<1>1. CASE Fail(p)
  BY <1>0, <1>1, StopIsSafe DEF Fail
<1>2. CASE /\ ~Exists(m, k) \/ m \in Repeatable
           /\ made' = [made EXCEPT ![m] = IF Exists(m, k) THEN @ ELSE k]
           /\ IF k < Statements[m]
              THEN mark' = [mark EXCEPT ![p].statement = k + 1] /\ UNCHANGED at
              ELSE Goto(p, "record") /\ UNCHANGED mark
           /\ UNCHANGED <<recorded, users, contracts, cut>>
  <2>1. /\ m \in Migrations /\ k \in 1..Statements[m] /\ k <= made[m] + 1
        /\ k > 1 /\ m \notin Repeatable => made[m] = k - 1
        /\ made \in [Migrations -> Nat] /\ made[m] <= Statements[m]
        /\ mark[p] \in Mark /\ m > 0 /\ mark[p].config \in Configs
        /\ \A n \in Migrations : n < m => n \in recorded
    BY <1>0 DEF AtWork, TypeOK, Down
  <2>2. Statements[m] \in Nat /\ k \in Nat /\ made[m] \in Nat
    BY <2>1, MigrationsAreNumbers
  <2>3. /\ made' \in [Migrations -> Nat] /\ \A n \in Migrations \ {m} : made'[n] = made[n]
        /\ next = IF made[m] >= k THEN made[m] ELSE k
    BY <1>2, <2>1, <2>2 DEF Exists
  <2>4. next >= k /\ next >= made[m] /\ next <= Statements[m] /\ next > 0
    BY <2>1, <2>2, <2>3
  <2>5. m \notin Repeatable => next = k /\ made[m] = k - 1
    BY <1>2, <2>1, <2>2, <2>3 DEF Exists
  <2>6. \/ /\ k < Statements[m] /\ at' = at /\ mark'[p].statement = k + 1
        \/ /\ k = Statements[m] /\ at'[p] = "record" /\ mark' = mark
    <3>1. CASE k < Statements[m]
      BY <1>0, <1>2, <2>1, <3>1 DEF TypeOK, Mark
    <3>2. CASE ~(k < Statements[m])
      <4>1. Goto(p, "record") /\ mark' = mark /\ k = Statements[m]
        BY <1>2, <2>1, <2>2, <3>2
      <4> QED
        BY <1>0, <4>1, Moved DEF States, Starting
    <3> QED
      BY <3>1, <3>2
  <2>7. /\ at' \in [Procs -> States] /\ mark' \in [Procs -> Mark] /\ OthersStand(p)
        /\ mark'[p].step = m /\ mark'[p].config = mark[p].config /\ mark'[p].alone = mark[p].alone
        /\ at'[p] \in {"apply", "record"}
    <3>1. CASE k < Statements[m]
      <4> DEFINE l == [mark[p] EXCEPT !.statement = k + 1]
      <4>1. /\ l \in Mark /\ l.step = m /\ l.config = mark[p].config /\ l.alone = mark[p].alone
            /\ mark' = [mark EXCEPT ![p] = l] /\ at' = at
        BY <1>2, <2>1, <2>2, <3>1 DEF Mark
      <4> HIDE DEF l
      <4> QED
        BY <1>0, <4>1, Marked DEF OthersStand, TypeOK
    <3>2. CASE ~(k < Statements[m])
      <4>1. Goto(p, "record") /\ mark' = mark
        BY <1>2, <3>2
      <4> QED
        BY <1>0, <4>1, Moved DEF States, Starting, OthersStand, TypeOK
    <3> QED
      BY <3>1, <3>2
  <2>8. Owns(p, m)' /\ \A n : Owns(p, n)' => n = m
    BY <1>0, <2>2, <2>6, <2>7, <2>1 DEF Owns
  <2>9. \A n : Owns(p, n) => n = m
    BY DEF Owns
  <2>10. TypeOK'
    <3>1. \A n \in Migrations : made'[n] <= Statements[n]
      BY <1>0, <2>3, <2>4 DEF TypeOK
    <3> QED
      BY <1>0, <1>2, <2>3, <2>7, <3>1 DEF TypeOK
  <2>11. m \notin Repeatable => \A q \in Procs \ {p} : ~Owns(q, m)
    <3> SUFFICES ASSUME m \notin Repeatable, NEW q \in Procs \ {p}, Owns(q, m) PROVE FALSE
      OBVIOUS
    <3>1. made[m] > 0
      <4>1. AtWork(q) /\ (at[q] = "record" \/ (at[q] = "apply" /\ mark[q].statement > 1))
              /\ mark[q].step = m
        BY DEF IInv, Owns
      <4>2. mark[q].statement \in Nat
        BY <1>0 DEF TypeOK, Mark
      <4> QED
        BY <2>1, <2>2, <4>1, <4>2, MigrationsAreNumbers DEF AtWork
    <3>2. k > 1
      BY <2>2, <2>5, <3>1
    <3>3. Owns(p, m)
      BY <1>0, <3>2 DEF Owns
    <3> QED
      BY <1>0, <2>1, <3>3 DEF Bookkept
  <2>12. Grows /\ OwnersStand(p)
    <3>1. \A n \in Migrations : made[n] <= made'[n]
      BY <2>1, <2>3, <2>4
    <3> QED
      BY <1>2, <2>3, <2>11, <3>1 DEF Grows, OwnersStand
  <2>13. AtWork(p)'
    <3> DEFINE l == mark'[p].statement
    <3>1. CASE k < Statements[m] /\ at' = at /\ l = k + 1
      <4>1. at'[p] = "apply" /\ at'[p] # "record"
        BY <1>0, <3>1
      <4>2. l \in 1..Statements[m] /\ l <= next + 1 /\ (m \notin Repeatable => next = l - 1)
        <5>1. next \in Nat /\ k <= next /\ (m \notin Repeatable => next = k) /\ k \in Nat
          BY <2>2, <2>3, <2>4, <2>5
        <5>2. l = k + 1 /\ k < Statements[m] /\ Statements[m] \in Nat
          BY <2>2, <3>1
        <5> HIDE DEF m, k, next, l
        <5> QED
          BY <5>1, <5>2
      <4> HIDE DEF m, k, next, l
      <4> QED
        BY <1>2, <2>1, <2>7, <4>1, <4>2 DEF AtWork, Migrated, m, next, l
    <3>2. CASE k = Statements[m] /\ at'[p] = "record" /\ mark' = mark
      <4>1. next = Statements[m]
        BY <2>2, <2>3, <2>4, <3>2
      <4> HIDE DEF m, k, next, l
      <4> QED
        BY <1>2, <2>1, <2>7, <3>2, <4>1 DEF AtWork, Migrated, m, next
    <3> QED
      BY <2>6, <3>1, <3>2
  <2>14. Undisturbed(p)'
    BY <1>0, <1>2, <2>7 DEF Undisturbed, Down, OthersStand
  <2>15. Bookkept'
    <3>1. \A n \in recorded : made'[n] = Statements[n]
      <4> SUFFICES ASSUME NEW n \in recorded PROVE made'[n] = Statements[n]
        OBVIOUS
      <4>1. n \in Migrations /\ made[n] = Statements[n]
        BY <1>0 DEF Bookkept, TypeOK
      <4> QED
        BY <2>2, <2>3, <2>4, <4>1
    <3>2. \A q \in Procs \ {p} : \A n : Owns(q, n)' <=> Owns(q, n)
      BY <2>7 DEF Owns, OthersStand
    <3>3. m \notin Repeatable => m \notin recorded /\ m \notin cut
      <4> SUFFICES ASSUME m \notin Repeatable PROVE m \notin recorded /\ m \notin cut
        OBVIOUS
      <4>1. made[m] < Statements[m]
        BY <2>1, <2>2, <2>5
      <4>2. m \notin recorded
        BY <1>0, <2>2, <4>1 DEF Bookkept
      <4>3. k > 1 => Owns(p, m)
        BY <1>0 DEF Owns
      <4>4. k = 1 => made[m] = 0
        BY <2>5
      <4>5. m \in cut => made[m] > 0 /\ ~Owns(p, m)
        BY <1>0, <2>1 DEF Bookkept
      <4> QED
        BY <2>1, <2>2, <4>2, <4>3, <4>4, <4>5
    <3>4. ASSUME NEW n \in Migrations \ Repeatable, n # m
          PROVE  /\ made'[n] = made[n]
                 /\ \A q \in Procs : Owns(q, n)' <=> Owns(q, n)
      BY <2>3, <2>8, <2>9, <3>2, <3>4
    <3>5. ASSUME NEW n \in Migrations \ Repeatable
          PROVE  /\ made'[n] > 0 /\ n \notin recorded => n \in cut \/ \E q \in Procs : Owns(q, n)'
                 /\ n \in cut => n \notin recorded /\ made'[n] > 0
                 /\ \A q \in Procs : Owns(q, n)' => n \notin recorded \cup cut
                 /\ \A q, r \in Procs : Owns(q, n)' /\ Owns(r, n)' => q = r
      <4>1. CASE n = m
        BY <2>8, <2>11, <3>2, <3>3, <4>1
      <4>2. CASE n # m
        BY <1>0, <3>4, <4>2 DEF Bookkept
      <4> QED
        BY <4>1, <4>2
    <3>6. UNCHANGED <<recorded, cut>>
      BY <1>2
    <3> QED
      BY <1>0, <3>1, <3>5, <3>6 DEF Bookkept
  <2>16. ExampleNamesAreUnique'
    BY <1>0, <1>2 DEF ExampleNamesAreUnique, Alive
  <2> QED
    BY <1>0, <2>7, <2>10, <2>12, <2>13, <2>14, <2>15, <2>16, StepKeeps
<1> QED
  BY <1>1, <1>2 DEF ApplyStatement


LEMMA RecordMigrationIsSafe ==
  ASSUME IInv, NEW p \in Procs, RecordMigration(p)
  PROVE  IInv'
<1> DEFINE m == mark[p].step
<1>0. /\ TypeOK /\ Bookkept /\ AtWork(p) /\ Undisturbed(p) /\ ExampleNamesAreUnique
      /\ at[p] = "record" /\ ~Down(p) /\ UNCHANGED <<starts, edits>>
  BY DEF IInv, RecordMigration, Down
<1>1. CASE Fail(p)
  BY <1>0, <1>1, StopIsSafe DEF Fail
<1>2. CASE /\ m \notin recorded
           /\ recorded' = recorded \cup {m}
           /\ mark' = [mark EXCEPT ![p].step = m + 1]
           /\ Goto(p, "check")
           /\ UNCHANGED <<made, users, contracts, cut>>
  <2> DEFINE l == [mark[p] EXCEPT !.step = m + 1]
  <2>1. /\ mark[p] \in Mark /\ m \in Nat /\ m > 0 /\ m \in Migrations
        /\ made[m] = Statements[m] /\ mark[p].config \in Configs
        /\ \A n \in Migrations : n < m => n \in recorded
    BY <1>0 DEF AtWork, TypeOK, Mark
  <2>2. /\ l \in Mark /\ l.step = m + 1 /\ l.config = mark[p].config
        /\ l.alone = mark[p].alone /\ mark' = [mark EXCEPT ![p] = l]
    BY <1>2, <2>1 DEF Mark
  <2> HIDE DEF l
  <2>3. /\ mark' \in [Procs -> Mark] /\ mark'[p] = l
        /\ at' \in [Procs -> States] /\ at'[p] = "check" /\ OthersStand(p)
    BY <1>0, <1>2, <2>2, Marked, Moved DEF OthersStand, States, Starting
  <2>4. TypeOK'
    BY <1>0, <1>2, <2>1, <2>3 DEF TypeOK
  <2>5. Grows /\ OwnersStand(p)
    BY <1>0, <1>2 DEF Grows, OwnersStand, TypeOK
  <2>6. AtWork(p)'
    <3>1. \A n \in Migrations : n < m + 1 => n \in recorded'
      BY <1>2, <2>1, MigrationsAreNumbers
    <3> QED
      BY <2>1, <2>2, <2>3, <3>1 DEF AtWork, Down, Migrated
  <2>7. Undisturbed(p)'
    BY <1>0, <2>2, <2>3 DEF Undisturbed, Down, OthersStand
  <2>8. Owns(p, m) /\ (\A n : ~Owns(p, n)') /\ (\A n : Owns(p, n) => n = m)
    BY <1>0, <2>3 DEF Owns
  <2>9. \A q \in Procs \ {p} : \A n : Owns(q, n)' <=> Owns(q, n)
    BY <2>3 DEF Owns, OthersStand
  <2>10. Bookkept'
    <3>1. \A n \in recorded' : made'[n] = Statements[n]
      BY <1>0, <1>2, <2>1 DEF Bookkept
    <3>2. ASSUME NEW n \in Migrations \ Repeatable
          PROVE  /\ made'[n] > 0 /\ n \notin recorded' => n \in cut \/ \E q \in Procs : Owns(q, n)'
                 /\ n \in cut => n \notin recorded' /\ made'[n] > 0
                 /\ \A q \in Procs : Owns(q, n)' => n \notin recorded' \cup cut
                 /\ \A q, r \in Procs : Owns(q, n)' /\ Owns(r, n)' => q = r
      <4>1. n = m => n \notin cut /\ \A q \in Procs \ {p} : ~Owns(q, n)
        BY <1>0, <2>8 DEF Bookkept
      <4> QED
        BY <1>0, <1>2, <2>8, <2>9, <4>1 DEF Bookkept
    <3>3. cut' = cut
      BY <1>2
    <3> QED
      BY <1>0, <3>1, <3>2, <3>3 DEF Bookkept
  <2>11. ExampleNamesAreUnique'
    BY <1>0, <1>2 DEF ExampleNamesAreUnique, Alive
  <2> QED
    BY <1>0, <2>3, <2>4, <2>5, <2>6, <2>7, <2>10, <2>11, StepKeeps
<1> QED
  BY <1>1, <1>2 DEF RecordMigration

LEMMA SelectLegacyIsSafe ==
  ASSUME IInv, NEW p \in Procs, SelectLegacy(p)
  PROVE  IInv'
<1> DEFINE lacking == {d \in Alive : Lacks(contracts[d])}
           read(c) == [contract |-> c, request |-> contracts[c].request,
                       response |-> contracts[c].response]
           rows == {read(c) : c \in lacking}
           l == [mark[p] EXCEPT !.rows = rows]
<1>0. /\ TypeOK /\ AtWork(p) /\ Undisturbed(p) /\ at[p] = "select" /\ ~Down(p)
      /\ UNCHANGED <<tables, starts, edits, cut>>
  BY DEF IInv, SelectLegacy, Down
<1>1. \A c \in lacking : read(c) \in Legacy /\ Fresh(read(c))
  <2> TAKE c \in lacking
  <2>1. c \in Nat /\ contracts[c] \in Row /\ c \in Alive /\ Lacks(contracts[c])
    BY <1>0, AliveRows
  <2>2. contracts[c].request \in Values /\ contracts[c].response \in Values
    BY <2>1 DEF Row, Lacks
  <2> QED
    BY <2>1, <2>2 DEF Legacy, Fresh, Lacks
<1>2. rows \subseteq Legacy
  BY <1>1
<1>3. \A row \in rows : Fresh(row)
  BY <1>1
<1>4. \A c \in Alive : Lacks(contracts[c]) => \E row \in rows : row.contract = c
  <2> TAKE c \in Alive
  <2>1. Lacks(contracts[c]) => read(c) \in rows
    OBVIOUS
  <2>2. read(c).contract = c
    OBVIOUS
  <2> QED
    BY <2>1, <2>2
<1> HIDE DEF rows
<1>5. mark[p] \in Mark /\ mark' = [mark EXCEPT ![p] = l]
  BY <1>0 DEF SelectLegacy, TypeOK, rows
<1>6. /\ l \in Mark /\ l.rows = rows /\ l.config = mark[p].config
      /\ l.alone = mark[p].alone /\ l.step = mark[p].step
  BY <1>2, <1>5 DEF Mark
<1> HIDE DEF l
<1>7. /\ mark' \in [Procs -> Mark] /\ mark'[p] = l
      /\ at' \in [Procs -> States] /\ at'[p] = "backfill" /\ OthersStand(p)
  BY <1>0, <1>5, <1>6, Marked, Moved DEF SelectLegacy, OthersStand, States, Starting
<1>8. AtWork(p)'
  BY <1>0, <1>6, <1>7 DEF AtWork, Down, Migrated, tables
<1>9. Undisturbed(p)'
  <2>1. \A row \in rows : Fresh(row)'
    BY <1>0, <1>3 DEF Fresh, Alive, tables
  <2>2. \A c \in Alive' : Lacks(contracts'[c]) => \E row \in rows : row.contract = c
    BY <1>0, <1>4 DEF Alive, tables
  <2>3. mark'[p].alone /\ ~Down(p)' => \A q \in Procs \ {p} : Down(q)'
    BY <1>0, <1>6, <1>7 DEF Undisturbed, OthersStand, Down
  <2> QED
    BY <1>6, <1>7, <2>1, <2>2, <2>3 DEF Undisturbed
<1>10. \A n : ~Owns(p, n) /\ ~Owns(p, n)'
  BY <1>0, <1>7 DEF Owns
<1> QED
  BY <1>0, <1>7, <1>8, <1>9, <1>10, MoveIsSafe

(* What the backfill of one row leaves.                                    *)
LEMMA BackfilledRow ==
  ASSUME TypeOK, NEW p \in Procs, NEW row \in mark[p].rows,
         row.contract \in Alive, ~HasExample(contracts[row.contract], Default),
         contracts' = [contracts EXCEPT ![row.contract] = WithDefault(@, row.request, row.response)]
  PROVE  LET c == row.contract
         IN /\ row \in Legacy /\ contracts' \in Seq(Row \cup {Gone}) /\ Alive' = Alive
            /\ c \in Alive /\ contracts[c] \in Row /\ contracts'[c] \in Row
            /\ contracts'[c].examples # << >>
            /\ contracts'[c] = WithDefault(contracts[c], row.request, row.response)
            /\ \A d \in Alive \ {c} : contracts'[d] = contracts[d]
<1> DEFINE c == row.contract
           new == WithDefault(contracts[c], row.request, row.response)
<1>1. row \in Legacy /\ row.request \in Values /\ row.response \in Values
  BY DEF TypeOK, Mark, Legacy
<1>2. c \in DOMAIN contracts /\ contracts[c] \in Row /\ contracts \in Seq(Row \cup {Gone})
  BY AliveRows DEF TypeOK
<1>3. new \in Row /\ new.examples # << >>
  BY <1>1, <1>2, WithDefaultIsRow
<1> HIDE DEF new
<1>4. contracts' = [contracts EXCEPT ![c] = new]
  BY DEF new
<1>5. contracts' \in Seq(Row \cup {Gone}) /\ DOMAIN contracts' = DOMAIN contracts
  BY <1>2, <1>3, <1>4, ExceptSeq, LenProperties
<1>6. contracts'[c] = new /\ \A d \in DOMAIN contracts \ {c} : contracts'[d] = contracts[d]
  BY <1>2, <1>4
<1>7. new # Gone
  BY <1>3, StartupAssumption
<1>8. Alive' = Alive
  BY <1>2, <1>5, <1>6, <1>7 DEF Alive
<1> QED
  BY <1>1, <1>2, <1>3, <1>5, <1>6, <1>8 DEF Alive, new

LEMMA BackfillRowIsSafe ==
  ASSUME IInv, NEW p \in Procs, NEW row \in mark[p].rows, BackfillRow(p, row)
  PROVE  IInv'
<1> DEFINE c == row.contract
           l == [mark[p] EXCEPT !.rows = @ \ {row}]
<1>0. /\ TypeOK /\ Bookkept /\ AtWork(p) /\ Undisturbed(p) /\ ExampleNamesAreUnique
      /\ at[p] = "backfill" /\ ~Down(p) /\ UNCHANGED <<starts, edits>>
  BY DEF IInv, BackfillRow, Down
<1>1. CASE Fail(p)
  BY <1>0, <1>1, StopIsSafe DEF Fail
<1>2. CASE /\ c \in Alive /\ ~HasExample(contracts[c], Default)
           /\ contracts' = [contracts EXCEPT ![c] = WithDefault(@, row.request, row.response)]
           /\ mark' = [mark EXCEPT ![p].rows = @ \ {row}]
           /\ UNCHANGED <<made, recorded, users, at, cut>>
  <2>1. /\ row \in Legacy /\ contracts' \in Seq(Row \cup {Gone}) /\ Alive' = Alive
        /\ c \in Alive /\ contracts[c] \in Row /\ contracts'[c] \in Row
        /\ contracts'[c].examples # << >>
        /\ contracts'[c] = WithDefault(contracts[c], row.request, row.response)
        /\ \A d \in Alive \ {c} : contracts'[d] = contracts[d]
    BY <1>0, <1>2, BackfilledRow
  <2>2. mark[p] \in Mark /\ mark' = [mark EXCEPT ![p] = l]
    BY <1>0, <1>2 DEF TypeOK
  <2>3. /\ l \in Mark /\ l.rows = mark[p].rows \ {row} /\ l.config = mark[p].config
        /\ l.alone = mark[p].alone /\ l.step = mark[p].step
    BY <2>2 DEF Mark
  <2> HIDE DEF l
  <2>4. mark' \in [Procs -> Mark] /\ mark'[p] = l /\ at'[p] = "backfill" /\ OthersStand(p)
    BY <1>0, <1>2, <2>2, <2>3, Marked DEF OthersStand
  <2>5. TypeOK'
    BY <1>0, <1>2, <2>1, <2>4 DEF TypeOK
  <2>6. Grows /\ OwnersStand(p)
    BY <1>0, <1>2, StandsGrows
  <2>7. AtWork(p)'
    BY <1>0, <1>2, <2>3, <2>4 DEF AtWork, Down, Migrated
  <2>8. Undisturbed(p)'
    <3> SUFFICES ASSUME mark'[p].alone
                 PROVE  /\ \A q \in Procs \ {p} : Down(q)'
                        /\ \A r \in l.rows : Fresh(r)'
                        /\ \A d \in Alive' : Lacks(contracts'[d]) =>
                             \E r \in l.rows : r.contract = d
      BY <2>4 DEF Undisturbed
    <3>1. /\ \A q \in Procs \ {p} : Down(q)
          /\ \A r \in mark[p].rows : Fresh(r)
          /\ \A d \in Alive : Lacks(contracts[d]) => \E r \in mark[p].rows : r.contract = d
      BY <1>0, <2>3, <2>4 DEF Undisturbed
    <3>2. \A r \in l.rows : Fresh(r)'
      <4> TAKE r \in l.rows
      <4>1. r \in mark[p].rows /\ r # row /\ r \in Legacy /\ Fresh(r) /\ Fresh(row)
        BY <2>2, <2>3, <3>1 DEF Mark
      <4>2. r.contract # c
        <5> SUFFICES ASSUME r.contract = c PROVE FALSE
          OBVIOUS
        <5>1. r.request = row.request /\ r.response = row.response /\ r.contract = row.contract
          BY <4>1 DEF Fresh
        <5> QED
          BY <2>1, <4>1, <5>1 DEF Legacy
      <4> QED
        BY <2>1, <4>1, <4>2 DEF Fresh
    <3>3. \A d \in Alive' : Lacks(contracts'[d]) => \E r \in l.rows : r.contract = d
      <4> SUFFICES ASSUME NEW d \in Alive, Lacks(contracts'[d])
                   PROVE  \E r \in l.rows : r.contract = d
        BY <2>1
      <4>1. d # c
        BY <2>1 DEF Lacks
      <4>2. Lacks(contracts[d])
        BY <2>1, <4>1
      <4> QED
        BY <2>3, <3>1, <4>1, <4>2
    <3>4. \A q \in Procs \ {p} : Down(q)'
      BY <2>4, <3>1 DEF Down, OthersStand
    <3> QED
      BY <3>2, <3>3, <3>4
  <2>9. Bookkept'
    <3>1. \A q \in Procs : \A n : Owns(q, n)' <=> Owns(q, n)
      BY <1>0, <2>4 DEF Owns, OthersStand
    <3> QED
      BY <1>0, <1>2, <3>1, BooksStand
  <2>10. ExampleNamesAreUnique'
    <3>1. UniqueExamples(contracts'[c])
      <4>1. UniqueExamples(contracts[c]) /\ row.request \in Values /\ row.response \in Values
        BY <1>0, <2>1 DEF ExampleNamesAreUnique, Legacy
      <4> QED
        BY <1>2, <2>1, <4>1, WithDefaultIsRow
    <3> QED
      BY <1>0, <2>1, <3>1 DEF ExampleNamesAreUnique
  <2> QED
    BY <1>0, <2>4, <2>5, <2>6, <2>7, <2>8, <2>9, <2>10, StepKeeps
<1> QED
  BY <1>1, <1>2 DEF BackfillRow

LEMMA EndBackfillIsSafe ==
  ASSUME IInv, NEW p \in Procs, EndBackfill(p)
  PROVE  IInv'
<1>0. /\ TypeOK /\ AtWork(p) /\ Undisturbed(p) /\ at[p] = "backfill" /\ ~Down(p)
      /\ mark[p].rows = {} /\ UNCHANGED <<tables, mark, starts, edits, cut>>
  BY DEF IInv, EndBackfill, Down
<1>1. /\ mark' \in [Procs -> Mark] /\ at' \in [Procs -> States] /\ at'[p] = "count" /\ OthersStand(p)
  BY <1>0, Moved DEF EndBackfill, OthersStand, States, Starting, TypeOK
<1>2. AtWork(p)'
  BY <1>0, <1>1 DEF AtWork, Down, Migrated, tables
<1>3. Undisturbed(p)'
  BY <1>0, <1>1 DEF Undisturbed, Down, OthersStand, tables, Alive
<1>4. \A n : ~Owns(p, n) /\ ~Owns(p, n)'
  BY <1>0, <1>1 DEF Owns
<1> QED
  BY <1>0, <1>1, <1>2, <1>3, <1>4, MoveIsSafe

LEMMA CountUsersIsSafe ==
  ASSUME IInv, NEW p \in Procs, CountUsers(p)
  PROVE  IInv'
<1> DEFINE config == mark[p].config
<1>0. /\ TypeOK /\ AtWork(p) /\ Undisturbed(p) /\ at[p] = "count" /\ ~Down(p)
      /\ UNCHANGED <<starts, edits>>
  BY DEF IInv, CountUsers, Down
<1>1. CASE Fail(p)
  BY <1>0, <1>1, StopIsSafe DEF Fail
<1>2. CASE /\ NoUsers => CanSeed(config)
           /\ Goto(p, IF NoUsers THEN "seed" ELSE "load")
           /\ UNCHANGED <<tables, mark, cut>>
  <2>1. /\ mark' \in [Procs -> Mark] /\ at' \in [Procs -> States] /\ OthersStand(p)
        /\ at'[p] = IF NoUsers THEN "seed" ELSE "load"
    BY <1>0, <1>2, Moved DEF OthersStand, States, Starting, TypeOK
  <2>2. AtWork(p)'
    BY <1>0, <1>2, <2>1 DEF AtWork, Down, Migrated, tables, NoUsers
  <2>3. Undisturbed(p)'
    BY <1>0, <1>2, <2>1 DEF Undisturbed, Down, OthersStand, tables, Alive, NoUsers
  <2>4. \A n : ~Owns(p, n) /\ ~Owns(p, n)'
    BY <1>0, <2>1 DEF Owns
  <2> QED
    BY <1>0, <1>2, <2>1, <2>2, <2>3, <2>4, MoveIsSafe
<1> QED
  BY <1>1, <1>2 DEF CountUsers

(* A user is added or gets another password.                               *)
LEMMA PutUser ==
  ASSUME TypeOK, NEW n \in Names, NEW password \in Passwords, users' = Put(users, n, password)
  PROVE  /\ DOMAIN users' = DOMAIN users \cup {n}
         /\ DOMAIN users' \subseteq Names /\ \A u \in DOMAIN users' : users'[u] \in Passwords
         /\ \A u \in DOMAIN users \ {n} : users'[u] = users[u]
  BY DEF TypeOK, Put

(* An admin is added by a start whose settings name one.                   *)
LEMMA SeededSettings ==
  ASSUME TypeOK, NEW p \in Procs, AtWork(p), at[p] = "seed"
  PROVE  mark[p].config.username \in Names /\ mark[p].config.password \in Passwords
<1>1. mark[p].config \in Config
  BY StartupAssumption DEF AtWork, Down
<1> QED
  BY <1>1 DEF AtWork, CanSeed, Config

LEMMA SeedAdminIsSafe ==
  ASSUME IInv, NEW p \in Procs, SeedAdmin(p)
  PROVE  IInv'
<1> DEFINE config == mark[p].config
<1>0. /\ TypeOK /\ Bookkept /\ AtWork(p) /\ Undisturbed(p) /\ ExampleNamesAreUnique
      /\ at[p] = "seed" /\ ~Down(p) /\ UNCHANGED <<starts, edits>>
  BY DEF IInv, SeedAdmin, Down
<1>1. CASE Fail(p)
  BY <1>0, <1>1, StopIsSafe DEF Fail
<1>2. CASE /\ users' = Put(users, config.username, config.password)
           /\ Goto(p, "load")
           /\ UNCHANGED <<made, recorded, contracts, mark, cut>>
  <2>1. /\ DOMAIN users' = DOMAIN users \cup {config.username}
        /\ DOMAIN users' \subseteq Names /\ \A u \in DOMAIN users' : users'[u] \in Passwords
    BY <1>0, <1>2, SeededSettings, PutUser
  <2>2. /\ mark' = mark /\ at' \in [Procs -> States] /\ at'[p] = "load" /\ OthersStand(p)
    BY <1>0, <1>2, Moved DEF OthersStand, States, Starting
  <2>3. TypeOK'
    BY <1>0, <1>2, <2>1, <2>2 DEF TypeOK
  <2>4. Grows /\ OwnersStand(p)
    BY <1>0, <1>2, <2>1, StandsGrows
  <2>5. AtWork(p)'
    BY <1>0, <1>2, <2>1, <2>2 DEF AtWork, Down, Migrated
  <2>6. Undisturbed(p)'
    BY <1>0, <1>2, <2>2 DEF Undisturbed, Down, OthersStand, Alive
  <2>7. Bookkept'
    <3>1. \A q \in Procs : \A n : Owns(q, n)' <=> Owns(q, n)
      BY <1>0, <2>2 DEF Owns, OthersStand
    <3> QED
      BY <1>0, <1>2, <3>1, BooksStand
  <2>8. ExampleNamesAreUnique'
    BY <1>0, <1>2 DEF ExampleNamesAreUnique, Alive
  <2> QED
    BY <1>0, <2>2, <2>3, <2>4, <2>5, <2>6, <2>7, <2>8, StepKeeps
<1> QED
  BY <1>1, <1>2 DEF SeedAdmin

LEMMA LoadModelIsSafe ==
  ASSUME IInv, NEW p \in Procs, LoadModel(p)
  PROVE  IInv'
<1>0. /\ TypeOK /\ AtWork(p) /\ Undisturbed(p) /\ at[p] = "load" /\ ~Down(p)
      /\ UNCHANGED <<starts, edits>>
  BY DEF IInv, LoadModel, Down
<1>1. CASE Fail(p)
  BY <1>0, <1>1, StopIsSafe DEF Fail
<1>2. CASE Goto(p, "serving") /\ UNCHANGED <<tables, mark, cut>>
  <2>1. /\ mark' \in [Procs -> Mark] /\ at' \in [Procs -> States] /\ at'[p] = "serving"
        /\ OthersStand(p)
    BY <1>0, <1>2, Moved DEF OthersStand, States, TypeOK
  <2>2. AtWork(p)'
    BY <1>0, <1>2, <2>1 DEF AtWork, Down, Migrated, tables
  <2>3. Undisturbed(p)'
    BY <1>0, <1>2, <2>1 DEF Undisturbed, Down, OthersStand
  <2>4. \A n : ~Owns(p, n) /\ ~Owns(p, n)'
    BY <1>0, <2>1 DEF Owns
  <2> QED
    BY <1>0, <1>2, <2>1, <2>2, <2>3, <2>4, MoveIsSafe
<1> QED
  BY <1>1, <1>2 DEF LoadModel

LEMMA CrashIsSafe ==
  ASSUME IInv, NEW p \in Procs, Crash(p)
  PROVE  IInv'
  BY StopIsSafe DEF Crash

----------------------------------------------------------------------------
(* The changes of a serving process                                        *)

LEMMA EditIsSafe ==
  ASSUME IInv, NEW p \in Procs, Edit(p), UNCHANGED <<made, recorded, at, mark, starts, cut>>,
         contracts' \in Seq(Row \cup {Gone}), ExampleNamesAreUnique',
         DOMAIN users \subseteq DOMAIN users', DOMAIN users' \subseteq Names,
         \A n \in DOMAIN users' : users'[n] \in Passwords
  PROVE  IInv'
<1>0. TypeOK /\ Bookkept /\ AtWork(p) /\ Undisturbed(p) /\ at[p] = "serving" /\ ~Down(p)
  BY DEF IInv, Edit, Down
<1>1. edits' \in Nat
  BY <1>0 DEF Edit, TypeOK
<1>2. TypeOK'
  BY <1>0, <1>1 DEF TypeOK
<1>3. OthersStand(p) /\ Grows /\ OwnersStand(p)
  BY <1>0, StandsGrows DEF OthersStand
<1>4. AtWork(p)'
  BY <1>0 DEF AtWork, Down, Migrated
<1>5. Undisturbed(p)'
  BY <1>0 DEF Undisturbed, Down
<1>6. Bookkept'
  <2>1. \A q \in Procs : \A n : Owns(q, n)' <=> Owns(q, n)
    BY DEF Owns
  <2> QED
    BY <1>0, <2>1, BooksStand
<1> QED
  BY <1>0, <1>2, <1>3, <1>4, <1>5, <1>6, StepKeeps

(* The users are as they were.                                             *)
LEMMA ContractsEdited ==
  ASSUME IInv, NEW p \in Procs, Edit(p), UNCHANGED <<made, recorded, users, at, mark, starts, cut>>,
         contracts' \in Seq(Row \cup {Gone}), ExampleNamesAreUnique'
  PROVE  IInv'
<1>1. DOMAIN users \subseteq Names /\ \A n \in DOMAIN users : users[n] \in Passwords
  BY DEF IInv, TypeOK
<1> QED
  BY <1>1, EditIsSafe

LEMMA CreateContractIsSafe ==
  ASSUME IInv, NEW p \in Procs, CreateContract(p)
  PROVE  IInv'
<1>1. PICK input \in Inputs : Accepted(input) /\ contracts' = Append(contracts, Prepared(input))
  BY DEF CreateContract
<1>2. input \in Input
  BY StartupAssumption
<1> DEFINE new == Prepared(input)
<1>3. new \in Row /\ UniqueExamples(new)
  BY <1>1, <1>2, PreparedIsRow
<1> HIDE DEF new
<1>4. contracts \in Seq(Row \cup {Gone}) /\ ExampleNamesAreUnique
  BY DEF IInv, TypeOK
<1>5. contracts' = Append(contracts, new)
  BY <1>1 DEF new
<1>6. /\ contracts' \in Seq(Row \cup {Gone}) /\ Len(contracts') = Len(contracts) + 1
      /\ contracts'[Len(contracts) + 1] = new
      /\ \A c \in 1..Len(contracts) : contracts'[c] = contracts[c]
  BY <1>3, <1>4, <1>5, AppendProperties
<1>7. /\ DOMAIN contracts = 1..Len(contracts) /\ Len(contracts) \in Nat
      /\ DOMAIN contracts' = 1..Len(contracts')
  BY <1>4, <1>6, LenProperties
<1>8. \A c \in DOMAIN contracts' :
        \/ c \in DOMAIN contracts /\ contracts'[c] = contracts[c]
        \/ contracts'[c] = new
  BY <1>6, <1>7
<1>9. ExampleNamesAreUnique'
  BY <1>3, <1>4, <1>8 DEF ExampleNamesAreUnique, Alive
<1> QED
  BY <1>6, <1>9, ContractsEdited DEF CreateContract

(* One contract gets another row, or is gone.                              *)
LEMMA ReplacedContract ==
  ASSUME IInv, NEW c \in Alive, NEW new \in Row \cup {Gone}, new # Gone => UniqueExamples(new),
         contracts' = [contracts EXCEPT ![c] = new]
  PROVE  contracts' \in Seq(Row \cup {Gone}) /\ ExampleNamesAreUnique'
<1>1. contracts \in Seq(Row \cup {Gone}) /\ c \in DOMAIN contracts /\ ExampleNamesAreUnique
  BY DEF IInv, TypeOK, Alive
<1>2. contracts' \in Seq(Row \cup {Gone}) /\ DOMAIN contracts' = DOMAIN contracts
  BY <1>1, ExceptSeq, LenProperties
<1>3. contracts'[c] = new /\ \A d \in DOMAIN contracts \ {c} : contracts'[d] = contracts[d]
  BY <1>1
<1> QED
  BY <1>1, <1>2, <1>3 DEF ExampleNamesAreUnique, Alive

LEMMA UpdateContractIsSafe ==
  ASSUME IInv, NEW p \in Procs, UpdateContract(p)
  PROVE  IInv'
<1>1. PICK c \in Alive, patch \in Inputs :
        Accepted(patch) /\ contracts' = [contracts EXCEPT ![c] = Merged(@, patch)]
  BY DEF UpdateContract
<1> DEFINE new == Merged(contracts[c], patch)
<1>2. patch \in Input /\ contracts[c] \in Row /\ UniqueExamples(contracts[c])
  BY StartupAssumption, AliveRows DEF IInv, ExampleNamesAreUnique
<1>3. new \in Row /\ UniqueExamples(new)
  BY <1>1, <1>2, MergedIsRow
<1>4. contracts' = [contracts EXCEPT ![c] = new]
  BY <1>1
<1> HIDE DEF new
<1>5. contracts' \in Seq(Row \cup {Gone}) /\ ExampleNamesAreUnique'
  BY <1>3, <1>4, ReplacedContract
<1> QED
  BY <1>5, ContractsEdited DEF UpdateContract

LEMMA DeleteContractIsSafe ==
  ASSUME IInv, NEW p \in Procs, DeleteContract(p)
  PROVE  IInv'
<1>1. PICK c \in Alive : contracts' = [contracts EXCEPT ![c] = Gone]
  BY DEF DeleteContract
<1>2. contracts' \in Seq(Row \cup {Gone}) /\ ExampleNamesAreUnique'
  BY <1>1, ReplacedContract
<1> QED
  BY <1>2, ContractsEdited DEF DeleteContract

LEMMA EditUserIsSafe ==
  ASSUME IInv, NEW p \in Procs, EditUser(p)
  PROVE  IInv'
<1>1. PICK n \in Names \ RejectedNames, password \in Passwords \ ShortPasswords :
        users' = Put(users, n, password)
  BY DEF EditUser
<1>2. TypeOK /\ ExampleNamesAreUnique /\ contracts' = contracts /\ Edit(p)
      /\ UNCHANGED <<made, recorded, at, mark, starts, cut>>
  BY DEF IInv, EditUser
<1>3. /\ DOMAIN users' = DOMAIN users \cup {n}
      /\ DOMAIN users' \subseteq Names /\ \A u \in DOMAIN users' : users'[u] \in Passwords
  BY <1>1, <1>2, PutUser
<1>4. contracts' \in Seq(Row \cup {Gone}) /\ ExampleNamesAreUnique'
  BY <1>2 DEF TypeOK, ExampleNamesAreUnique, Alive
<1> QED
  BY <1>2, <1>3, <1>4, EditIsSafe

----------------------------------------------------------------------------
(* The invariant holds                                                     *)

LEMMA NothingIsSafe ==
  ASSUME IInv, UNCHANGED vars
  PROVE  IInv'
<1>1. UNCHANGED <<made, recorded, users, contracts, at, mark, starts, edits, cut>>
  BY DEF vars
<1>2. TypeOK' /\ ExampleNamesAreUnique'
  BY <1>1 DEF IInv, TypeOK, ExampleNamesAreUnique, Alive
<1>3. \A p \in Procs : AtWork(p)' /\ Undisturbed(p)'
  BY <1>1 DEF IInv, AtWork, Undisturbed, Down, Fresh, Alive
<1>4. Bookkept'
  BY <1>1 DEF IInv, Bookkept, Owns
<1> QED
  BY <1>2, <1>3, <1>4 DEF IInv

LEMMA NextIsSafe ==
  ASSUME IInv, [Next]_vars
  PROVE  IInv'
<1>1. CASE UNCHANGED vars
  BY <1>1, NothingIsSafe
<1>2. ASSUME NEW p \in Procs, Start(p) \/ StartStep(p) \/ Crash(p) \/ ServerStep(p)
      PROVE  IInv'
  <2>1. CASE Start(p)
    BY <2>1, StartIsSafe
  <2>2. CASE StartStep(p)
    BY <2>2, CheckMigrationIsSafe, ApplyStatementIsSafe, RecordMigrationIsSafe, SelectLegacyIsSafe,
       BackfillRowIsSafe, EndBackfillIsSafe, CountUsersIsSafe, SeedAdminIsSafe, LoadModelIsSafe
       DEF StartStep
  <2>3. CASE Crash(p)
    BY <2>3, CrashIsSafe
  <2>4. CASE ServerStep(p)
    BY <2>4, CreateContractIsSafe, UpdateContractIsSafe, DeleteContractIsSafe, EditUserIsSafe
       DEF ServerStep
  <2> QED
    BY <1>2, <2>1, <2>2, <2>3, <2>4
<1> QED
  BY <1>1, <1>2 DEF Next

LEMMA InitIsSafe ==
  ASSUME Init
  PROVE  IInv
<1>1. PICK version \in OldVersions : LeftBy(version)
  BY DEF Init
<1>2. /\ recorded = 1..version
      /\ made = [m \in Migrations |-> IF m <= version THEN Statements[m] ELSE 0]
      /\ contracts \in OldContracts \cup {<< >>}
      /\ users \in OldUsers \cup {<< >>}
      /\ version \in Migrations \cup {0}
  BY <1>1, StartupAssumption DEF LeftBy
<1>3. version \in Nat /\ recorded \subseteq Migrations
  BY <1>2, MigrationsAreNumbers
<1>4. /\ made \in [Migrations -> Nat]
      /\ \A m \in Migrations : made[m] <= Statements[m] /\ (m \in recorded <=> made[m] > 0)
      /\ \A m \in recorded : made[m] = Statements[m]
  <2>1. ASSUME NEW m \in Migrations
        PROVE  /\ made[m] \in Nat /\ made[m] <= Statements[m]
               /\ m \in recorded <=> made[m] > 0
               /\ m \in recorded => made[m] = Statements[m]
    <3>1. /\ made[m] = IF m <= version THEN Statements[m] ELSE 0
          /\ m \in Nat /\ m > 0 /\ Statements[m] \in Nat /\ Statements[m] > 0
      BY <1>2, MigrationsAreNumbers
    <3>2. m \in recorded <=> m <= version
      BY <1>2, <1>3, <3>1
    <3> QED
      BY <3>1, <3>2
  <2>2. made = [m \in Migrations |-> made[m]]
    BY <1>2
  <2> QED
    BY <1>3, <2>1, <2>2
<1>5. DOMAIN users \subseteq Names /\ \A n \in DOMAIN users : users[n] \in Passwords
  BY <1>2, StartupAssumption
<1>6. contracts \in Seq(Row) /\ \A c \in DOMAIN contracts : UniqueExamples(contracts[c])
  <2>1. CASE contracts = << >>
    BY <2>1
  <2>2. CASE contracts \in OldContracts
    BY <2>2, StartupAssumption
  <2> QED
    BY <1>2, <2>1, <2>2
<1>7. contracts \in Seq(Row \cup {Gone})
  BY <1>6, SeqMonotonic
<1>8. /\ at \in [Procs -> States] /\ mark \in [Procs -> Mark]
      /\ \A p \in Procs : Down(p) /\ at[p] = "down" /\ mark[p] = NoMark
  BY DEF Init, States, NoMark, Mark, Down
<1>9. TypeOK
  BY <1>3, <1>4, <1>5, <1>7, <1>8, StartupAssumption DEF Init, TypeOK
<1>10. \A p \in Procs : AtWork(p) /\ Undisturbed(p)
  BY <1>8 DEF AtWork, Undisturbed, Migrated, NoMark
<1>11. Bookkept
  BY <1>4, <1>8 DEF Bookkept, Init, Owns
<1>12. ExampleNamesAreUnique
  BY <1>6 DEF ExampleNamesAreUnique, Alive
<1> QED
  BY <1>9, <1>10, <1>11, <1>12 DEF IInv

(* The invariant behind the theorems below, for any number of processes,   *)
(* migrations, statements, users and contracts.                            *)
LEMMA Invariant == Spec => []IInv
<1>1. Init => IInv
  BY InitIsSafe
<1>2. IInv /\ [Next]_vars => IInv'
  BY NextIsSafe
<1> QED
  BY <1>1, <1>2, PTL DEF Spec

(* Tables and locals stay within their types.                              *)
THEOREM Typed == Spec => []TypeOK
<1>1. IInv => TypeOK
  BY DEF IInv
<1> QED
  BY <1>1, Invariant, PTL

(* No server serves on a database with a migration missing, half done or   *)
(* cut off, or without a user to sign in as.                               *)
THEOREM ServesReady == Spec => []ServesOnlyWhatIsReady
<1>1. IInv => ServesOnlyWhatIsReady
  <2> SUFFICES ASSUME IInv, NEW p \in Procs, at[p] = "serving"
               PROVE  /\ cut = {} /\ recorded = Migrations
                      /\ \A m \in Migrations : made[m] = Statements[m]
                      /\ DOMAIN users # {}
    BY DEF ServesOnlyWhatIsReady
  <2>1. TypeOK /\ AtWork(p) /\ Bookkept
    BY DEF IInv
  <2>2. recorded = Migrations /\ DOMAIN users # {}
    BY <2>1 DEF AtWork, Migrated, TypeOK
  <2>3. cut = {}
    BY <2>1, <2>2 DEF Bookkept
  <2> QED
    BY <2>1, <2>2, <2>3 DEF Bookkept
<1> QED
  BY <1>1, Invariant, PTL

(* A start alone on its database leaves no complete pair of the old        *)
(* columns without an example.                                             *)
THEOREM BackfillComplete == Spec => []BackfillIsComplete
<1>1. IInv => BackfillIsComplete
  BY DEF IInv, Undisturbed, Down, BackfillIsComplete
<1> QED
  BY <1>1, Invariant, PTL

(* Neither clients nor backfills give two examples of a contract one name. *)
THEOREM NamesUnique == Spec => []ExampleNamesAreUnique
<1>1. IInv => ExampleNamesAreUnique
  BY DEF IInv
<1> QED
  BY <1>1, Invariant, PTL

----------------------------------------------------------------------------
(* What a step may do                                                      *)

StepOf(p) == Start(p) \/ StartStep(p) \/ Crash(p) \/ ServerStep(p)

(* A process goes from one state to another by a step of its own.          *)
LEMMA OthersStay ==
  ASSUME TypeOK, NEW p \in Procs, NEW q \in Procs, q # p, StepOf(q)
  PROVE  at'[p] = at[p]
  BY DEF StepOf, Start, StartStep, Crash, ServerStep, Stop, Fail, Goto, TypeOK, CheckMigration,
     ApplyStatement, RecordMigration, SelectLegacy, BackfillRow, EndBackfill, CountUsers, SeedAdmin,
     LoadModel, CreateContract, UpdateContract, DeleteContract, EditUser

(* Only the statements of a start fail.                                    *)
LEMMA FailingStep ==
  ASSUME IInv, [Next]_vars, NEW p \in Procs, at'[p] = "failed", at[p] # "failed"
  PROVE  StartStep(p)
<1>0. TypeOK
  BY DEF IInv
<1>1. ~UNCHANGED vars
  BY DEF vars
<1>2. PICK q \in Procs : StepOf(q)
  BY <1>1 DEF Next, StepOf
<1>3. q = p
  BY <1>0, <1>2, OthersStay
<1>4. ~Start(p) /\ ~Crash(p) /\ ~ServerStep(p)
  BY <1>0 DEF Start, Crash, Stop, Goto, TypeOK, ServerStep, CreateContract, UpdateContract,
     DeleteContract, EditUser
<1> QED
  BY <1>2, <1>3, <1>4 DEF StepOf

(* A start that is alone meets a table that exists only where an earlier   *)
(* one was cut off.                                                        *)
LEMMA ExistsOnlyIfCut ==
  ASSUME IInv, NEW p \in Procs, at[p] = "apply", mark[p].alone, mark[p].step \notin Repeatable,
         Exists(mark[p].step, mark[p].statement)
  PROVE  mark[p].step \in cut
<1> DEFINE m == mark[p].step
           k == mark[p].statement
<1>0. TypeOK /\ Bookkept /\ AtWork(p) /\ Undisturbed(p) /\ ~Down(p)
  BY DEF IInv, Down
<1>1. /\ m \in Migrations /\ k \in 1..Statements[m] /\ m \notin recorded
      /\ k > 1 => made[m] = k - 1
      /\ \A q \in Procs \ {p} : Down(q)
  BY <1>0 DEF AtWork, Undisturbed
<1>2. k \in Nat /\ k > 0 /\ made[m] \in Nat /\ made[m] >= k
  BY <1>0, <1>1, MigrationsAreNumbers DEF TypeOK, Exists
<1>3. k = 1 /\ made[m] > 0
  BY <1>1, <1>2
<1>4. \A q \in Procs : ~Owns(q, m)
  BY <1>1, <1>3 DEF Owns, Down
<1> QED
  BY <1>0, <1>1, <1>3, <1>4 DEF Bookkept

LEMMA FailsForAReason ==
  ASSUME IInv, [Next]_vars, NEW p \in Procs, at'[p] = "failed", at[p] # "failed", mark[p].alone
  PROVE  \/ at[p] = "apply" /\ mark[p].step \in cut
         \/ at[p] = "count" /\ mark[p].config.password \in ShortPasswords
         \/ at[p] = "count" /\ DOMAIN users = {} /\ ~CanSeed(mark[p].config)
         \/ at[p] = "load"
<1>0. TypeOK /\ Undisturbed(p) /\ (at[p] \in Starting => ~Down(p))
  BY DEF IInv, Starting, Down
<1>1. StartStep(p)
  BY FailingStep
<1>2. ~CheckMigration(p) /\ ~SelectLegacy(p) /\ ~EndBackfill(p)
  BY <1>0 DEF CheckMigration, SelectLegacy, EndBackfill, Goto, TypeOK
<1>3. CASE ApplyStatement(p)
  <2>1. at[p] = "apply" /\ Exists(mark[p].step, mark[p].statement) /\ mark[p].step \notin Repeatable
    BY <1>0, <1>3 DEF ApplyStatement, Goto, TypeOK
  <2> QED
    BY <2>1, ExistsOnlyIfCut
<1>4. ~RecordMigration(p)
  BY <1>0 DEF RecordMigration, Goto, TypeOK, Undisturbed, Starting
<1>5. ~ \E row \in mark[p].rows : BackfillRow(p, row)
  <2> SUFFICES ASSUME NEW row \in mark[p].rows, BackfillRow(p, row) PROVE FALSE
    OBVIOUS
  <2>1. at[p] = "backfill"
    BY DEF BackfillRow
  <2>2. Fresh(row)
    BY <1>0, <2>1 DEF Undisturbed, Starting
  <2>3. row.contract \in Alive /\ ~HasExample(contracts[row.contract], Default)
    BY <2>2 DEF Fresh, HasExample
  <2> QED
    BY <2>1, <2>3 DEF BackfillRow
<1>6. ~SeedAdmin(p)
  BY <1>0 DEF SeedAdmin, Goto, TypeOK, Undisturbed, Starting, NameIsFree
<1>7. CASE CountUsers(p)
  BY <1>0, <1>7 DEF CountUsers, Goto, TypeOK, NoUsers
<1>8. CASE LoadModel(p)
  BY <1>8 DEF LoadModel
<1> QED
  BY <1>1, <1>2, <1>3, <1>4, <1>5, <1>6, <1>7, <1>8 DEF StartStep

(* A start that has the database to itself fails for no other reason, and  *)
(* at no other statement: in a migration that was cut off, on a password   *)
(* too short to hash, for want of the admin where there are no users, on   *)
(* the model or the port.                                                  *)
THEOREM FailsForItsReasons == Spec => FailsOnlyForAReason
<1>1. IInv /\ [Next]_vars =>
        [\A p \in Procs : at'[p] = "failed" /\ at[p] # "failed" /\ mark[p].alone =>
           \/ at[p] = "apply" /\ mark[p].step \in cut
           \/ at[p] = "count" /\ mark[p].config.password \in ShortPasswords
           \/ at[p] = "count" /\ DOMAIN users = {} /\ ~CanSeed(mark[p].config)
           \/ at[p] = "load"]_vars
  BY FailsForAReason
<1> QED
  BY <1>1, Invariant, PTL DEF Spec, FailsOnlyForAReason

(* What is there already stays as it is.                                   *)
UsersKept == \A n \in DOMAIN users : n \in DOMAIN users' /\ users'[n] = users[n]

ContractsKept ==
  \A c \in Alive :
    /\ contracts'[c].request = contracts[c].request
    /\ contracts'[c].response = contracts[c].response
    /\ \A k \in DOMAIN contracts[c].examples :
         \E l \in DOMAIN contracts'[c].examples :
           contracts'[c].examples[l] = contracts[c].examples[k]

LEMMA SeedKeeps ==
  ASSUME IInv, NEW p \in Procs, SeedAdmin(p)
  PROVE  UsersKept
<1>0. TypeOK /\ AtWork(p) /\ at[p] = "seed"
  BY DEF IInv, SeedAdmin
<1>1. CASE UNCHANGED users
  BY <1>1 DEF UsersKept
<1>2. CASE /\ NameIsFree(mark[p].config.username)
           /\ users' = Put(users, mark[p].config.username, mark[p].config.password)
  BY <1>0, <1>2, SeededSettings, PutUser DEF UsersKept, NameIsFree
<1> QED
  BY <1>1, <1>2 DEF SeedAdmin, Fail, tables

LEMMA BackfillKeeps ==
  ASSUME IInv, NEW p \in Procs, NEW row \in mark[p].rows, BackfillRow(p, row)
  PROVE  ContractsKept
<1> DEFINE c == row.contract
<1>0. TypeOK
  BY DEF IInv
<1>1. CASE UNCHANGED contracts
  BY <1>1 DEF ContractsKept
<1>2. CASE /\ c \in Alive /\ ~HasExample(contracts[c], Default)
           /\ contracts' = [contracts EXCEPT ![c] = WithDefault(@, row.request, row.response)]
  <2>1. /\ row \in Legacy /\ contracts[c] \in Row
        /\ contracts'[c] = WithDefault(contracts[c], row.request, row.response)
        /\ \A d \in Alive \ {c} : contracts'[d] = contracts[d]
    BY <1>0, <1>2, BackfilledRow
  <2>2. row.request \in Values /\ row.response \in Values
    BY <2>1 DEF Legacy
  <2>3. /\ contracts'[c].request = contracts[c].request
        /\ contracts'[c].response = contracts[c].response
        /\ \A k \in DOMAIN contracts[c].examples :
             \E l \in DOMAIN contracts'[c].examples :
               contracts'[c].examples[l] = contracts[c].examples[k]
    BY <2>1, <2>2, WithDefaultIsRow
  <2> QED
    BY <2>1, <2>3 DEF ContractsKept
<1> QED
  BY <1>1, <1>2 DEF BackfillRow, Fail, tables

LEMMA StartsKeep ==
  ASSUME IInv, [Next]_vars, NEW p \in Procs, Advances(p)
  PROVE  UsersKept /\ ContractsKept
<1>1. ~UNCHANGED vars
  BY DEF vars, Advances
<1>2. PICK q \in Procs : StepOf(q)
  BY <1>1 DEF Next, StepOf
<1>3. ~ServerStep(q)
  BY DEF Advances, ServerStep, CreateContract, UpdateContract, DeleteContract, EditUser
<1>4. CASE SeedAdmin(q)
  <2>1. contracts' = contracts
    BY <1>4 DEF SeedAdmin, Fail, tables
  <2> QED
    BY <1>4, <2>1, SeedKeeps DEF ContractsKept
<1>5. CASE \E row \in mark[q].rows : BackfillRow(q, row)
  <2>1. users' = users
    BY <1>5 DEF BackfillRow, Fail, tables
  <2> QED
    BY <1>5, <2>1, BackfillKeeps DEF UsersKept
<1>6. CASE /\ ~SeedAdmin(q) /\ ~ \E row \in mark[q].rows : BackfillRow(q, row)
  <2>1. UNCHANGED <<users, contracts>>
    BY <1>2, <1>3, <1>6 DEF StepOf, Start, StartStep, Crash, tables, CheckMigration, ApplyStatement,
       RecordMigration, SelectLegacy, EndBackfill, CountUsers, LoadModel, Fail
  <2> QED
    BY <2>1 DEF UsersKept, ContractsKept
<1> QED
  BY <1>4, <1>5, <1>6

(* A start gives no user another password, takes no example from a         *)
(* contract and leaves the old columns as they are.                        *)
THEOREM StartsOnlyAdd == Spec => StartsOverwriteNothing
<1>1. IInv /\ [Next]_vars =>
        [\A p \in Procs : Advances(p) =>
           /\ \A n \in DOMAIN users : n \in DOMAIN users' /\ users'[n] = users[n]
           /\ \A c \in Alive :
                /\ contracts'[c].request = contracts[c].request
                /\ contracts'[c].response = contracts[c].response
                /\ \A k \in DOMAIN contracts[c].examples :
                     \E l \in DOMAIN contracts'[c].examples :
                       contracts'[c].examples[l] = contracts[c].examples[k]]_vars
  BY StartsKeep DEF UsersKept, ContractsKept
<1> QED
  BY <1>1, Invariant, PTL DEF Spec, StartsOverwriteNothing

LEMMA EditsKeepMirrors ==
  ASSUME IInv, NEW q \in Procs, ServerStep(q), NEW c \in Alive \cap Alive', Mirrors(contracts[c])
  PROVE  Mirrors(contracts'[c])
<1>0. /\ TypeOK /\ contracts \in Seq(Row \cup {Gone}) /\ c \in DOMAIN contracts
      /\ contracts[c] \in Row /\ contracts'[c] # Gone
      /\ DOMAIN contracts = 1..Len(contracts)
  BY AliveRows DEF IInv, TypeOK, Alive
<1>1. CASE CreateContract(q)
  <2>1. PICK input \in Inputs : Accepted(input) /\ contracts' = Append(contracts, Prepared(input))
    BY <1>1 DEF CreateContract
  <2>2. Prepared(input) \in Row
    BY <2>1, StartupAssumption, PreparedIsRow
  <2>3. contracts'[c] = contracts[c]
    BY <1>0, <2>1, <2>2, AppendProperties
  <2> QED
    BY <2>3
<1>2. CASE UpdateContract(q)
  <2>1. PICK d \in Alive, patch \in Inputs :
          Accepted(patch) /\ contracts' = [contracts EXCEPT ![d] = Merged(@, patch)]
    BY <1>2 DEF UpdateContract
  <2>2. Mirrors(Merged(contracts[c], patch))
    BY <1>0, <2>1, StartupAssumption, MergedIsRow
  <2>3. contracts'[c] = IF c = d THEN Merged(contracts[c], patch) ELSE contracts[c]
    BY <1>0, <2>1
  <2> QED
    BY <2>2, <2>3
<1>3. CASE DeleteContract(q)
  BY <1>0, <1>3 DEF DeleteContract
<1>4. CASE EditUser(q)
  BY <1>4 DEF EditUser
<1> QED
  BY <1>1, <1>2, <1>3, <1>4 DEF ServerStep

LEMMA BackfillBreaksMirror ==
  ASSUME IInv, NEW p \in Procs, NEW row \in mark[p].rows, BackfillRow(p, row), NEW c \in Alive,
         Mirrors(contracts[c]), ~Mirrors(contracts'[c])
  PROVE  /\ at[p] = "backfill" /\ ~mark[p].alone /\ row.contract = c /\ row \notin mark'[p].rows
         /\ ~(contracts[c].request = row.request /\ contracts[c].response = row.response
                /\ contracts[c].examples = << >>)
<1>0. TypeOK /\ Undisturbed(p) /\ at[p] = "backfill" /\ ~Down(p)
  BY DEF IInv, BackfillRow, Down
<1>1. contracts' # contracts
  OBVIOUS
<1>2. /\ row.contract \in Alive /\ ~HasExample(contracts[row.contract], Default)
      /\ contracts' =
           [contracts EXCEPT ![row.contract] = WithDefault(@, row.request, row.response)]
      /\ mark' = [mark EXCEPT ![p].rows = @ \ {row}]
  BY <1>1 DEF BackfillRow, Fail, tables
<1>3. /\ row \in Legacy /\ contracts[row.contract] \in Row
      /\ contracts'[row.contract] =
           WithDefault(contracts[row.contract], row.request, row.response)
      /\ \A d \in Alive \ {row.contract} : contracts'[d] = contracts[d]
  BY <1>0, <1>2, BackfilledRow
<1>4. row.contract = c
  BY <1>3
<1>5. ~(contracts[c].request = row.request /\ contracts[c].response = row.response
          /\ contracts[c].examples = << >>)
  <2>1. row.request \in Values /\ row.response \in Values
    BY <1>3 DEF Legacy
  <2> QED
    BY <1>3, <1>4, <2>1, WithDefaultIsRow
<1>6. ~mark[p].alone
  BY <1>0, <1>4, <1>5 DEF Undisturbed, Fresh
<1>7. row \notin mark'[p].rows
  BY <1>0, <1>2 DEF TypeOK, Mark
<1> QED
  BY <1>0, <1>4, <1>5, <1>6, <1>7

LEMMA MirrorBreaks ==
  ASSUME IInv, [Next]_vars, NEW c \in Alive \cap Alive', Mirrors(contracts[c]),
         ~Mirrors(contracts'[c])
  PROVE  \E p \in Procs : at[p] = "backfill" /\ ~mark[p].alone
           /\ \E row \in mark[p].rows : row.contract = c /\ row \notin mark'[p].rows
                /\ ~(contracts[c].request = row.request /\ contracts[c].response = row.response
                       /\ contracts[c].examples = << >>)
<1>1. contracts' # contracts
  OBVIOUS
<1>2. PICK q \in Procs : StepOf(q)
  BY <1>1 DEF Next, StepOf, vars
<1>3. ~ServerStep(q)
  BY EditsKeepMirrors
<1>4. PICK row \in mark[q].rows : BackfillRow(q, row)
  BY <1>1, <1>2, <1>3 DEF StepOf, Start, StartStep, Crash, tables, CheckMigration, ApplyStatement,
     RecordMigration, SelectLegacy, EndBackfill, CountUsers, SeedAdmin, LoadModel, Fail
<1> QED
  BY <1>4, BackfillBreaksMirror

(* The old columns and the first example of a contract part ways only when *)
(* a row is backfilled that another server has changed in the meantime.    *)
THEOREM MirrorBreaksOnlyIfStale == Spec => MirrorBreaksOnlyByStaleBackfill
<1>1. IInv /\ [Next]_vars =>
        [\A c \in Alive \cap Alive' : Mirrors(contracts[c]) /\ ~Mirrors(contracts'[c]) =>
           \E p \in Procs : at[p] = "backfill" /\ ~mark[p].alone
             /\ \E row \in mark[p].rows : row.contract = c /\ row \notin mark'[p].rows
                  /\ ~(contracts[c].request = row.request /\ contracts[c].response = row.response
                         /\ contracts[c].examples = << >>)]_vars
  BY MirrorBreaks
<1> QED
  BY <1>1, Invariant, PTL DEF Spec, MirrorBreaksOnlyByStaleBackfill
=============================================================================
