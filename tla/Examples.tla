------------------------------ MODULE Examples ------------------------------
(***************************************************************************)
(* The examples of a contract and the two columns they grew out of         *)
(* (contract_repo_sqlite.rs).  A contract once had one request_example and *)
(* one response_example; it now has a list of named examples, and the old  *)
(* columns are kept as a copy of the first of them for the clients that    *)
(* still read and write them.                                              *)
(*                                                                         *)
(* Kind and status code of an example are left out: they are stored and    *)
(* shown, and nothing depends on them.  A JSON value is a model value.     *)
(***************************************************************************)
EXTENDS Naturals, Sequences

CONSTANTS
  ExampleNames,
  TrimExample,       \* str::trim on the names of examples
  RejectedExamples,  \* the names ContractExampleInput::validate refuses
  Default,           \* the name given to a pair of the old columns
  Values,            \* JSON values
  JsonNull,          \* the default serde_json::Value
  MaxExamples,       \* the most examples a contract may have
  Unset              \* an absent field

ASSUME ExamplesAssumption ==
  /\ TrimExample \in [ExampleNames -> ExampleNames]
  /\ RejectedExamples \subseteq ExampleNames
  /\ Default \in ExampleNames
  /\ JsonNull \in Values
  /\ MaxExamples \in Nat
  /\ Unset \notin Values /\ Unset \notin Seq([name : ExampleNames, request : Values, response : Values])

Example == [name : ExampleNames, request : Values, response : Values]

(* What of a contract's row this module is about.                          *)
Row == [request : Values \cup {Unset}, response : Values \cup {Unset}, examples : Seq(Example)]

(* The same fields of a create or of a patch.                              *)
Input == [request : Values \cup {Unset}, response : Values \cup {Unset},
          examples : Seq(Example) \cup {Unset}]

ExamplesFromInput(es) == [k \in DOMAIN es |-> [es[k] EXCEPT !.name = TrimExample[@]]]

(* validate_examples; the names are compared as they will be stored.       *)
ValidExamples(es) ==
  /\ Len(es) <= MaxExamples
  /\ \A k \in DOMAIN es : es[k].name \notin RejectedExamples
  /\ \A j, k \in DOMAIN es : TrimExample[es[j].name] = TrimExample[es[k].name] => j = k

Accepted(input) == input.examples # Unset => ValidExamples(input.examples)

(* The row whose old columns show the first of its examples.               *)
Mirrored(es) ==
  [request  |-> IF es = << >> THEN Unset ELSE es[1].request,
   response |-> IF es = << >> THEN Unset ELSE es[1].response,
   examples |-> es]

DefaultExample(request, response) ==
  [name |-> Default, request |-> request, response |-> response]

(* prepare_examples: a complete pair without a list becomes an example.    *)
Prepared(input) ==
  LET complete == input.request # Unset /\ input.response # Unset
  IN IF input.examples # Unset THEN Mirrored(ExamplesFromInput(input.examples))
     ELSE [request |-> input.request, response |-> input.response,
           examples |-> IF complete THEN <<DefaultExample(input.request, input.response)>>
                        ELSE << >>]

Or(new, old) == IF new # Unset THEN new ELSE old

(* Mutated form: the first example is not brought in line with the columns. *)
MergedColumns(row, patch) ==
  IF patch.examples # Unset THEN Mirrored(ExamplesFromInput(patch.examples))
  ELSE [row EXCEPT !.request = Or(patch.request, @), !.response = Or(patch.response, @)]

(* update: a list replaces the examples and the columns; a patch of a      *)
(* column also changes the first example, if there is one.                 *)
Merged(row, patch) ==
  LET request  == Or(patch.request, row.request)
      response == Or(patch.response, row.response)
      touched  == patch.request # Unset \/ patch.response # Unset
      first    == [row.examples[1] EXCEPT !.request = Or(request, JsonNull),
                                          !.response = Or(response, JsonNull)]
  IN IF patch.examples # Unset THEN Mirrored(ExamplesFromInput(patch.examples))
     ELSE [request |-> request, response |-> response,
           examples |-> IF touched /\ row.examples # << >>
                        THEN [row.examples EXCEPT ![1] = first] ELSE row.examples]

(* Mutated form: one of the two columns is enough.                          *)
LacksEither(row) == (row.request # Unset \/ row.response # Unset) /\ row.examples = << >>

(* The rows that backfill_legacy_examples selects.                         *)
Lacks(row) == row.request # Unset /\ row.response # Unset /\ row.examples = << >>

(* Mutated form: only the first example's name is compared.                 *)
FirstIsNamed(row, name) == row.examples # << >> /\ row.examples[1].name = name

(* UNIQUE (contract_id, name)                                              *)
HasExample(row, name) == \E k \in DOMAIN row.examples : row.examples[k].name = name

(* A row inserted with ordinal 0 and a new id comes after the example that *)
(* has ordinal 0 already, and before all others.                           *)
WithDefault(row, request, response) ==
  LET es == row.examples
      new == <<DefaultExample(request, response)>>
  IN [row EXCEPT !.examples = IF es = << >> THEN new ELSE <<es[1]>> \o new \o Tail(es)]

(* The old columns show what the first example shows.                      *)
Mirrors(row) ==
  row.examples # << >> =>
    row.request = row.examples[1].request /\ row.response = row.examples[1].response

UniqueExamples(row) ==
  \A j, k \in DOMAIN row.examples : row.examples[j].name = row.examples[k].name => j = k
=============================================================================
