------------------------------ MODULE MCStartup ------------------------------
(***************************************************************************)
(* The instance of the start for TLC: the five migrations with at most two *)
(* statements each, two server processes, and databases of any version.    *)
(***************************************************************************)
EXTENDS StartupProperties

CONSTANTS p1, p2, root, badname, long, short, other, dflt, named, padded, empty, v, w, null

MCStatements == <<2, 1, 2, 2, 2>>

MCTrim == [n \in {dflt, named, padded, empty} |-> IF n = padded THEN dflt ELSE n]

MCConfigs ==
  {[username |-> root, password |-> long], [username |-> root, password |-> short],
   [username |-> Unset, password |-> Unset], [username |-> badname, password |-> long]}

MCOldUsers == {[n \in {root} |-> other]}

Columns(q, r) == [request |-> q, response |-> r, examples |-> << >>]

Ex(n, q, r) == [name |-> n, request |-> q, response |-> r]

Listed == [request |-> v, response |-> w, examples |-> <<Ex(named, v, w), Ex(dflt, w, w)>>]

MCOldContracts == {<<Columns(v, Unset), Columns(w, w)>>, <<Listed>>}

Pair(q, r) == [request |-> q, response |-> r, examples |-> Unset]

With(es) == [request |-> Unset, response |-> Unset, examples |-> es]

MCInputs ==
  {Pair(v, w), With(<<Ex(named, v, v), Ex(dflt, w, w)>>),
   With(<<Ex(dflt, v, v), Ex(padded, w, w)>>), With(<<Ex(empty, v, v)>>), With(<< >>)}
=============================================================================
