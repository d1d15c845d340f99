------------------------------ MODULE MCOAuth -------------------------------
(***************************************************************************)
(* The instance of the authorization server for TLC.                       *)
(***************************************************************************)
EXTENDS OAuthProperties, TLC

CONSTANTS t1, t2, u1, c1, c2, r1, v1, v2, h1, h2

TaskSymmetry == Permutations({t1, t2})

MCDigest == [v \in {v1, v2} |-> IF v = v1 THEN h1 ELSE h2]

(* A client that asks for all there is.                                    *)
MCConsentForms ==
  {[client |-> c1, uri |-> r1, challenge |-> h1, scope |-> {"read", "write", "admin"}]}

(* The form that matches, one of another client, and one with the wrong    *)
(* verifier.                                                               *)
MCTokenForms ==
  [client : {c1}, uri : {r1}, verifier : {v1, v2}]
    \cup [client : {c2}, uri : {r1}, verifier : {v1}]
=============================================================================
