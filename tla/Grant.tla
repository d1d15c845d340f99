------------------------------- MODULE Grant --------------------------------
(***************************************************************************)
(* What an approved authorization promises: it is a baton.  It starts as a *)
(* code, one exchange at a time takes it up, hands out one access token    *)
(* and lays it down again as a refresh token, or drops it for good.        *)
(***************************************************************************)
VARIABLES
  stage,  \* grant -> "code", "exchange", "paired", "refresh" or "spent"
  given   \* <<grant, access token>> handed out

grants == <<stage, given>>

Move(g, from, to) ==
  /\ g \in DOMAIN stage
  /\ stage[g] \in from
  /\ stage' = [stage EXCEPT ![g] = to]

Approve(g) ==
  /\ g \notin DOMAIN stage
  /\ stage' = [h \in DOMAIN stage \cup {g} |-> IF h = g THEN "code" ELSE stage[h]]
  /\ UNCHANGED given

TakeUp(g) == Move(g, {"code", "refresh"}, "exchange") /\ UNCHANGED given

HandOut(g, a) ==
  /\ Move(g, {"exchange"}, "paired")
  /\ \A e \in given : e[2] # a
  /\ given' = given \cup {<<g, a>>}

LayDown(g) == Move(g, {"paired"}, "refresh") /\ UNCHANGED given

(* A mistaken or lost exchange.                                            *)
Drop(g) == Move(g, {"code", "exchange", "paired", "refresh"}, "spent") /\ UNCHANGED given

GrantInit == stage = << >> /\ given = {}

GrantNext ==
  \/ \E g \in DOMAIN stage' : Approve(g)
  \/ \E g \in DOMAIN stage :
       \/ TakeUp(g) \/ LayDown(g) \/ Drop(g)
       \/ \E e \in given' : HandOut(g, e[2])

GrantSpec == GrantInit /\ [][GrantNext]_grants
=============================================================================
