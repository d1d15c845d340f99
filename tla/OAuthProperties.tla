-------------------------- MODULE OAuthProperties ---------------------------
(***************************************************************************)
(* What the authorization server guarantees to concurrent requests, and    *)
(* the abstract grant it implements.                                       *)
(***************************************************************************)
EXTENDS OAuth

(* The tables and every task's locals stay within their types.             *)
TypeOK ==
  /\ DOMAIN clients \subseteq Clients
  /\ \A c \in DOMAIN clients : clients[c] \subseteq Uris
  /\ users \in [Users -> User]
  /\ minted \in Nat /\ now \in Nat /\ budget \in Nat
  /\ DOMAIN codes \cup DOMAIN access \cup DOMAIN refresh = DOMAIN grantOf
  /\ DOMAIN grantOf \subseteq 1..minted
  /\ \A x \in DOMAIN codes : codes[x] \in Code
  /\ \A x \in DOMAIN access : access[x] \in Access
  /\ \A x \in DOMAIN refresh : refresh[x] \in Refresh
  /\ \A x \in DOMAIN grantOf : grantOf[x] \in DOMAIN codes
  /\ pc \in [Tasks -> Calls \cup {"idle"}]
  /\ local \in [Tasks -> Local]
  /\ reply \in [Tasks -> Replies]

(* A task between the redemption of a code or refresh token and its answer. *)
Exchanging(t) == pc[t] \in {"owner", "access", "refresh"}

Grant(t) == grantOf[local[t].token]

LiveRefresh(r) == r \in DOMAIN refresh /\ ~refresh[r].revoked

(* However requests for one code or refresh token race, an authorization   *)
(* is in one hand at a time: its unused code, or one exchange under way,   *)
(* or one refresh token.                                                   *)
OneHolder ==
  /\ \A x \in DOMAIN codes : ~codes[x].consumed =>
       /\ \A r \in DOMAIN refresh : LiveRefresh(r) => grantOf[r] # x
       /\ \A t \in Tasks : Exchanging(t) => Grant(t) # x
  /\ \A r \in DOMAIN refresh : LiveRefresh(r) =>
       /\ \A q \in DOMAIN refresh : LiveRefresh(q) /\ grantOf[q] = grantOf[r] => q = r
       /\ \A t \in Tasks : Exchanging(t) => Grant(t) # grantOf[r]
  /\ \A t, u \in Tasks : Exchanging(t) /\ Exchanging(u) /\ Grant(t) = Grant(u) => t = u

(* However often a pair is refreshed, and whatever becomes of the user in  *)
(* the meantime, its client, user and scope are those of the consent.      *)
TokensKeepTheirGrant ==
  /\ \A a \in DOMAIN access :
       LET code == codes[grantOf[a]]
       IN  /\ access[a].client = code.client /\ access[a].user = code.user
           /\ access[a].scope = code.scope
  /\ \A r \in DOMAIN refresh :
       LET code == codes[grantOf[r]]
       IN  /\ refresh[r].client = code.client /\ refresh[r].user = code.user
           /\ refresh[r].scope = code.scope

(* A request starts to run only for a user who is active at that moment,   *)
(* with scopes that both the consent and the user's role of that moment    *)
(* allow: a demotion reaches every token that is out.                      *)
RunsWithinGrantAndRole ==
  [][\A t \in Tasks : pc[t] # "run" /\ pc'[t] = "run" =>
       LET code == codes[Grant(t)]
           u == users[code.user]
       IN  /\ u.active
           /\ local'[t].scope \subseteq code.scope \cap RoleScopes(u.role)]_vars

(* A client that is told its new pair can use it: both tokens are stored,  *)
(* and the refresh token is not yet spent.                                 *)
AnsweredPairIsStored ==
  [][\A t \in Tasks : pc[t] # "idle" /\ pc'[t] = "idle" /\ reply'[t] = "tokens" =>
       /\ local[t].fresh \in DOMAIN access'
       /\ Partner(local[t].fresh) \in DOMAIN refresh'
       /\ ~refresh'[Partner(local[t].fresh)].revoked]_vars

CodeOpen(x, at)    == ~codes[x].consumed /\ at < codes[x].expires
RefreshOpen(x, at) == ~refresh[x].revoked /\ at < refresh[x].expires

(* A grant that can still yield tokens: through its code or refresh token  *)
(* before the expiry, or through a request that arrived before it.         *)
Alive(g) ==
  \/ CodeOpen(g, now)
  \/ \E r \in DOMAIN refresh : grantOf[r] = g /\ RefreshOpen(r, now)
  \/ \E t \in Tasks : /\ pc[t] = "redeem" /\ local[t].token = g
                      /\ CodeOpen(g, local[t].at)
  \/ \E t \in Tasks : /\ pc[t] = "rotate" /\ Grant(t) = g
                      /\ RefreshOpen(local[t].token, local[t].at)
  \/ \E t \in Tasks : Exchanging(t) /\ Grant(t) = g

(* A grant that has expired or was spent never comes back to life: no late *)
(* or repeated request revives it.                                         *)
SpentStaysSpent ==
  [][\A g \in DOMAIN codes : ~Alive(g) => ~Alive(g)']_vars

----------------------------------------------------------------------------
(* The baton of each grant.                                                *)
Stage(g) ==
  IF ~codes[g].consumed THEN "code"
  ELSE IF \E r \in DOMAIN refresh : LiveRefresh(r) /\ grantOf[r] = g THEN "refresh"
  ELSE IF \E t \in Tasks : pc[t] = "refresh" /\ Grant(t) = g THEN "paired"
  ELSE IF \E t \in Tasks : Exchanging(t) /\ Grant(t) = g THEN "exchange"
  ELSE "spent"

G == INSTANCE Grant WITH
       stage <- [g \in DOMAIN codes |-> Stage(g)],
       given <- {<<grantOf[a], a>> : a \in DOMAIN access}

(* Codes, exchanges and refresh tokens of the server pass one baton per    *)
(* grant: each exchange hands out at most one access token, and each       *)
(* token is traded in at most once.                                        *)
ImplementsGrant == G!GrantSpec
=============================================================================
