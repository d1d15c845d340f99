------------------------------- MODULE OAuth --------------------------------
(***************************************************************************)
(* The OAuth authorization server of ledgapi (web/oauth.rs) and the bearer *)
(* check of the MCP endpoint (infra/auth/middleware.rs): clients register, *)
(* users consent, codes and refresh tokens are exchanged for pairs of      *)
(* tokens, and access tokens open requests.                                *)
(*                                                                         *)
(* As in Registry, a repository call is one atomic step and requests       *)
(* interleave between calls; pc[t] names the call task t makes next.       *)
(* Handlers read the clock before the call they pass it to, so a task      *)
(* carries the time it has read in local[t].at.                            *)
(*                                                                         *)
(* A code or token is the number of the token::generate() call it came     *)
(* from: these never repeat.  grantOf is a history variable, the code that *)
(* each token descends from; the program keeps no such link.               *)
(***************************************************************************)
EXTENDS Naturals, FiniteSets

CONSTANTS
  Tasks,       \* request handlers that can run at the same time
  Users,       \* users; no code deletes one
  Clients,     \* client ids that registration can hand out
  Uris,        \* redirect URIs
  BadUris,     \* those that valid_redirect_uri refuses
  Verifiers,   \* PKCE code verifiers
  Challenges,  \* PKCE code challenges
  Digest,      \* S256: the challenge of each verifier
  ConsentForms, \* the consents that clients ask for
  TokenForms,  \* what clients send to the token endpoint beside the token
  CodeTtl, AccessTtl, RefreshTtl,  \* configured life times
  Budget,      \* bound: requests of clients and edits of users
  MaxTime,     \* bound: the last instant of the clock
  Unset        \* an absent value (None)

Scopes == {"read", "write", "admin"}
Roles  == {"super_admin", "editor", "viewer"}

ConsentForm == [client : Clients, uri : Uris, challenge : Challenges, scope : SUBSET Scopes]
TokenForm   == [client : Clients, uri : Uris, verifier : Verifiers]

ASSUME ConstantsAssumption ==
  /\ BadUris \subseteq Uris
  /\ Digest \in [Verifiers -> Challenges]
  /\ ConsentForms \subseteq ConsentForm
  /\ TokenForms \subseteq TokenForm
  /\ {CodeTtl, AccessTtl, RefreshTtl, Budget, MaxTime} \subseteq Nat
  /\ Unset \notin Users \cup Clients \cup Uris \cup Verifiers \cup Challenges

VARIABLES
  clients,  \* table oauth_clients: client id -> registered redirect URIs
  users,    \* table users: role and active flag
  codes,    \* table oauth_authorization_codes
  access,   \* table oauth_access_tokens
  refresh,  \* table oauth_refresh_tokens
  minted,   \* how many codes and tokens token::generate() has made
  grantOf,  \* history: code or token -> the code it descends from
  now,      \* OffsetDateTime::now_utc()
  pc,       \* the next repository call of each task
  local,    \* the local variables of each task
  reply,    \* the last answer of each task
  budget    \* requests and edits still to come

tables == <<clients, users, codes, access, refresh, minted, grantOf>>
vars   == <<clients, users, codes, access, refresh, minted, grantOf, now, pc, local,
            reply, budget>>

User    == [role : Roles, active : BOOLEAN]
Code    == [client : Clients, user : Users, uri : Uris, scope : SUBSET Scopes,
            challenge : Challenges, expires : Nat, consumed : BOOLEAN]
Access  == [client : Clients, user : Users, scope : SUBSET Scopes, expires : Nat]
Refresh == [client : Clients, user : Users, scope : SUBSET Scopes, expires : Nat,
            revoked : BOOLEAN]

Calls == {"principal", "client", "grant", "redeem", "rotate", "owner", "access",
          "refresh", "token", "bearer", "run"}

Replies == {"none", "lost", "login", "invalid_request", "denied", "approved",
            "invalid_grant", "tokens", "unauthorized", "served"}

(* The token presented, the fields of the form or of the row read for it,  *)
(* the time read, and the first of the codes or tokens generated.          *)
Local == [token : Nat, client : Clients \cup {Unset}, uri : Uris \cup {Unset},
          proof : Verifiers \cup Challenges \cup {Unset}, user : Users \cup {Unset},
          scope : SUBSET Scopes, at : Nat, fresh : Nat]

NoLocals == [token |-> 0, client |-> Unset, uri |-> Unset, proof |-> Unset,
             user |-> Unset, scope |-> {}, at |-> 0, fresh |-> 0]

----------------------------------------------------------------------------
(* Scopes, expiry and row operations                                       *)

Put(table, i, v) ==
  [j \in DOMAIN table \cup {i} |-> IF j = i THEN v ELSE table[j]]

(* role_scopes: what a role may do at all.                                 *)
RoleScopes(role) ==
  [super_admin |-> Scopes, editor |-> {"read", "write"}, viewer |-> {"read"}][role]

(* effective_scopes: reading is for everyone, writing for who can_write,   *)
(* administration for who can_manage_users; anything else is dropped.      *)
EffectiveScopes(role, requested) ==
  {s \in requested : \/ s = "read"
                     \/ s = "write" /\ role \in {"super_admin", "editor"}
                     \/ s = "admin" /\ role = "super_admin"}

(* Mutated form: good to the instant of expiry and including it.           *)
UnexpiredInclusive(row, at) == row.expires >= at

(* expires_at > now, at the time the caller has read.                      *)
Unexpired(row, at) == row.expires > at

(* Mutated form: consumed_at IS NULL is left out of the query.             *)
UsableCodeIfUnexpired(x, at) == Unexpired(codes[x], at)

UsableCode(x, at) == ~codes[x].consumed /\ Unexpired(codes[x], at)

(* Mutated form: revoked_at IS NULL is left out of the query.              *)
UsableRefreshIfUnexpired(x, at) == Unexpired(refresh[x], at)

UsableRefresh(x, at) == ~refresh[x].revoked /\ Unexpired(refresh[x], at)

(* The pair a task issues: the access token, then the refresh token.       *)
Partner(a) == a + 1

----------------------------------------------------------------------------
(* Control of a task                                                       *)

Goto(t, call) == pc' = [pc EXCEPT ![t] = call] /\ UNCHANGED reply

Answer(t, outcome) ==
  /\ pc' = [pc EXCEPT ![t] = "idle"]
  /\ reply' = [reply EXCEPT ![t] = outcome]
  /\ local' = [local EXCEPT ![t] = NoLocals]

(* A request arrives with locals l at an idle task.                        *)
Begin(t, call, l) ==
  /\ pc[t] = "idle"
  /\ budget > 0
  /\ budget' = budget - 1
  /\ pc' = [pc EXCEPT ![t] = call]
  /\ local' = [local EXCEPT ![t] = l]
  /\ reply' = [reply EXCEPT ![t] = "none"]
  /\ UNCHANGED <<tables, now>>

----------------------------------------------------------------------------
(* What happens beside the requests                                        *)

(* POST /oauth/register: one insert under a new client id.                 *)
Register ==
  /\ \E c \in Clients \ DOMAIN clients, uris \in SUBSET (Uris \ BadUris) \ {{}} :
       clients' = Put(clients, c, uris)
  /\ UNCHANGED <<users, codes, access, refresh, minted, grantOf, now, pc, local,
                 reply, budget>>

(* An administrator changes a user's role or active flag.                  *)
ChangeUser ==
  /\ budget > 0
  /\ budget' = budget - 1
  /\ \E u \in Users, v \in User : v # users[u] /\ users' = [users EXCEPT ![u] = v]
  /\ UNCHANGED <<clients, codes, access, refresh, minted, grantOf, now, pc, local, reply>>

Tick ==
  /\ now < MaxTime
  /\ now' = now + 1
  /\ UNCHANGED <<tables, pc, local, reply, budget>>

----------------------------------------------------------------------------
(* Consent                                                                 *)

(* POST /oauth/authorize by a user with a session.  Without one, with the  *)
(* wrong csrf token or an unsupported challenge method, nothing is read or *)
(* written that matters here.                                              *)
BeginConsent(t) ==
  \E u \in Users, f \in ConsentForms :
    Begin(t, "principal",
          [NoLocals EXCEPT !.user = u, !.client = f.client, !.uri = f.uri,
                           !.proof = f.challenge, !.scope = f.scope])

(* session_principal_for_cookie: the user's role decides the scope.        *)
ReadPrincipal(t) ==
  LET u == users[local[t].user]
  IN /\ pc[t] = "principal"
     /\ \/ ~u.active /\ Answer(t, "login")
        \/ /\ u.active
           /\ local' = [local EXCEPT ![t].scope = EffectiveScopes(u.role, @)]
           /\ Goto(t, "client")
     /\ UNCHANGED <<tables, now, budget>>

(* validate_authorize_request, the user's decision, and a new code.        *)
ReadClient(t) ==
  LET c == local[t].client
      registered == c \in DOMAIN clients /\ local[t].uri \in clients[c]
  IN /\ pc[t] = "client"
     /\ \/ ~registered /\ Answer(t, "invalid_request") /\ UNCHANGED minted
        \/ registered /\ Answer(t, "denied") /\ UNCHANGED minted
        \/ /\ registered
           /\ minted' = minted + 1
           /\ local' = [local EXCEPT ![t].fresh = minted + 1, ![t].at = now]
           /\ Goto(t, "grant")
     /\ UNCHANGED <<clients, users, codes, access, refresh, grantOf, now, budget>>

(* create_authorization_code; the redirect hands it to the client.         *)
StoreCode(t) ==
  LET l == local[t]
  IN /\ pc[t] = "grant"
     /\ codes' = Put(codes, l.fresh,
          [client |-> l.client, user |-> l.user, uri |-> l.uri, scope |-> l.scope,
           challenge |-> l.proof, expires |-> l.at + CodeTtl, consumed |-> FALSE])
     /\ grantOf' = Put(grantOf, l.fresh, l.fresh)
     /\ Answer(t, "approved")
     /\ UNCHANGED <<clients, users, access, refresh, minted, now, budget>>

----------------------------------------------------------------------------
(* The token endpoint                                                      *)

(* grant_type=authorization_code, with a code that was handed out.         *)
BeginExchange(t) ==
  \E x \in DOMAIN codes, f \in TokenForms :
    Begin(t, "redeem",
          [NoLocals EXCEPT !.token = x, !.client = f.client, !.uri = f.uri,
                           !.proof = f.verifier, !.at = now])

(* grant_type=refresh_token.                                               *)
BeginRefresh(t) ==
  \E x \in DOMAIN refresh, f \in TokenForms :
    Begin(t, "rotate", [NoLocals EXCEPT !.token = x, !.client = f.client, !.at = now])

(* The form's client, redirect URI and verifier are those of the code.     *)
MatchesCode(t, row) ==
  /\ local[t].client = row.client
  /\ local[t].uri = row.uri
  /\ Digest[local[t].proof] = row.challenge

(* The task goes on to issue_tokens with what the row says.                *)
IssueFor(t, row) ==
  /\ local' = [local EXCEPT ![t].client = row.client, ![t].user = row.user,
                            ![t].scope = row.scope]
  /\ Goto(t, "owner")

(* consume_authorization_code, then the comparison with the form: a form   *)
(* that does not match has used up the code.                               *)
RedeemCode(t) ==
  LET x == local[t].token
  IN /\ pc[t] = "redeem"
     /\ \/ ~UsableCode(x, local[t].at) /\ Answer(t, "invalid_grant") /\ UNCHANGED codes
        \/ /\ UsableCode(x, local[t].at)
           /\ codes' = [codes EXCEPT ![x].consumed = TRUE]
           /\ IF MatchesCode(t, codes[x])
              THEN IssueFor(t, codes[x])
              ELSE Answer(t, "invalid_grant")
     /\ UNCHANGED <<clients, users, access, refresh, minted, grantOf, now, budget>>

(* consume_refresh_token, then the comparison of the client.               *)
RedeemRefresh(t) ==
  LET x == local[t].token
  IN /\ pc[t] = "rotate"
     /\ \/ ~UsableRefresh(x, local[t].at) /\ Answer(t, "invalid_grant") /\ UNCHANGED refresh
        \/ /\ UsableRefresh(x, local[t].at)
           /\ refresh' = [refresh EXCEPT ![x].revoked = TRUE]
           /\ IF local[t].client = refresh[x].client
              THEN IssueFor(t, refresh[x])
              ELSE Answer(t, "invalid_grant")
     /\ UNCHANGED <<clients, users, codes, access, minted, grantOf, now, budget>>

(* Mutated form: the scope is that of the user's present role.             *)
ReadOwnerAndScope(t) ==
  LET u == users[local[t].user]
  IN /\ pc[t] = "owner"
     /\ \/ ~u.active /\ Answer(t, "invalid_grant") /\ UNCHANGED minted
        \/ /\ u.active
           /\ minted' = minted + 2
           /\ local' = [local EXCEPT ![t].fresh = minted + 1, ![t].at = now,
                                     ![t].scope = RoleScopes(u.role)]
           /\ Goto(t, "access")
     /\ UNCHANGED <<clients, users, codes, access, refresh, grantOf, now, budget>>

(* Mutated form: one token is generated where two are used.                *)
ReadOwnerOnce(t) ==
  LET u == users[local[t].user]
  IN /\ pc[t] = "owner"
     /\ \/ ~u.active /\ Answer(t, "invalid_grant") /\ UNCHANGED minted
        \/ /\ u.active
           /\ minted' = minted + 1
           /\ local' = [local EXCEPT ![t].fresh = minted + 1, ![t].at = now]
           /\ Goto(t, "access")
     /\ UNCHANGED <<clients, users, codes, access, refresh, grantOf, now, budget>>

(* issue_tokens: the user must be active; two new tokens.                  *)
ReadOwner(t) ==
  LET u == users[local[t].user]
  IN /\ pc[t] = "owner"
     /\ \/ ~u.active /\ Answer(t, "invalid_grant") /\ UNCHANGED minted
        \/ /\ u.active
           /\ minted' = minted + 2
           /\ local' = [local EXCEPT ![t].fresh = minted + 1, ![t].at = now]
           /\ Goto(t, "access")
     /\ UNCHANGED <<clients, users, codes, access, refresh, grantOf, now, budget>>

(* Mutated form: a failed insert does not end the request.                 *)
StoreAccessOrGoOn(t) ==
  LET l == local[t]
  IN /\ pc[t] = "access"
     /\ \/ /\ access' = Put(access, l.fresh,
                [client |-> l.client, user |-> l.user, scope |-> l.scope,
                 expires |-> l.at + AccessTtl])
           /\ grantOf' = Put(grantOf, l.fresh, grantOf[l.token])
        \/ UNCHANGED <<access, grantOf>>
     /\ Goto(t, "refresh")
     /\ UNCHANGED <<clients, users, codes, refresh, minted, now, local, budget>>

(* create_access_token.                                                    *)
StoreAccess(t) ==
  LET l == local[t]
  IN /\ pc[t] = "access"
     /\ access' = Put(access, l.fresh,
          [client |-> l.client, user |-> l.user, scope |-> l.scope,
           expires |-> l.at + AccessTtl])
     /\ grantOf' = Put(grantOf, l.fresh, grantOf[l.token])
     /\ Goto(t, "refresh")
     /\ UNCHANGED <<clients, users, codes, refresh, minted, now, local, budget>>

(* create_refresh_token; the answer carries the pair.                      *)
StoreRefresh(t) ==
  LET l == local[t]
      new == Partner(l.fresh)
  IN /\ pc[t] = "refresh"
     /\ refresh' = Put(refresh, new,
          [client |-> l.client, user |-> l.user, scope |-> l.scope,
           expires |-> l.at + RefreshTtl, revoked |-> FALSE])
     /\ grantOf' = Put(grantOf, new, grantOf[l.token])
     /\ Answer(t, "tokens")
     /\ UNCHANGED <<clients, users, codes, access, minted, now, budget>>

----------------------------------------------------------------------------
(* The bearer check                                                        *)

(* A request to /mcp with an access token that was handed out, which is    *)
(* together with its partner.                                              *)
BeginCall(t) ==
  \E a \in DOMAIN access :
    /\ Partner(a) \in DOMAIN refresh
    /\ Begin(t, "token", [NoLocals EXCEPT !.token = a, !.at = now])

(* find_access_token.                                                      *)
FindToken(t) ==
  LET a == access[local[t].token]
  IN /\ pc[t] = "token"
     /\ \/ ~Unexpired(a, local[t].at) /\ Answer(t, "unauthorized")
        \/ /\ Unexpired(a, local[t].at)
           /\ local' = [local EXCEPT ![t].user = a.user, ![t].scope = a.scope,
                                     ![t].client = a.client]
           /\ Goto(t, "bearer")
     /\ UNCHANGED <<tables, now, budget>>

(* Mutated form: the request runs with what the role allows.               *)
ReadBearerRole(t) ==
  LET u == users[local[t].user]
  IN /\ pc[t] = "bearer"
     /\ \/ ~u.active /\ Answer(t, "unauthorized")
        \/ /\ u.active
           /\ local' = [local EXCEPT ![t].scope = RoleScopes(u.role)]
           /\ Goto(t, "run")
     /\ UNCHANGED <<tables, now, budget>>

(* The user must be active; the request runs with the token's scopes that  *)
(* the user's present role allows.                                         *)
ReadBearer(t) ==
  LET u == users[local[t].user]
  IN /\ pc[t] = "bearer"
     /\ \/ ~u.active /\ Answer(t, "unauthorized")
        \/ /\ u.active
           /\ local' = [local EXCEPT ![t].scope = @ \cap RoleScopes(u.role)]
           /\ Goto(t, "run")
     /\ UNCHANGED <<tables, now, budget>>

(* next.run: the MCP server does the rest.                                 *)
Serve(t) ==
  /\ pc[t] = "run"
  /\ Answer(t, "served")
  /\ UNCHANGED <<tables, now, budget>>

----------------------------------------------------------------------------
(* The task ends before its next call: client gone, process stopped, or a  *)
(* call failed.                                                            *)
Abort(t) ==
  /\ pc[t] # "idle"
  /\ Answer(t, "lost")
  /\ UNCHANGED <<tables, now, budget>>

Init ==
  /\ clients = << >>
  /\ users \in [Users -> [role : Roles, active : {TRUE}]]
  /\ codes   = << >>
  /\ access  = << >>
  /\ refresh = << >>
  /\ minted  = 0
  /\ grantOf = << >>
  /\ now     = 0
  /\ pc      = [t \in Tasks |-> "idle"]
  /\ local   = [t \in Tasks |-> NoLocals]
  /\ reply   = [t \in Tasks |-> "none"]
  /\ budget  = Budget

Arrive(t) == BeginConsent(t) \/ BeginExchange(t) \/ BeginRefresh(t) \/ BeginCall(t)

Step(t) ==
  \/ ReadPrincipal(t) \/ ReadClient(t) \/ StoreCode(t)
  \/ RedeemCode(t) \/ RedeemRefresh(t) \/ ReadOwner(t) \/ StoreAccess(t) \/ StoreRefresh(t)
  \/ FindToken(t) \/ ReadBearer(t) \/ Serve(t)

(* All requests are answered and the clock has stopped.                    *)
Finished ==
  /\ budget = 0 /\ now = MaxTime /\ DOMAIN clients = Clients
  /\ \A t \in Tasks : pc[t] = "idle"
  /\ UNCHANGED vars

Next ==
  \/ \E t \in Tasks : Arrive(t) \/ Step(t) \/ Abort(t)
  \/ Register \/ ChangeUser \/ Tick \/ Finished

Spec == Init /\ [][Next]_vars
=============================================================================
