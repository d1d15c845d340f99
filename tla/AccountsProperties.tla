------------------------- MODULE AccountsProperties -------------------------
(***************************************************************************)
(* What the administration of users guarantees to concurrent requests.     *)
(***************************************************************************)
EXTENDS Accounts

(* The tables and every task's locals stay within their types.             *)
TypeOK ==
  /\ users \in Seq(User)
  /\ sessions \in Seq(Session)
  /\ \A s \in DOMAIN sessions : sessions[s].user \in DOMAIN users
  /\ projects \in Seq(Slugs)
  /\ audit \in Seq(Event)
  /\ now \in Nat /\ budget \in Nat
  /\ pc \in [Tasks -> Calls \cup {"idle"}]
  /\ local \in [Tasks -> Local]
  /\ reply \in [Tasks -> Replies]
  /\ merits \in [Tasks -> SUBSET Merits]

(* Past the checks, a request has had its right to go on at some instant   *)
(* since it arrived: a login the credentials of an active user, a page a   *)
(* session neither revoked nor expired and an owner who was an active      *)
(* super admin, a project a bearer who may write.  A session that is       *)
(* revoked, or whose owner is deactivated or demoted, opens no page to any *)
(* request sent after that.                                                *)
AuthorityWasHeld ==
  \A t \in Tasks :
    /\ pc[t] = "open" => "credentials" \in merits[t]
    /\ pc[t] = "revoke" => "session" \in merits[t]
    /\ pc[t] \in {"page", "target", "write", "insert"} => {"session", "admin"} \subseteq merits[t]
    /\ pc[t] = "project" => "writer" \in merits[t]

SomeAdmin == \E i \in DOMAIN users : IsAdmin(i)

(* An author can neither disable nor demote themselves, so the last active *)
(* super admin is lost to one kind of step only: the write of a request    *)
(* whose own author has been disabled or demoted since it was checked.     *)
LastAdminFallsOnlyToStaleAuthority ==
  [][SomeAdmin /\ ~SomeAdmin' =>
       \E t \in Tasks : pc[t] = "write" /\ ~IsAdmin(local[t].user)]_vars

(* A form about a user changes the row it names and in it the fields it    *)
(* shows, unless another request has changed that row between the form's   *)
(* read and its write; and names never change, whoever writes.             *)
EditsKeepToTheirForm ==
  [][\A t \in Tasks : pc[t] = "write" /\ pc'[t] = "record" =>
       \A i \in DOMAIN users :
         /\ users'[i].name = users[i].name
         /\ i # Req(t).user => users'[i] = users[i]
         /\ "overtaken" \notin merits[t] =>
              IF Req(t).op = "update_user"
              THEN users'[i].password = users[i].password
              ELSE users'[i].role = users[i].role /\ users'[i].active = users[i].active]_vars

(* The users and the projects that requests have made.                     *)
MadeUsers    == DOMAIN users \ DOMAIN InitialUsers
MadeProjects == DOMAIN projects

Creation(e) == e.action = "create"
Creating(t) == pc[t] = "record" /\ Creation(EventOf(t))

(* However requests are lost, the log tells of a creation at most once,    *)
(* only after it has happened, and never of one that was refused; it names *)
(* existing users as authors.                                              *)
LogIsTruthful ==
  /\ \A k \in DOMAIN audit :
       /\ audit[k].actor \in DOMAIN users
       /\ audit[k].action = "update" => audit[k].id \in DOMAIN users
       /\ Creation(audit[k]) =>
            /\ audit[k].id \in IF audit[k].resource = "user" THEN MadeUsers ELSE MadeProjects
            /\ \A l \in DOMAIN audit :
                 Creation(audit[l]) /\ audit[l].resource = audit[k].resource
                   /\ audit[l].id = audit[k].id => k = l
            /\ \A t \in Tasks : Creating(t) =>
                 <<EventOf(t).resource, EventOf(t).id>> # <<audit[k].resource, audit[k].id>>
  /\ \A t, u \in Tasks :
       Creating(t) /\ Creating(u) /\ EventOf(t).resource = EventOf(u).resource
         /\ EventOf(t).id = EventOf(u).id => t = u
=============================================================================
