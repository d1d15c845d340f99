------------------------------ MODULE Accounts ------------------------------
(***************************************************************************)
(* Users, browser sessions and the administration pages of ledgapi         *)
(* (web/auth.rs, web/admin.rs, manage_user.rs), and the creation of        *)
(* projects by a bearer (manage_project.rs).                               *)
(*                                                                         *)
(* As in Registry, a repository call is one atomic step and requests       *)
(* interleave between calls; pc[t] names the call task t makes next.  An   *)
(* administration page finds the session and its owner twice, first in the *)
(* router's require_web_auth and again in the handler; only the second     *)
(* principal is used, and it is not read again before the change.          *)
(*                                                                         *)
(* A password stands for its hash, a session for the number of the         *)
(* token::generate() call it came from.  merits is a history variable:     *)
(* what was true of a request's author at some instant since it arrived,   *)
(* and whether the row it means to write has changed under it.             *)
(***************************************************************************)
EXTENDS Naturals, Sequences, FiniteSets

CONSTANTS
  Tasks,          \* request handlers that can run at the same time
  Names,          \* user names
  Trim,           \* str::trim on user names
  RejectedNames,  \* those UserCreate::validate refuses
  Passwords,
  ShortPasswords, \* those hash_password refuses
  Slugs,          \* project slugs
  RejectedSlugs,  \* those ProjectSlug::parse or ProjectCreate::validate refuses
  InitialUsers,   \* the users table to start with
  Requests,       \* the requests browsers and MCP clients send
  SessionTtl,     \* auth.session_ttl
  Budget,         \* bound: how many requests are sent in all
  MaxTime,        \* bound: the last instant of the clock
  Unset           \* an absent or unreadable field

Roles == {"super_admin", "editor", "viewer"}

User    == [name : Names, password : Passwords, role : Roles, active : BOOLEAN]
Session == [user : Nat, expires : Nat, revoked : BOOLEAN]
Event   == [actor : Nat, action : {"create", "update"},
            resource : {"user", "project"}, id : Nat]

PageOps == {"users", "audit", "create_user", "update_user", "reset_password"}

(* user is the user a form is about, or the owner of the bearer token.     *)
Request ==
  [op : PageOps \cup {"login", "logout", "create_project"}, session : Nat, csrf : BOOLEAN,
   user : Nat, name : Names \cup {Unset}, password : Passwords \cup {Unset},
   role : Roles \cup {Unset}, active : BOOLEAN, slug : Slugs \cup {Unset}]

(* The fields that serde requires of each form are there; a body without   *)
(* them is answered with "bad request" before anything is read.            *)
WellFormed(r) ==
  /\ r.op \in {"login", "create_user"} => r.name \in Names
  /\ r.op \in {"login", "create_user", "reset_password"} => r.password \in Passwords
  /\ r.op = "create_project" => r.slug \in Slugs

ASSUME ConstantsAssumption ==
  /\ Trim \in [Names -> Names]
  /\ RejectedNames \subseteq Names
  /\ ShortPasswords \subseteq Passwords
  /\ RejectedSlugs \subseteq Slugs
  /\ InitialUsers \in Seq(User)
  /\ \A i, j \in DOMAIN InitialUsers : InitialUsers[i].name = InitialUsers[j].name => i = j
  /\ Requests \subseteq Request
  /\ \A r \in Requests : WellFormed(r)
  /\ {SessionTtl, Budget, MaxTime} \subseteq Nat
  /\ Unset \notin Names \cup Passwords \cup Slugs \cup Roles

VARIABLES
  users,     \* table users, in insertion order; no row is ever deleted
  sessions,  \* table web_sessions, in insertion order
  projects,  \* table projects: the slugs, in insertion order
  audit,     \* table audit_log, in insertion order
  now,       \* OffsetDateTime::now_utc()
  pc,        \* the next repository call of each task
  local,     \* the local variables of each task
  reply,     \* the last answer of each task
  merits,    \* history: what was true of each request's author since it arrived
  budget     \* requests still to come

tables == <<users, sessions, projects, audit>>
vars   == <<users, sessions, projects, audit, now, pc, local, reply, merits, budget>>

Calls == {"lookup", "open", "session", "owner", "revoke", "page", "target", "write",
          "insert", "bearer", "project", "record"}

Replies == {"none", "lost", "login", "welcome", "cleared", "unauthorized", "forbidden",
            "invalid", "not_found", "duplicate", "page", "created", "updated"}

Merits == {"credentials", "session", "admin", "writer", "overtaken"}

(* The request, the time read, whether require_web_auth is still at work,  *)
(* the principal's user id, the row to write and its id.                   *)
Local == [req : Requests \cup {Unset}, at : Nat, gate : BOOLEAN, user : Nat,
          row : User \cup {Unset}, id : Nat]

NewLocals(r) == [req |-> r, at |-> now, gate |-> r # Unset /\ r.op \in PageOps, user |-> 0,
                 row |-> Unset, id |-> 0]

NoLocals == [req |-> Unset, at |-> 0, gate |-> FALSE, user |-> 0, row |-> Unset, id |-> 0]

----------------------------------------------------------------------------
(* Queries                                                                 *)

IsUser(i)  == i \in DOMAIN users
IsAdmin(i) == IsUser(i) /\ users[i].active /\ users[i].role = "super_admin"
CanWrite(i) == IsUser(i) /\ users[i].active /\ users[i].role # "viewer"

(* username TEXT NOT NULL UNIQUE                                           *)
NameTaken(n) == \E i \in DOMAIN users : users[i].name = n

(* Mutated form: revoked_at IS NULL is left out of the query.              *)
LiveIfUnexpired(s, at) == s \in DOMAIN sessions /\ sessions[s].expires > at

(* revoked_at IS NULL AND expires_at > now                                 *)
Live(s, at) == s \in DOMAIN sessions /\ ~sessions[s].revoked /\ sessions[s].expires > at

(* The user of that name, the password verified, the account active.       *)
Accepts(u, r) == u.name = Trim[r.name] /\ u.password = r.password /\ u.active

(* What of the facts a request may rest on holds at this instant.          *)
Merited(r) ==
  {m \in Merits :
     \/ m = "credentials" /\ r.op = "login" /\ \E i \in DOMAIN users : Accepts(users[i], r)
     \/ /\ m = "session"
        /\ r.session \in DOMAIN sessions
        /\ ~sessions[r.session].revoked
        /\ sessions[r.session].expires > now
     \/ m = "admin" /\ r.session \in DOMAIN sessions /\ IsAdmin(sessions[r.session].user)
     \/ m = "writer" /\ r.op = "create_project" /\ CanWrite(r.user)}

----------------------------------------------------------------------------
(* Control of a task                                                       *)

(* The row that a task has read and is about to write changes before that. *)
Overtaken(t) ==
  pc[t] = "write" /\ pc'[t] = "write" /\ users'[local[t].id] # users[local[t].id]

(* The last conjunct of every action: the history of the requests at work. *)
Observe ==
  merits' = [t \in Tasks |->
    IF pc'[t] = "idle" THEN {}
    ELSE (IF pc[t] = "idle" THEN {} ELSE merits[t])
           \cup Merited(local[t].req)' \cup (IF Overtaken(t) THEN {"overtaken"} ELSE {})]

Goto(t, call) == pc' = [pc EXCEPT ![t] = call] /\ UNCHANGED reply

Answer(t, outcome) ==
  /\ pc' = [pc EXCEPT ![t] = "idle"]
  /\ reply' = [reply EXCEPT ![t] = outcome]
  /\ local' = [local EXCEPT ![t] = NoLocals]

Refuse(t, outcome) == Answer(t, outcome) /\ UNCHANGED tables

(* The request of task t.                                                  *)
Req(t) == local[t].req

----------------------------------------------------------------------------
(* Requests                                                                *)

FirstCall(r) ==
  IF r.op = "login" THEN "lookup"
  ELSE IF r.op = "create_project" THEN "bearer" ELSE "session"

(* A request arrives, with a cookie the browser was given if it needs one. *)
Begin(t) ==
  /\ pc[t] = "idle"
  /\ budget > 0
  /\ budget' = budget - 1
  /\ \E r \in Requests :
       /\ r.op \in PageOps \cup {"logout"} => r.session \in DOMAIN sessions
       /\ pc' = [pc EXCEPT ![t] = FirstCall(r)]
       /\ local' = [local EXCEPT ![t] = NewLocals(r)]
  /\ reply' = [reply EXCEPT ![t] = "none"]
  /\ UNCHANGED <<tables, now>>
  /\ Observe

(* login: find_by_username, then the password and the active flag.         *)
LookUpUser(t) ==
  /\ pc[t] = "lookup"
  /\ \/ /\ ~\E i \in DOMAIN users : Accepts(users[i], Req(t))
        /\ Answer(t, "login")
     \/ \E i \in DOMAIN users :
          /\ Accepts(users[i], Req(t))
          /\ local' = [local EXCEPT ![t].user = i, ![t].at = now]
          /\ Goto(t, "open")
  /\ UNCHANGED <<tables, now, budget>>
  /\ Observe

(* sessions().create; the cookies of the answer replace those the browser  *)
(* had, whose session stays as it is.                                      *)
OpenSession(t) ==
  /\ pc[t] = "open"
  /\ sessions' = Append(sessions, [user |-> local[t].user, revoked |-> FALSE,
                                   expires |-> local[t].at + SessionTtl])
  /\ Answer(t, "welcome")
  /\ UNCHANGED <<users, projects, audit, now, budget>>
  /\ Observe

(* sessions().find in require_web_auth, in the handler behind it and in    *)
(* logout, whose form must then carry the session's csrf token.            *)
FindSession(t) ==
  LET live == Live(Req(t).session, local[t].at)
      logout == Req(t).op = "logout"
  IN /\ pc[t] = "session"
     /\ \/ ~live /\ logout /\ Answer(t, "cleared")
        \/ ~live /\ ~logout /\ local[t].gate /\ Answer(t, "login")
        \/ ~live /\ ~logout /\ ~local[t].gate /\ Answer(t, "unauthorized")
        \/ live /\ logout /\ ~Req(t).csrf /\ Answer(t, "forbidden")
        \/ live /\ logout /\ Req(t).csrf /\ Goto(t, "revoke") /\ UNCHANGED local
        \/ live /\ ~logout /\ Goto(t, "owner") /\ UNCHANGED local
     /\ UNCHANGED <<tables, now, budget>>
     /\ Observe

(* sessions().revoke.                                                      *)
RevokeSession(t) ==
  /\ pc[t] = "revoke"
  /\ sessions' = [sessions EXCEPT ![Req(t).session].revoked = TRUE]
  /\ Answer(t, "cleared")
  /\ UNCHANGED <<users, projects, audit, now, budget>>
  /\ Observe

(* Mutated form: an update form's role is taken as it is.                  *)
FormRefusedOnCreate(r) ==
  /\ r.op = "create_user"
  /\ r.role = Unset \/ r.password \in ShortPasswords \/ r.name \in RejectedNames

(* The fields of a form that are refused before any repository call.       *)
FormRefused(r) ==
  \/ r.op \in {"create_user", "update_user"} /\ r.role = Unset
  \/ r.op = "create_user" /\ (r.password \in ShortPasswords \/ r.name \in RejectedNames)

(* What the handler does first for an author who may manage users.         *)
PageCall(r) ==
  IF r.op = "create_user" THEN "insert"
  ELSE IF r.op \in {"users", "audit"} THEN "page" ELSE "target"

(* users().find_by_id of the session's owner: in require_web_auth it lets  *)
(* the handler start, in session_principal_for_cookie it makes the         *)
(* principal.  Role, csrf token and form are checked at once after that.   *)
ReadOwner(t) ==
  LET i == sessions[Req(t).session].user
      admin == users[i].role = "super_admin"
      posted == Req(t).op \in {"create_user", "update_user", "reset_password"}
      allowed == admin /\ (posted => Req(t).csrf)
  IN /\ pc[t] = "owner"
     /\ \/ ~users[i].active /\ local[t].gate /\ Answer(t, "login")
        \/ ~users[i].active /\ ~local[t].gate /\ Answer(t, "unauthorized")
        \/ /\ users[i].active /\ local[t].gate
           /\ local' = [local EXCEPT ![t].gate = FALSE, ![t].at = now]
           /\ Goto(t, "session")
        \/ users[i].active /\ ~local[t].gate /\ ~allowed /\ Answer(t, "forbidden")
        \/ users[i].active /\ ~local[t].gate /\ allowed /\ FormRefused(Req(t))
             /\ Answer(t, "invalid")
        \/ /\ users[i].active /\ ~local[t].gate /\ allowed /\ ~FormRefused(Req(t))
           /\ local' = [local EXCEPT ![t].user = i]
           /\ Goto(t, PageCall(Req(t)))
     /\ UNCHANGED <<tables, now, budget>>
     /\ Observe

(* The users page (manage_user::list) and the audit page.                  *)
ReadPage(t) ==
  /\ pc[t] = "page"
  /\ Refuse(t, "page")
  /\ UNCHANGED <<now, budget>>
  /\ Observe

----------------------------------------------------------------------------
(* Administration of users                                                 *)

(* Mutated form: a new password also reactivates the account.              *)
EditedReactivates(row, r) ==
  IF r.op = "update_user"
  THEN [row EXCEPT !.role = r.role, !.active = r.active]
  ELSE [row EXCEPT !.password = r.password, !.active = TRUE]

(* The row of the target with the form's fields in place of its own.       *)
Edited(row, r) ==
  IF r.op = "update_user"
  THEN [row EXCEPT !.role = r.role, !.active = r.active]
  ELSE [row EXCEPT !.password = r.password]

(* Mutated form: one may demote oneself, though not deactivate.            *)
LocksOutOnlyIfInactive(i, row, self) == i = self /\ ~row.active

(* manage_user::update refuses to disable or demote its own author.        *)
LocksOut(i, row, self) == i = self /\ (~row.active \/ row.role # "super_admin")

(* users().find_by_id of the target; the form's fields are put into the    *)
(* row, which is then checked by manage_user::update.                      *)
ReadTarget(t) ==
  LET i == Req(t).user
      row == Edited(users[i], Req(t))
      refused == \/ Req(t).op = "reset_password" /\ Req(t).password \in ShortPasswords
                 \/ LocksOut(i, row, local[t].user)
  IN /\ pc[t] = "target"
     /\ \/ ~IsUser(i) /\ Answer(t, "not_found")
        \/ IsUser(i) /\ refused /\ Answer(t, "invalid")
        \/ /\ IsUser(i) /\ ~refused
           /\ local' = [local EXCEPT ![t].row = row, ![t].id = i]
           /\ Goto(t, "write")
     /\ UNCHANGED <<tables, now, budget>>
     /\ Observe

(* users().update: the whole row, as it was read and edited.               *)
WriteUser(t) ==
  /\ pc[t] = "write"
  /\ users' = [users EXCEPT ![local[t].id] = local[t].row]
  /\ Goto(t, "record")
  /\ UNCHANGED <<sessions, projects, audit, now, local, budget>>
  /\ Observe

(* users().create; the name is stored as it was sent.                      *)
InsertUser(t) ==
  /\ pc[t] = "insert"
  /\ \/ /\ NameTaken(Req(t).name)
        /\ Answer(t, "duplicate")
        /\ UNCHANGED users
     \/ /\ ~NameTaken(Req(t).name)
        /\ users' = Append(users, [name |-> Req(t).name, password |-> Req(t).password,
                                   role |-> Req(t).role, active |-> TRUE])
        /\ local' = [local EXCEPT ![t].id = Len(users) + 1]
        /\ Goto(t, "record")
  /\ UNCHANGED <<sessions, projects, audit, now, budget>>
  /\ Observe

----------------------------------------------------------------------------
(* Projects                                                                *)

(* bearer_auth, the tool's scope check and the validation of its input.    *)
ReadBearer(t) ==
  LET i == Req(t).user
      active == IsUser(i) /\ users[i].active
      unfit == Req(t).slug \in RejectedSlugs
  IN /\ pc[t] = "bearer"
     /\ \/ ~active /\ Answer(t, "unauthorized")
        \/ active /\ ~CanWrite(i) /\ Answer(t, "forbidden")
        \/ active /\ CanWrite(i) /\ unfit /\ Answer(t, "invalid")
        \/ /\ active /\ CanWrite(i) /\ ~unfit
           /\ local' = [local EXCEPT ![t].user = i]
           /\ Goto(t, "project")
     /\ UNCHANGED <<tables, now, budget>>
     /\ Observe

(* slug TEXT NOT NULL UNIQUE                                               *)
SlugTaken(s) == \E i \in DOMAIN projects : projects[i] = s

InsertProject(t) ==
  /\ pc[t] = "project"
  /\ \/ /\ SlugTaken(Req(t).slug)
        /\ Answer(t, "duplicate")
        /\ UNCHANGED projects
     \/ /\ ~SlugTaken(Req(t).slug)
        /\ projects' = Append(projects, Req(t).slug)
        /\ local' = [local EXCEPT ![t].id = Len(projects) + 1]
        /\ Goto(t, "record")
  /\ UNCHANGED <<users, sessions, audit, now, budget>>
  /\ Observe

----------------------------------------------------------------------------
(* The log, the clock and lost requests                                    *)

(* Mutated form: an update is logged under its author's id.                *)
EventOfAuthor(t) ==
  [actor |-> local[t].user, id |-> local[t].user,
   action |-> IF Req(t).op \in {"create_user", "create_project"} THEN "create" ELSE "update",
   resource |-> IF Req(t).op = "create_project" THEN "project" ELSE "user"]

EventOf(t) ==
  [actor |-> local[t].user, id |-> local[t].id,
   action |-> IF Req(t).op \in {"create_user", "create_project"} THEN "create" ELSE "update",
   resource |-> IF Req(t).op = "create_project" THEN "project" ELSE "user"]

(* audit::record, the last call of every change.                           *)
Record(t) ==
  /\ pc[t] = "record"
  /\ audit' = Append(audit, EventOf(t))
  /\ Answer(t, IF EventOf(t).action = "create" THEN "created" ELSE "updated")
  /\ UNCHANGED <<users, sessions, projects, now, budget>>
  /\ Observe

(* What the request is told when its next call fails.  Most handlers have  *)
(* an answer of their own: a find that fails has found nothing, a write or *)
(* its audit entry that fails is an invalid form, and logout clears the    *)
(* cookie of a session it could not revoke.  Other errors are passed on.   *)
IfFailed(t) ==
  LET logout   == Req(t).op = "logout"
      passedOn == Req(t).op = "create_project" \/ local[t].gate
  IN CASE pc[t] \in {"lookup", "open"} -> "login"
       [] pc[t] = "revoke" \/ (pc[t] = "session" /\ logout) -> "cleared"
       [] pc[t] = "page"   -> "page"
       [] pc[t] = "target" -> "not_found"
       [] pc[t] \in {"session", "owner"} /\ ~logout /\ ~passedOn -> "unauthorized"
       [] pc[t] \in {"write", "insert", "record"} /\ ~passedOn -> "invalid"
       [] OTHER -> "lost"

(* The request ends before its next call, the client being gone, or with   *)
(* that call, which fails.                                                 *)
Abort(t) ==
  /\ pc[t] # "idle"
  /\ Refuse(t, "lost") \/ Refuse(t, IfFailed(t))
  /\ UNCHANGED <<now, budget>>
  /\ Observe

Tick ==
  /\ now < MaxTime
  /\ now' = now + 1
  /\ UNCHANGED <<tables, pc, local, reply, budget>>
  /\ Observe

Init ==
  /\ users    = InitialUsers
  /\ sessions = << >>
  /\ projects = << >>
  /\ audit    = << >>
  /\ now      = 0
  /\ pc       = [t \in Tasks |-> "idle"]
  /\ local    = [t \in Tasks |-> NoLocals]
  /\ reply    = [t \in Tasks |-> "none"]
  /\ merits   = [t \in Tasks |-> {}]
  /\ budget   = Budget

Step(t) ==
  \/ LookUpUser(t) \/ OpenSession(t) \/ FindSession(t) \/ RevokeSession(t) \/ ReadOwner(t)
  \/ ReadPage(t) \/ ReadTarget(t) \/ WriteUser(t) \/ InsertUser(t)
  \/ ReadBearer(t) \/ InsertProject(t) \/ Record(t)

(* All requests are answered and the clock has stopped.                    *)
Finished ==
  /\ budget = 0 /\ now = MaxTime
  /\ \A t \in Tasks : pc[t] = "idle"
  /\ UNCHANGED vars

Next ==
  \/ \E t \in Tasks : Begin(t) \/ Step(t) \/ Abort(t)
  \/ Tick \/ Finished

Spec == Init /\ [][Next]_vars
=============================================================================
