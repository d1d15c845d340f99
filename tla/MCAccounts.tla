----------------------------- MODULE MCAccounts -----------------------------
(***************************************************************************)
(* The instance of the administration of users for TLC: two super admins   *)
(* and the requests that browsers and MCP clients send.                    *)
(***************************************************************************)
EXTENDS AccountsProperties, TLC

CONSTANTS t1, t2, ann, bob, eve, padded, bad, old, new, short, s1, unslug

TaskSymmetry == Permutations({t1, t2})

(* Every name is its own trimmed form but one, which has a space too many. *)
MCTrim == [n \in {ann, bob, eve, padded, bad} |-> IF n = padded THEN eve ELSE n]

Admin(n) == [name |-> n, password |-> old, role |-> "super_admin", active |-> TRUE]

MCUsers == <<Admin(ann), Admin(bob)>>

Plain(ops, ss) ==
  [op : ops, session : ss, csrf : {TRUE}, user : {0}, name : {Unset}, password : {Unset},
   role : {Unset}, active : {TRUE}, slug : {Unset}]

Logins(ns, ps) ==
  [op : {"login"}, session : {0}, csrf : {TRUE}, user : {0}, name : ns, password : ps,
   role : {Unset}, active : {TRUE}, slug : {Unset}]

Updates(ss, us, roles, actives, csrfs) ==
  [op : {"update_user"}, session : ss, csrf : csrfs, user : us, name : {Unset},
   password : {Unset}, role : roles, active : actives, slug : {Unset}]

Resets(ss, us, ps) ==
  [op : {"reset_password"}, session : ss, csrf : {TRUE}, user : us, name : {Unset},
   password : ps, role : {Unset}, active : {TRUE}, slug : {Unset}]

NewUsers(ss, ns, ps, roles) ==
  [op : {"create_user"}, session : ss, csrf : {TRUE}, user : {0}, name : ns, password : ps,
   role : roles, active : {TRUE}, slug : {Unset}]

NewProjects(us, slugs) ==
  [op : {"create_project"}, session : {0}, csrf : {TRUE}, user : us, name : {Unset},
   password : {Unset}, role : {Unset}, active : {TRUE}, slug : slugs]

MCRequests ==
  Logins({ann, bob, eve}, {old})
    \cup Logins({bob}, {new})
    \cup Plain({"logout", "users"}, {1})
    \cup Updates({1, 2}, {1, 2}, {"viewer"}, {TRUE}, {TRUE})
    \cup Updates({1}, {2, 3}, {Unset}, {FALSE}, {TRUE})
    \cup Updates({1}, {2}, {"super_admin"}, {FALSE}, BOOLEAN)
    \cup Resets({1}, {2, 3}, {new})
    \cup Resets({1}, {2}, {short})
    \cup NewUsers({1}, {padded, bad}, {old}, {"editor"})
    \cup NewProjects({2, 3}, {s1})
    \cup NewProjects({2}, {unslug})
=============================================================================
