----------------------------- MODULE MCReadSide -----------------------------
(***************************************************************************)
(* The instance of the readers for TLC: two projects, three contracts on   *)
(* two paths, and three calls of writers.                                  *)
(***************************************************************************)
EXTENDS ReadSideProperties

CONSTANTS p, q, c1, c2, c3, g1, g2, users, admin, n1, n2, get, post

K(path, method) == [path |-> path, method |-> method]

MCMatching == {K(users, get), K(users, post)}
MCNamed    == {K(users, get)}
MCDistance == [k \in Key |-> IF k.method = get THEN 0 ELSE 1]

R(project, key, group) == [project |-> project, key |-> key, group |-> group]

F(project, name, parent) == [project |-> project, name |-> name, parent |-> parent]

Db(ps, gs, a, b, c, indexed) ==
  [projects |-> ps, groups |-> gs, indexed |-> indexed,
   contracts |-> [i \in Contracts |-> IF i = c1 THEN a ELSE IF i = c2 THEN b ELSE c]]

(* In the second and the third, a create was cut off before the vector.    *)
MCDatabases ==
  {Db({p}, << >>, R(p, K(users, get), Unset), R(p, K(users, post), Unset), Unset, {c1, c2}),
   Db({p, q}, [g \in {g1, g2} |-> IF g = g1 THEN F(p, n1, Unset) ELSE F(p, n2, g1)],
      R(p, K(users, post), g1), R(q, K(users, get), Unset), R(p, K(admin, get), g2), {c1, c2}),
   Db({q}, << >>, R(q, K(admin, post), Unset), R(q, K(users, get), Unset), Unset, {c1}),
   Db({p, q}, [g \in {g1} |-> F(q, n1, Unset)],
      R(p, K(admin, post), Unset), R(q, K(users, get), g1), Unset, {c1, c2})}

Req(door, op, group, id, mode, limit, bad) ==
  [door |-> door, op |-> op, slug |-> p, group |-> group, id |-> id, mode |-> mode,
   limit |-> limit, bad |-> bad, byStatus |-> FALSE]

Call(op) == Req("mcp", op, Unset, Unset, "hybrid", Unset, "none")

MCRequests ==
  {Req("web", "search", Unset, Unset, "exact", 2, "none")}
    \cup {Req("mcp", "search", Unset, Unset, mode, 2, "none") : mode \in {"semantic", "hybrid"}}
    \cup {Req("mcp", "search", n1, Unset, "exact", 0, "none"),
          Req("mcp", "search", n1, Unset, "hybrid", 9, "none")}
    \cup {Call("list_contracts"), [Call("list_contracts") EXCEPT !.bad = "status"],
          [Call("list_contracts") EXCEPT !.group = n2, !.byStatus = TRUE]}
    \cup {Req("mcp", "get_contract", Unset, c1, "hybrid", Unset, bad) : bad \in {"none", "id"}}
    \cup {Req("web", "contract_page", Unset, c2, "hybrid", Unset, "none")}
    \cup {Req("web", op, Unset, Unset, "hybrid", Unset, "none") :
            op \in {"dashboard", "project_page"}}
    \cup {Call(op) : op \in {"export", "list_projects", "list_groups"} \cup DOMAIN Frames}
    \cup {Req(door, "search", Unset, Unset, "hybrid", Unset, bad) :
            door \in {"mcp", "web"}, bad \in {"slug", "mode", "query"}}
=============================================================================
