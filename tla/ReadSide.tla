------------------------------ MODULE ReadSide ------------------------------
(***************************************************************************)
(* What readers of the registry are told while others change it: the MCP   *)
(* endpoint (mcp/server.rs and the reading tools), the pages of a project  *)
(* (web/handlers.rs), hybrid search (search_contract.rs) and the OpenAPI   *)
(* export (export_openapi.rs).                                             *)
(*                                                                         *)
(* No read of several calls runs in a transaction: a repository call is    *)
(* one atomic step, pc names the one the reader makes next, and writers    *)
(* change the tables in between.  Readers change nothing and so one is     *)
(* enough.  The writers' requests are modelled in Registry; here each of   *)
(* their calls is a step of its own.  Authentication is in Accounts and    *)
(* OAuth: a request that gets here has passed it.                          *)
(*                                                                         *)
(* Of a contract the model keeps where it is (project, group, path and     *)
(* method); what a text matches, and how far its vector is from that of    *)
(* the query, follows from path and method.  Rows listed by updated_at, a  *)
(* time in seconds, come in any order.                                     *)
(***************************************************************************)
EXTENDS Integers, Sequences, FiniteSets

CONSTANTS
  Slugs, Contracts, Groups, GroupNames,
  Paths, Methods,
  Matching,        \* the keys that contain the query
  Named,           \* those whose path is the query
  Distance,        \* of a key's vector from the query's
  Requests,
  Databases,       \* what earlier requests have left in the tables
  RankOffset,      \* the K of rrf_merge
  ExactLimit,      \* most results of search_exact
  NearestLimit,    \* most vectors that search_semantic compares
  HybridLimit,     \* embed.hybrid_limit
  MaxLimit, ListLimit, PageLimit, ExportLimit,
  Asks,            \* bound: requests of the reader
  MaxWrites,       \* bound: calls of the writers
  Unset, Gone

Key == [path : Paths, method : Methods]
Row == [project : Slugs, key : Key, group : Groups \cup {Unset}]
Folder == [project : Slugs, name : GroupNames, parent : Groups \cup {Unset}]

WebOps == {"dashboard", "project_page", "contract_page", "search", "export"}
Tools  == {"list_projects", "list_groups", "list_contracts", "get_contract", "search", "export"}

(* Frames that handle and dispatch answer without a tool, with the answer. *)
Frames == [garbled |-> "parse_error", old_version |-> "invalid_request",
           notification |-> "nothing", initialize |-> "ok", tools_list |-> "ok",
           no_method |-> "no_method", no_tool |-> "validation_failed"]

(* bad names the field that cannot be parsed, if one cannot; byStatus is a *)
(* list_contracts of one status.                                           *)
Request ==
  [door : {"web", "mcp"}, op : WebOps \cup Tools \cup DOMAIN Frames,
   slug : Slugs, group : GroupNames \cup {Unset}, id : Contracts \cup {Unset},
   mode : {"exact", "semantic", "hybrid"}, limit : Int \cup {Unset},
   bad : {"none", "slug", "id", "mode", "query", "status"}, byStatus : BOOLEAN]

(* Groups hang on groups there are and not, in any way round, on           *)
(* themselves; a name is given once in a project.                          *)
Nested(gs) ==
  /\ DOMAIN gs \subseteq Groups
  /\ \A g \in DOMAIN gs : gs[g] \in Folder /\ gs[g].parent \in DOMAIN gs \cup {Unset}
  /\ \A g, h \in DOMAIN gs :
       gs[g].project = gs[h].project /\ gs[g].name = gs[h].name => g = h
  /\ \A T \in SUBSET DOMAIN gs : T # {} => \E g \in T : gs[g].parent \notin T

(* A path and method is taken once in a project, and contracts are in      *)
(* groups of their project.                                                *)
Placed(cs, gs) ==
  /\ cs \in [Contracts -> Row \cup {Unset, Gone}]
  /\ \A c, d \in Contracts :
       {cs[c], cs[d]} \subseteq Row /\ cs[c].project = cs[d].project /\ cs[c].key = cs[d].key
         => c = d
  /\ \A c \in Contracts :
       cs[c] \in Row /\ cs[c].group # Unset =>
         cs[c].group \in DOMAIN gs /\ gs[cs[c].group].project = cs[c].project

ASSUME ReadSideAssumption ==
  /\ IsFiniteSet(Contracts)
  /\ Matching \subseteq Key /\ Named \subseteq Matching
  /\ Distance \in [Key -> Nat]
  /\ Requests \subseteq Request
  /\ \A r \in Requests :
       /\ r.op \in IF r.door = "web" THEN WebOps ELSE Tools \cup DOMAIN Frames
       /\ r.op \in {"contract_page", "get_contract"} /\ r.bad = "none" => r.id \in Contracts
       /\ r.byStatus => r.op = "list_contracts"
  /\ {RankOffset, Asks, MaxWrites} \subseteq Nat
  /\ {ExactLimit, NearestLimit, HybridLimit, MaxLimit, ListLimit, PageLimit, ExportLimit}
       \subseteq Nat \ {0}
  /\ Unset \notin Groups \cup GroupNames \cup Contracts \cup Key \cup Int \cup Requests
  /\ Unset # Gone /\ {Unset, Gone} \cap Row = {}
  \* A hit of both searches outweighs one of either.
  /\ \A n \in {ExactLimit, NearestLimit} : RankOffset + n < 2 * (RankOffset + 1)
  \* The tables are as the repositories leave them.
  /\ \A db \in Databases :
       /\ db.projects \subseteq Slugs /\ Nested(db.groups) /\ Placed(db.contracts, db.groups)
       /\ db.indexed \subseteq {c \in Contracts : db.contracts[c] \in Row}

VARIABLES
  projects,   \* table projects
  groups,     \* table groups; groups are never deleted
  contracts,  \* table contracts
  vectors,    \* table contract_embeddings: the key each vector was made from
  pc,         \* the reader's next call
  req,        \* its request
  seen,       \* its local variables
  was,        \* history: what each contract has been since the request arrived
  lacked,     \* history: the project or the group was missing when it arrived
  asks,       \* requests still to come
  writes      \* calls of writers still to come

tables  == <<projects, groups, contracts, vectors>>
reader  == <<pc, req, seen, asks>>
history == <<was, lacked>>
vars    == <<projects, groups, contracts, vectors, pc, req, seen, was, lacked, asks, writes>>

Calls == {"context", "project", "again", "group", "list", "groups", "contract", "audit",
          "exact", "semantic", "hydrate", "bodies", "projects"}

Outcomes == {"ok", "nothing", "not_found", "validation_failed", "internal_error",
             "parse_error", "invalid_request", "no_method"}

Hit   == [id : Contracts, key : Key \cup {Unset}]
Entry == [id : Contracts, key : Key, group : GroupNames \cup {Unset}]

(* The rows that the calls have returned, the places among them of what is *)
(* still to be read, and what is made of them.                             *)
NothingSeen ==
  [group |-> Unset, exact |-> << >>, semantic |-> << >>, hits |-> << >>, listed |-> << >>,
   rest |-> {}, doc |-> << >>, groups |-> {}, failed |-> FALSE, outcome |-> "nothing"]

----------------------------------------------------------------------------
(* Queries                                                                 *)

Live(c) == contracts[c] \notin {Unset, Gone}

(* Mutated form: the second parameter is bound to no group at all.         *)
InProject(c, project, group) ==
  /\ Live(c)
  /\ contracts[c].project = project

(* WHERE project_id = ? AND (? IS NULL OR group_id = ?)                    *)
InScope(c, project, group) ==
  /\ Live(c)
  /\ contracts[c].project = project
  /\ group # Unset => contracts[c].group = group

(* Mutated form: the name is looked for at the top only.                   *)
RootsNamed(project, name) ==
  {g \in DOMAIN groups : groups[g] = [project |-> project, name |-> name, parent |-> Unset]}

(* groups().find_by_name                                                   *)
GroupsNamed(project, name) ==
  {g \in DOMAIN groups : groups[g].project = project /\ groups[g].name = name}

(* UNIQUE (project_id, method, path)                                       *)
KeyIsFree(project, key) ==
  \A c \in Contracts : Live(c) => <<contracts[c].project, contracts[c].key>> # <<project, key>>

(* A set in some order: every item once.                                   *)
Listings(S) ==
  {s \in [1..Cardinality(S) -> S] : \A i, j \in DOMAIN s : s[i] = s[j] => i = j}

(* The orders of a set in which nothing comes after what it precedes.      *)
Orders(S, Precedes(_, _)) ==
  {s \in Listings(S) : \A i, j \in DOMAIN s : Precedes(s[i], s[j]) => i < j}

Upto(s, n) == [k \in {i \in DOMAIN s : i <= n} |-> s[k]]

Clamp(n) == IF n < 1 THEN 1 ELSE IF n > MaxLimit THEN MaxLimit ELSE n

Limit(r) ==
  IF r.op = "project_page" THEN PageLimit
  ELSE IF r.op = "export" THEN ExportLimit
  ELSE Clamp(IF r.limit # Unset THEN r.limit
             ELSE IF r.op = "search" THEN HybridLimit ELSE ListLimit)

----------------------------------------------------------------------------
(* rrf_merge                                                               *)

(* The rank of an item in a list, 0 if it is not there.                    *)
RankIn(s, c) == IF \E k \in DOMAIN s : s[k] = c THEN CHOOSE k \in DOMAIN s : s[k] = c ELSE 0

(* Mutated form: 1 / rank, without the offset.                             *)
ScoreByRank(i, j) ==
  IF j = 0 THEN <<1, i>> ELSE IF i = 0 THEN <<1, j>> ELSE <<i + j, i * j>>

(* The sum of 1 / (K + rank) over both lists, as a fraction.               *)
Score(i, j) ==
  LET a == RankOffset + i
      b == RankOffset + j
  IN IF j = 0 THEN <<1, a>> ELSE IF i = 0 THEN <<1, b>> ELSE <<a + b, a * b>>

Exceeds(a, b) == a[1] * b[2] > b[1] * a[2]

Ids(hits) == [k \in DOMAIN hits |-> hits[k].id]

(* The merged lists in the orders that the sort may leave: equal scores    *)
(* come as the hash map yields them.  What only search_semantic found has  *)
(* no path yet.                                                            *)
Merges(exact, semantic, limit) ==
  LET ids == {exact[k].id : k \in DOMAIN exact} \cup {semantic[k] : k \in DOMAIN semantic}
      ScoreOf(c) == Score(RankIn(Ids(exact), c), RankIn(semantic, c))
      Better(c, d) == Exceeds(ScoreOf(c), ScoreOf(d))
      HitOf(c) == LET k == RankIn(Ids(exact), c)
                  IN IF k = 0 THEN [id |-> c, key |-> Unset] ELSE exact[k]
  IN {[k \in DOMAIN Upto(s, limit) |-> HitOf(s[k])] : s \in Orders(ids, Better)}

(* needs_hydration: the places of the hits without a path.                 *)
Blanks(hits) == {k \in DOMAIN hits : hits[k].key = Unset}

----------------------------------------------------------------------------
(* build_doc and the group tree                                            *)

Put(f, x, v) == [y \in DOMAIN f \cup {x} |-> IF y = x THEN v ELSE f[y]]

(* Mutated form: a path has the operations of one contract.                *)
FiledAlone(doc, key, c) == Put(doc, key.path, [m \in {key.method} |-> c])

(* paths.entry(path).or_default().insert(method, operation)                *)
Filed(doc, key, c) ==
  Put(doc, key.path,
      Put(IF key.path \in DOMAIN doc THEN doc[key.path] ELSE << >>, key.method, c))

(* Mutated form: nothing hangs on a root.                                  *)
DrawnRoots(list) == {g \in list : groups[g].parent = Unset}

(* With a group of the list that is in S, the groups that hang on it are.  *)
HoldsChildren(S, list) == \A g \in list : groups[g].parent \in S => g \in S

(* The groups of a list that are drawn: its roots and what hangs on them,  *)
(* which is the least such set.                                            *)
Drawn(list) ==
  LET roots == {g \in list : groups[g].parent = Unset}
  IN {g \in list :
        \A S \in SUBSET list : roots \subseteq S /\ HoldsChildren(S, list) => g \in S}

(* Where the project page shows an entry: under every drawn group of its   *)
(* group's name, or among the ungrouped.                                   *)
Places(entry, list) ==
  IF entry.group = Unset THEN {Unset} ELSE {g \in Drawn(list) : groups[g].name = entry.group}

----------------------------------------------------------------------------
(* Answers                                                                 *)

(* invoke_tool and respond: the code and data.code of an error.            *)
RpcAnswer(outcome) ==
  CASE outcome \in {"ok", "nothing"} -> <<0, outcome>>
    [] outcome \in {"validation_failed", "not_found"} -> <<-32602, outcome>>
    [] outcome = "parse_error" -> <<-32700, outcome>>
    [] outcome = "invalid_request" -> <<-32600, outcome>>
    [] outcome = "no_method" -> <<-32601, outcome>>
    [] OTHER -> <<-32603, outcome>>

(* The pages of a project, of a contract and of the export answer every    *)
(* error with "not found"; the search page has a status for each.          *)
HttpAnswer(op, outcome) ==
  IF outcome = "ok" THEN <<200, outcome>>
  ELSE IF op # "search" \/ outcome = "not_found" THEN <<404, "not_found">>
  ELSE IF outcome = "validation_failed" THEN <<400, outcome>>
  ELSE <<500, outcome>>

Told(r, outcome) ==
  IF r.door = "mcp" THEN RpcAnswer(outcome) ELSE HttpAnswer(r.op, outcome)

Goto(call) == pc' = call

Finish(outcome) == pc' = "done" /\ seen' = [seen EXCEPT !.outcome = outcome]

(* The last conjunct of every action while a request is at work.           *)
Observe ==
  /\ was' = [c \in Contracts |-> IF pc \in Calls THEN was[c] \cup {contracts'[c]} ELSE was[c]]
  /\ UNCHANGED lacked

Reads == UNCHANGED <<tables, req, asks, writes>> /\ Observe

----------------------------------------------------------------------------
(* A request arrives                                                       *)

FirstCall(r) ==
  IF r.op \in {"dashboard", "list_projects"} THEN "projects"
  ELSE IF r.door = "web" THEN "project" ELSE "context"

(* A page refuses a field it cannot parse before any call, a tool only an  *)
(* absent or unreadable slug.                                              *)
RefusedAtOnce(r) ==
  \/ r.bad = "slug"
  \/ r.door = "web" /\ r.bad # "none"

Refusal(r) ==
  IF (r.door = "web" /\ r.bad # "query") \/ r.bad = "id" THEN "not_found"
  ELSE "validation_failed"

Arrive ==
  /\ pc \in {"idle", "done"} /\ asks > 0
  /\ asks' = asks - 1
  /\ \E r \in Requests :
       /\ req' = r
       /\ seen' = [NothingSeen EXCEPT !.outcome =
            IF r.op \in DOMAIN Frames THEN Frames[r.op]
            ELSE IF RefusedAtOnce(r) THEN Refusal(r) ELSE "nothing"]
       /\ Goto(IF r.op \in DOMAIN Frames \/ RefusedAtOnce(r) THEN "done" ELSE FirstCall(r))
       /\ lacked' = \/ r.slug \notin projects
                    \/ /\ r.group # Unset
                       /\ \A g \in DOMAIN groups : groups[g].project # r.slug \/ groups[g].name # r.group
  /\ was' = [c \in Contracts |-> {contracts[c]}]
  /\ UNCHANGED <<tables, writes>>

(* The first call of a use case once its project is found.                 *)
NextCall(r) ==
  IF r.op = "project_page" THEN "again"
  ELSE IF r.op \in {"contract_page", "get_contract"} THEN "contract"
  ELSE IF r.op = "list_groups" THEN "groups"
  ELSE IF r.op = "search" /\ r.group # Unset THEN "group"
  ELSE IF r.op = "search" THEN IF r.mode = "semantic" THEN "semantic" ELSE "exact"
  ELSE "list"

(* projects().find_by_slug: in build_tool_context, after which the tool    *)
(* looks at its arguments, and then in the use case.                       *)
FindProject ==
  LET known == req.slug \in projects
  IN /\ pc \in {"context", "project"}
     /\ \/ ~known /\ Finish("not_found")
        \/ known /\ pc = "context" /\ req.bad # "none" /\ Finish(Refusal(req))
        \/ /\ known /\ pc = "context" /\ req.bad = "none"
           /\ Goto(IF req.op = "list_contracts" /\ req.group # Unset THEN "group" ELSE "project")
           /\ UNCHANGED seen
        \/ known /\ pc = "project" /\ Goto(NextCall(req)) /\ UNCHANGED seen
     /\ Reads

(* The project page has found its project and calls create_contract::list, *)
(* which looks for it once more; so does list_contracts, at "project".     *)
FindProjectAgain ==
  /\ pc = "again"
  /\ Goto("list")
  /\ UNCHANGED seen
  /\ Reads

(* groups().find_by_name; list_contracts asks before its use case, which   *)
(* then looks for the project.                                             *)
FindGroup ==
  /\ pc = "group"
  /\ \/ GroupsNamed(req.slug, req.group) = {} /\ Finish("not_found")
     \/ \E g \in GroupsNamed(req.slug, req.group) :
          /\ seen' = [seen EXCEPT !.group = g]
          /\ Goto(IF req.op = "list_contracts" THEN "project"
                  ELSE IF req.mode = "semantic" THEN "semantic" ELSE "exact")
  /\ Reads

----------------------------------------------------------------------------
(* Lists and pages                                                         *)

(* Mutated form: the group's id in place of its name.                      *)
EntryWithGroupId(c) == [id |-> c, key |-> contracts[c].key, group |-> contracts[c].group]

(* A row of list, with the name that the join finds for its group.        *)
EntryOf(c) ==
  [id |-> c, key |-> contracts[c].key,
   group |-> IF contracts[c].group = Unset THEN Unset ELSE groups[contracts[c].group].name]

(* What follows the list of contracts.                                     *)
AfterList(op) ==
  IF op = "project_page" THEN "groups" ELSE IF op = "export" THEN "bodies" ELSE "done"

(* AND status = ?: writers change the status of a contract as they like,   *)
(* so that the filter may leave any part of the rows.                      *)
Filters(r, rows) == IF r.byStatus THEN SUBSET rows ELSE {rows}

(* contracts().list                                                        *)
ListContracts ==
  /\ pc = "list"
  /\ \E S \in Filters(req, {c \in Contracts : InScope(c, req.slug, seen.group)}) :
     \E s \in Listings(S) :
       LET listed == Upto(s, Limit(req))
           next == IF req.op = "export" /\ DOMAIN listed = {} THEN "done"
                   ELSE AfterList(req.op)
       IN /\ seen' = [seen EXCEPT !.listed = [k \in DOMAIN listed |-> EntryOf(listed[k])],
                                  !.rest = IF req.op = "export" THEN DOMAIN listed ELSE {},
                                  !.outcome = IF next = "done" THEN "ok" ELSE @]
          /\ Goto(next)
  /\ Reads

(* groups().list_with_counts                                               *)
ListGroups ==
  /\ pc = "groups"
  /\ seen' = [seen EXCEPT !.groups = {g \in DOMAIN groups : groups[g].project = req.slug},
                          !.outcome = "ok"]
  /\ Goto("done")
  /\ Reads

(* projects().list_with_counts                                             *)
ListProjects ==
  /\ pc = "projects"
  /\ Finish("ok")
  /\ Reads

(* contracts().find_by_id; the page then asks for the contract's log.      *)
ReadContract ==
  /\ pc = "contract"
  /\ \/ ~InScope(req.id, req.slug, Unset) /\ Finish("not_found")
     \/ InScope(req.id, req.slug, Unset) /\ req.op = "get_contract" /\ Finish("ok")
     \/ /\ InScope(req.id, req.slug, Unset) /\ req.op = "contract_page"
        /\ Goto("audit") /\ UNCHANGED seen
  /\ Reads

(* audit().list_for_resource                                               *)
ReadAudit ==
  /\ pc = "audit"
  /\ Finish("ok")
  /\ Reads

(* The place that a loop of reads comes to next.                           *)
IsNext(k) == k \in seen.rest /\ \A l \in seen.rest : k <= l

(* Where the loop goes after the read at k, and the answer after the last. *)
After(k, call) == IF seen.rest = {k} THEN "done" ELSE call
Settled(k)     == IF seen.rest = {k} THEN "ok" ELSE seen.outcome

(* One find_by_id of the export; a contract that is gone ends it.          *)
ReadBody ==
  /\ pc = "bodies"
  /\ \E k \in DOMAIN seen.listed :
       LET c == seen.listed[k].id
       IN /\ IsNext(k)
          /\ \/ ~InScope(c, req.slug, Unset) /\ Finish("not_found")
             \/ /\ InScope(c, req.slug, Unset)
                /\ seen' = [seen EXCEPT !.doc = Filed(@, contracts[c].key, c),
                                        !.rest = @ \ {k}, !.outcome = Settled(k)]
                /\ Goto(After(k, "bodies"))
  /\ Reads

----------------------------------------------------------------------------
(* Search                                                                  *)

(* The merged list, and the reads that fill its blanks.                    *)
MergeInto(exact, semantic) ==
  \E hits \in Merges(exact, semantic, Limit(req)) :
    LET done == Blanks(hits) = {}
    IN /\ seen' = [seen EXCEPT !.exact = exact, !.semantic = semantic, !.hits = hits,
                               !.rest = Blanks(hits), !.outcome = IF done THEN "ok" ELSE @]
       /\ Goto(IF done THEN "done" ELSE "hydrate")

(* contracts().search_exact                                                *)
SearchExact ==
  LET found == {c \in Contracts : /\ InScope(c, req.slug, seen.group)
                                  /\ contracts[c].key \in Matching}
      First(c, d) == contracts[c].key \in Named /\ contracts[d].key \notin Named
  IN /\ pc = "exact"
     /\ \E s \in Orders(found, First) :
          LET exact == [k \in DOMAIN Upto(s, ExactLimit) |->
                          [id |-> s[k], key |-> contracts[s[k]].key]]
          IN IF req.mode = "exact" THEN MergeInto(exact, << >>)
             ELSE seen' = [seen EXCEPT !.exact = exact] /\ Goto("semantic")
     /\ Reads

(* The k nearest vectors of the table, whatever their project; ties fall   *)
(* either way.                                                             *)
Nearest ==
  LET stored == DOMAIN vectors
      k == IF Cardinality(stored) < NearestLimit THEN Cardinality(stored) ELSE NearestLimit
  IN {S \in SUBSET stored :
        /\ Cardinality(S) = k
        /\ \A c \in S, d \in stored \ S : Distance[vectors[c]] <= Distance[vectors[d]]}

(* contracts().search_semantic: of the nearest vectors those that belong   *)
(* to a contract in scope, by their distance.                              *)
SearchSemantic ==
  LET Nearer(c, d) == Distance[vectors[c]] < Distance[vectors[d]]
  IN /\ pc = "semantic"
     /\ \E S \in Nearest :
          \E s \in Orders({c \in S : InScope(c, req.slug, seen.group)}, Nearer) :
            MergeInto(seen.exact, s)
     /\ Reads

(* find_by_id for one blank; if the contract is gone the blank stays.      *)
Hydrate ==
  /\ pc = "hydrate"
  /\ \E k \in DOMAIN seen.hits :
       LET c == seen.hits[k].id
       IN /\ IsNext(k)
          /\ seen' = [seen EXCEPT
               !.hits[k].key = IF InScope(c, req.slug, Unset) THEN contracts[c].key ELSE @,
               !.rest = @ \ {k}, !.outcome = Settled(k)]
          /\ Goto(After(k, "hydrate"))
  /\ Reads

(* A call returns an error.  The project page goes on without what it      *)
(* asked for, the contract page without its log, search with a blank.      *)
CallFails ==
  /\ pc \in Calls
  /\ \/ /\ req.op = "project_page" /\ pc \in {"again", "list"}
        /\ Goto("groups")
        /\ seen' = [seen EXCEPT !.failed = TRUE]
     \/ /\ pc = "hydrate"
        /\ \E k \in DOMAIN seen.hits :
             /\ IsNext(k)
             /\ Goto(After(k, "hydrate"))
             /\ seen' = [seen EXCEPT !.failed = TRUE, !.rest = @ \ {k}, !.outcome = Settled(k)]
     \/ LET shown == pc = "audit" \/ (req.op = "project_page" /\ pc = "groups")
                       \/ req.op = "dashboard"
        IN /\ pc \notin {"again", "hydrate"} /\ ~(req.op = "project_page" /\ pc = "list")
           /\ Goto("done")
           /\ seen' = [seen EXCEPT !.failed = TRUE,
                                   !.outcome = IF shown THEN "ok" ELSE "internal_error"]
  /\ Reads

----------------------------------------------------------------------------
(* The writers' calls                                                      *)

(* bound: writers are watched while a request is at work; what they did    *)
(* before it is in the choice of Databases.                                *)
Write ==
  /\ writes > 0 /\ pc \in Calls
  /\ writes' = writes - 1
  /\ UNCHANGED reader

AddProject ==
  /\ Write
  /\ \E p \in Slugs \ projects : projects' = projects \cup {p}
  /\ UNCHANGED <<groups, contracts, vectors>>
  /\ Observe

(* groups().resolve: the parent may be any group there is.                 *)
AddGroup ==
  /\ Write
  /\ \E g \in Groups \ DOMAIN groups, p \in projects, n \in GroupNames,
        parent \in DOMAIN groups \cup {Unset} :
       /\ \A h \in DOMAIN groups : <<groups[h].project, groups[h].name>> # <<p, n>>
       /\ groups' = Put(groups, g, [project |-> p, name |-> n, parent |-> parent])
  /\ UNCHANGED <<projects, contracts, vectors>>
  /\ Observe

GroupsOf(p) == {g \in DOMAIN groups : groups[g].project = p}

(* contracts().create                                                      *)
InsertContract ==
  /\ Write
  /\ \E c \in Contracts, p \in projects, k \in Key :
       /\ contracts[c] = Unset /\ KeyIsFree(p, k)
       /\ \E g \in GroupsOf(p) \cup {Unset} :
            contracts' = [contracts EXCEPT ![c] = [project |-> p, key |-> k, group |-> g]]
  /\ UNCHANGED <<projects, groups, vectors>>
  /\ Observe

(* contracts().update                                                      *)
MoveContract ==
  /\ Write
  /\ \E c \in Contracts, k \in Key :
       /\ Live(c) /\ (k # contracts[c].key => KeyIsFree(contracts[c].project, k))
       /\ \E g \in GroupsOf(contracts[c].project) \cup {contracts[c].group} :
            contracts' = [contracts EXCEPT ![c].key = k, ![c].group = g]
       /\ contracts'[c] # contracts[c]
  /\ UNCHANGED <<projects, groups, vectors>>
  /\ Observe

(* contracts().delete; the vector goes in a call after it.                 *)
DeleteContract ==
  /\ Write
  /\ \E c \in Contracts : Live(c) /\ contracts' = [contracts EXCEPT ![c] = Gone]
  /\ UNCHANGED <<projects, groups, vectors>>
  /\ Observe

(* embeddings().upsert and embeddings().delete                             *)
IndexContract ==
  /\ Write
  /\ \E c \in Contracts :
       \/ Live(c) /\ vectors' = Put(vectors, c, contracts[c].key)
       \/ /\ contracts[c] = Gone /\ c \in DOMAIN vectors
          /\ vectors' = [d \in DOMAIN vectors \ {c} |-> vectors[d]]
  /\ vectors' # vectors
  /\ UNCHANGED <<projects, groups, contracts>>
  /\ Observe

----------------------------------------------------------------------------

Init ==
  /\ \E db \in Databases :
       /\ groups = db.groups
       /\ contracts = db.contracts
       /\ vectors = [c \in db.indexed |-> db.contracts[c].key]
       /\ projects = db.projects
  /\ pc = "idle"
  /\ req = Unset
  /\ seen = NothingSeen
  /\ was = [c \in Contracts |-> {}]
  /\ lacked = FALSE
  /\ asks = Asks
  /\ writes = MaxWrites

Read ==
  \/ FindProject \/ FindProjectAgain \/ FindGroup
  \/ ListContracts \/ ListGroups \/ ListProjects \/ ReadContract \/ ReadAudit \/ ReadBody
  \/ SearchExact \/ SearchSemantic \/ Hydrate \/ CallFails

WriteCall ==
  \/ AddProject \/ AddGroup \/ InsertContract \/ MoveContract \/ DeleteContract \/ IndexContract

(* The last request is answered.                                           *)
Finished == pc = "done" /\ asks = 0 /\ UNCHANGED vars

Next == Arrive \/ Read \/ WriteCall \/ Finished

Spec == Init /\ [][Next]_vars
=============================================================================
