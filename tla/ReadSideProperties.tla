------------------------- MODULE ReadSideProperties -------------------------
(***************************************************************************)
(* What an answer put together from several reads is worth, whatever the   *)
(* writers do between them.                                                *)
(***************************************************************************)
EXTENDS ReadSide

(* The tables and the reader's locals stay within their types.             *)
TypeOK ==
  /\ projects \subseteq Slugs
  /\ DOMAIN groups \subseteq Groups /\ \A g \in DOMAIN groups : groups[g] \in Folder
  /\ contracts \in [Contracts -> Row \cup {Unset, Gone}]
  /\ DOMAIN vectors \subseteq Contracts /\ \A c \in DOMAIN vectors : vectors[c] \in Key
  /\ pc \in Calls \cup {"idle", "done"}
  /\ req \in Requests \cup {Unset}
  /\ seen.group \in Groups \cup {Unset} /\ seen.groups \subseteq Groups
  /\ seen.exact \in Seq(Hit) /\ seen.hits \in Seq(Hit)
  /\ seen.semantic \in Seq(Contracts) /\ seen.rest \subseteq Nat
  /\ seen.listed \in Seq(Entry)
  /\ seen.failed \in BOOLEAN /\ seen.outcome \in Outcomes
  /\ asks \in Nat /\ writes \in Nat

Answered(ops) == pc = "done" /\ req.op \in ops /\ seen.outcome = "ok"

(* What c has been while the request was at work, where the request asked. *)
WasInScope(c) ==
  {row \in was[c] \cap Row :
     row.project = req.slug /\ (seen.group # Unset => row.group = seen.group)}

(* Every result of a search was in the project and the group asked for at  *)
(* some instant of the search, under the path it is shown with at another; *)
(* no contract comes twice and none beyond the limit; and a result without *)
(* a path is a contract deleted since it was found, or one whose read      *)
(* failed.                                                                 *)
SearchHitsWereThere ==
  Answered({"search"}) =>
    /\ Len(seen.hits) <= MaxLimit
    /\ \A i, j \in DOMAIN seen.hits : seen.hits[i].id = seen.hits[j].id => i = j
    /\ \A k \in DOMAIN seen.hits :
         LET hit == seen.hits[k]
         IN /\ WasInScope(hit.id) # {}
            /\ IF hit.key = Unset THEN Gone \in was[hit.id] \/ seen.failed
               ELSE \E row \in was[hit.id] \cap Row : row.project = req.slug /\ row.key = hit.key

Agreed(c) ==
  /\ \E k \in DOMAIN seen.exact : seen.exact[k].id = c
  /\ \E k \in DOMAIN seen.semantic : seen.semantic[k] = c

(* A search that looks at texts finds every contract that matches in all   *)
(* the time it takes, unless more match than it may list or the answer is  *)
(* full; and in the answer, what both searches found comes before what     *)
(* only one did, so that the limit never drops the former for the latter.  *)
SearchFindsWhatStays ==
  Answered({"search"}) =>
    LET ids == {seen.hits[k].id : k \in DOMAIN seen.hits}
        matched == {c \in Contracts : \E row \in WasInScope(c) : row.key \in Matching}
    IN /\ \A c \in Contracts :
            req.mode # "semantic" /\ was[c] = WasInScope(c)
              /\ (\A row \in was[c] : row.key \in Matching) /\ Cardinality(was[c]) = 1 =>
                 c \in ids \/ Cardinality(matched) > ExactLimit \/ Len(seen.hits) >= Limit(req)
       /\ \A i, j \in DOMAIN seen.hits :
            Agreed(seen.hits[j].id) /\ ~Agreed(seen.hits[i].id) => j < i
       /\ \A c \in Contracts \ ids : Agreed(c) => \A d \in ids : Agreed(d)

(* An export holds, under its path and method, every contract that was     *)
(* there and was not moved while it was written, though others were moved  *)
(* to or from the same path meanwhile; and nothing is filed where it has   *)
(* never been.                                                             *)
ExportKeepsWhatStays ==
  Answered({"export"}) =>
    /\ \A c \in Contracts : \A row \in was[c] \cap Row :
         was[c] = {row} /\ row.project = req.slug
           /\ Cardinality({d \in Contracts : \E r \in was[d] \cap Row : r.project = req.slug})
                <= ExportLimit =>
         /\ row.key.path \in DOMAIN seen.doc
         /\ row.key.method \in DOMAIN seen.doc[row.key.path]
         /\ seen.doc[row.key.path][row.key.method] = c
    /\ \A p \in DOMAIN seen.doc : \A m \in DOMAIN seen.doc[p] :
         \E row \in was[seen.doc[p][m]] \cap Row :
           row.project = req.slug /\ row.key = [path |-> p, method |-> m]

(* With a group that is in S, the group it hangs on is.                    *)
HoldsParents(S) ==
  \A g \in S : groups[g].parent # Unset => groups[g].parent \in S

(* g and the groups it is in, as far up as they go.                        *)
Chain(g) ==
  {h \in DOMAIN groups :
     \A S \in SUBSET DOMAIN groups : g \in S /\ HoldsParents(S) => h \in S}

(* The page of a project shows each contract of its list in one place,     *)
(* groups created while it is put together included.  A contract is left   *)
(* out for two reasons: the groups could not be read, or a group above its *)
(* own belongs to another project.                                         *)
PageShowsEachContractOnce ==
  Answered({"project_page"}) =>
    \A k \in DOMAIN seen.listed :
      LET entry == seen.listed[k]
          home == {g \in DOMAIN groups : groups[g].project = req.slug /\ groups[g].name = entry.group}
          strays == \E g \in home : \E h \in Chain(g) : groups[h].project # req.slug
      IN IF strays THEN Places(entry, seen.groups) = {}
         ELSE Cardinality(Places(entry, seen.groups)) = 1 \/ seen.failed

(* A client is told that something is not there only if it was not there   *)
(* at some instant of the request, if its name could not be parsed, or by  *)
(* a page of which a read failed.  One answer is worse than that: an       *)
(* export whose project is there, because one of its contracts went away   *)
(* between the list and the read.                                          *)
NotFoundIsTrue ==
  pc = "done" /\ Told(req, seen.outcome)[2] = "not_found" =>
    \/ lacked
    \/ req.bad # "none"
    \/ req.op \in {"contract_page", "get_contract"}
         /\ \E state \in was[req.id] : state \in {Unset, Gone} \/ state.project # req.slug
    \/ req.door = "web" /\ req.op # "search" /\ seen.failed
    \/ req.op = "export" /\ \E k \in DOMAIN seen.listed : Gone \in was[seen.listed[k].id]
=============================================================================
