--------------------------- MODULE ReadSideProofs ---------------------------
(***************************************************************************)
(* Proofs about the readers: what an answer made of several calls is worth *)
(* beside any calls of writers, for any tables, requests and limits.       *)
(***************************************************************************)
EXTENDS ReadSideProperties, FiniteSetTheorems, SequenceTheorems, TLAPS

(* A list is a sequence.                                                   *)
LEMMA ListIsSeq ==
  ASSUME NEW S, NEW n \in Nat, NEW f \in [1..n -> S]
  PROVE  f \in Seq(S) /\ Len(f) = n /\ DOMAIN f = 1..n
<1>1. f \in Seq(S)
  BY SeqDef
<1>2. DOMAIN f = 1..Len(f) /\ Len(f) \in Nat
  BY <1>1, LenProperties
<1>3. 1..Len(f) = 1..n
  BY <1>2
<1>4. Len(f) = n
  <2>1. \A k \in Nat : Cardinality(1..k) = k
    BY FS_Interval
  <2> QED
    BY <1>2, <1>3, <2>1
<1> QED
  BY <1>1, <1>2, <1>4

(* A set in some order: every item comes, and once.                        *)
LEMMA ListingFacts ==
  ASSUME NEW S, IsFiniteSet(S), NEW s \in Listings(S)
  PROVE  /\ Cardinality(S) \in Nat /\ s \in [1..Cardinality(S) -> S]
         /\ \A i, j \in 1..Cardinality(S) : s[i] = s[j] => i = j
         /\ \A x \in S : \E i \in 1..Cardinality(S) : s[i] = x
<1> DEFINE n == Cardinality(S)
<1>1. n \in Nat
  BY FS_CardinalityType
<1>2. s \in [1..n -> S] /\ \A i, j \in 1..n : s[i] = s[j] => i = j
  BY DEF Listings
<1> HIDE DEF n
<1>3. s \in Injection(1..n, S)
  BY <1>2 DEF Injection, IsInjective
<1>4. Cardinality(1..n) = n
  BY <1>1, FS_Interval
<1>5. s \in Surjection(1..n, S)
  BY <1>3, <1>4, FS_Injection DEF n
<1> QED
  BY <1>1, <1>2, <1>5 DEF Surjection, n

(* The beginning of a list.                                                *)
LEMMA UptoFacts ==
  ASSUME NEW m \in Nat, NEW s, DOMAIN s = 1..m, NEW n \in Nat
  PROVE  \E k \in Nat :
           /\ k <= m /\ k <= n /\ k \in {m, n}
           /\ Upto(s, n) = [i \in 1..k |-> s[i]]
<1> DEFINE k == IF m <= n THEN m ELSE n
<1>1. {i \in DOMAIN s : i <= n} = 1..k
  OBVIOUS
<1>2. k \in Nat /\ k <= m /\ k <= n /\ k \in {m, n}
  OBVIOUS
<1> HIDE DEF k
<1>3. Upto(s, n) = [i \in 1..k |-> s[i]]
  BY <1>1 DEF Upto
<1> QED
  BY <1>2, <1>3

(* The rank of an item in a list where it comes once.                      *)
LEMMA RankFacts ==
  ASSUME NEW n \in Nat, NEW f, DOMAIN f = 1..n, NEW c,
         \A i, j \in 1..n : f[i] = f[j] => i = j
  PROVE  /\ RankIn(f, c) \in 0..n
         /\ RankIn(f, c) # 0 <=> \E k \in 1..n : f[k] = c
         /\ RankIn(f, c) # 0 => f[RankIn(f, c)] = c
<1>1. CASE \E k \in DOMAIN f : f[k] = c
  <2>1. RankIn(f, c) \in 1..n /\ f[RankIn(f, c)] = c
    BY <1>1 DEF RankIn
  <2> QED
    BY <2>1
<1>2. CASE ~\E k \in DOMAIN f : f[k] = c
  BY <1>2 DEF RankIn
<1> QED
  BY <1>1, <1>2

----------------------------------------------------------------------------
(* rrf_merge                                                               *)

LEMMA HalfOutweighs ==
  ASSUME NEW x \in Nat \ {0}, NEW d \in Nat \ {0}, NEW y \in Nat \ {0}, y < 2 * d
  PROVE  x * y < 2 * (x * d)
<1>1. x * y < x * (2 * d)
  OBVIOUS
<1>2. x * (2 * d) = 2 * (x * d)
  OBVIOUS
<1> QED
  BY <1>1, <1>2

LEMMA SumOutweighs ==
  ASSUME NEW a \in Nat \ {0}, NEW b \in Nat \ {0}, NEW d \in Nat \ {0}, a < 2 * d, b < 2 * d
  PROVE  (a + b) * d > a * b
<1>1. a * b < 2 * (a * d) /\ b * a < 2 * (b * d)
  BY HalfOutweighs
<1>2. a * d \in Nat /\ b * d \in Nat /\ a * b \in Nat /\ a * b = b * a
  OBVIOUS
<1>3. (a + b) * d = a * d + b * d
  OBVIOUS
<1> QED
  BY <1>1, <1>2, <1>3

(* A hit of both searches outweighs one of either.                         *)
LEMMA BothOutweighOne ==
  ASSUME NEW i \in 1..ExactLimit, NEW j \in 1..NearestLimit, NEW m \in Nat \ {0}
  PROVE  /\ Exceeds(Score(i, j), Score(m, 0))
         /\ Exceeds(Score(i, j), Score(0, m))
<1> DEFINE a == RankOffset + i
           b == RankOffset + j
           d == RankOffset + m
<1>0. RankOffset \in Nat /\ ExactLimit \in Nat \ {0} /\ NearestLimit \in Nat \ {0}
  BY ReadSideAssumption
<1>1. RankOffset + ExactLimit < 2 * (RankOffset + 1)
      /\ RankOffset + NearestLimit < 2 * (RankOffset + 1)
  BY ReadSideAssumption
<1>2. /\ a \in Nat \ {0} /\ b \in Nat \ {0} /\ d \in Nat \ {0}
      /\ a < 2 * d /\ b < 2 * d
  BY <1>0, <1>1
<1>3. i # 0 /\ j # 0 /\ m # 0
  BY <1>0
<1>4. Score(i, j) = <<a + b, a * b>> /\ Score(m, 0) = <<1, d>> /\ Score(0, m) = <<1, d>>
  BY <1>3 DEF Score
<1> HIDE DEF a, b, d
<1>5. (a + b) * d > a * b
  BY <1>2, SumOutweighs
<1>6. a * b \in Nat
  BY <1>2
<1>7. 1 * (a * b) = a * b
  BY <1>6
<1> QED
  BY <1>4, <1>5, <1>7 DEF Exceeds

(* What both searches found.                                               *)
InBoth(exact, semantic, c) ==
  /\ \E k \in DOMAIN exact : exact[k].id = c
  /\ \E k \in DOMAIN semantic : semantic[k] = c

(* The list that rrf_merge returns: each of its hits comes from one of the *)
(* searches, no contract twice; what is left out is left out for the       *)
(* limit, and what both searches found precedes what one of them did.      *)
Fused(exact, semantic, limit, hits) ==
  /\ Len(hits) <= limit
  /\ \A i, j \in DOMAIN hits : hits[i].id = hits[j].id => i = j
  /\ \A k \in DOMAIN exact :
       (\E i \in DOMAIN hits : hits[i].id = exact[k].id) \/ Len(hits) >= limit
  /\ \A i, j \in DOMAIN hits :
       InBoth(exact, semantic, hits[j].id) /\ ~InBoth(exact, semantic, hits[i].id) => j < i
  /\ \A c \in Contracts : InBoth(exact, semantic, c) /\ (\A k \in DOMAIN hits : hits[k].id # c) =>
       \A k \in DOMAIN hits : InBoth(exact, semantic, hits[k].id)

(* A hit as a search returned it.                                          *)
Found(exact, semantic, hit) ==
  \/ \E m \in DOMAIN exact : hit = exact[m]
  \/ \E m \in DOMAIN semantic : hit = [id |-> semantic[m], key |-> Unset]

LEMMA MergeFacts ==
  ASSUME NEW exact \in Seq(Hit), NEW semantic \in Seq(Contracts), NEW limit \in Nat,
         \A i, j \in DOMAIN exact : exact[i].id = exact[j].id => i = j,
         \A i, j \in DOMAIN semantic : semantic[i] = semantic[j] => i = j,
         Len(exact) <= ExactLimit, Len(semantic) <= NearestLimit,
         NEW hits \in Merges(exact, semantic, limit)
  PROVE  /\ hits \in Seq(Hit)
         /\ Fused(exact, semantic, limit, hits)
         /\ \A k \in DOMAIN hits : Found(exact, semantic, hits[k])
<1> DEFINE e == Len(exact)
           x == Len(semantic)
           names == Ids(exact)
           ids == {exact[k].id : k \in DOMAIN exact} \cup {semantic[k] : k \in DOMAIN semantic}
           n == Cardinality(ids)
           ScoreOf(c) == Score(RankIn(names, c), RankIn(semantic, c))
           HitOf(c) == LET k == RankIn(names, c)
                       IN IF k = 0 THEN [id |-> c, key |-> Unset] ELSE exact[k]
<1>0. IsFiniteSet(Contracts) /\ ExactLimit \in Nat /\ NearestLimit \in Nat
  BY ReadSideAssumption
<1>1. /\ e \in Nat /\ exact \in [1..e -> Hit] /\ DOMAIN exact = 1..e
      /\ x \in Nat /\ semantic \in [1..x -> Contracts] /\ DOMAIN semantic = 1..x
      /\ e <= ExactLimit /\ x <= NearestLimit
  BY LenProperties
<1>2. names \in [1..e -> Contracts] /\ \A k \in 1..e : names[k] = exact[k].id
  BY <1>1 DEF Ids, Hit
<1>3. \A i, j \in 1..e : names[i] = names[j] => i = j
  BY <1>1, <1>2
<1>4. ids \subseteq Contracts
  BY <1>1 DEF Hit
<1>5. IsFiniteSet(ids)
  BY <1>0, <1>4, FS_Subset
<1>6. PICK s \in Listings(ids) :
        /\ \A i, j \in DOMAIN s : Exceeds(ScoreOf(s[i]), ScoreOf(s[j])) => i < j
        /\ hits = [k \in DOMAIN Upto(s, limit) |-> HitOf(s[k])]
  BY DEF Merges, Orders
<1>7. /\ n \in Nat /\ s \in [1..n -> ids]
      /\ \A i, j \in 1..n : s[i] = s[j] => i = j
      /\ \A c \in ids : \E i \in 1..n : s[i] = c
  <2> HIDE DEF ids
  <2> QED
    BY <1>5, ListingFacts
<1>8. PICK l \in Nat : l <= n /\ l <= limit /\ l \in {n, limit} /\ DOMAIN Upto(s, limit) = 1..l
  <2> HIDE DEF ids, n
  <2>1. DOMAIN s = 1..n /\ n \in Nat
    BY <1>7
  <2>2. PICK l \in Nat : /\ l <= n /\ l <= limit /\ l \in {n, limit}
                         /\ Upto(s, limit) = [i \in 1..l |-> s[i]]
    BY <2>1, UptoFacts
  <2> QED
    BY <2>2
<1>9. \A c : /\ RankIn(names, c) \in 0..e
             /\ RankIn(names, c) # 0 <=> \E k \in 1..e : exact[k].id = c
             /\ RankIn(names, c) # 0 => exact[RankIn(names, c)].id = c
  <2> TAKE c
  <2>1. /\ RankIn(names, c) \in 0..e
        /\ RankIn(names, c) # 0 <=> \E k \in 1..e : names[k] = c
        /\ RankIn(names, c) # 0 => names[RankIn(names, c)] = c
    <3> HIDE DEF names, e
    <3>1. DOMAIN names = 1..e
      BY <1>2
    <3> QED
      BY <1>1, <1>3, <3>1, RankFacts
  <2> QED
    BY <1>1, <1>2, <2>1
<1>10. \A c : /\ RankIn(semantic, c) \in 0..x
              /\ RankIn(semantic, c) # 0 <=> \E k \in 1..x : semantic[k] = c
  <2>1. x \in Nat /\ DOMAIN semantic = 1..x
    BY <1>1
  <2>2. \A i, j \in 1..x : semantic[i] = semantic[j] => i = j
    BY <2>1
  <2> HIDE DEF x
  <2> QED
    BY <2>1, <2>2, RankFacts
<1>11. \A c \in ids : HitOf(c) \in Hit /\ HitOf(c).id = c /\ Found(exact, semantic, HitOf(c))
  <2> SUFFICES ASSUME NEW c \in ids
               PROVE  HitOf(c) \in Hit /\ HitOf(c).id = c /\ Found(exact, semantic, HitOf(c))
    OBVIOUS
  <2>1. CASE RankIn(names, c) = 0
    <3>1. HitOf(c) = [id |-> c, key |-> Unset]
      BY <2>1
    <3>2. \E m \in DOMAIN semantic : semantic[m] = c
      BY <1>1, <1>9, <2>1
    <3>3. c \in Contracts
      BY <1>4
    <3> HIDE DEF HitOf
    <3> QED
      BY <3>1, <3>2, <3>3 DEF Hit, Found
  <2>2. CASE RankIn(names, c) # 0
    <3>1. HitOf(c) = exact[RankIn(names, c)] /\ RankIn(names, c) \in DOMAIN exact
      BY <1>1, <1>9, <2>2
    <3>2. exact[RankIn(names, c)] \in Hit /\ exact[RankIn(names, c)].id = c
      BY <1>1, <1>9, <2>2, <3>1
    <3> HIDE DEF HitOf
    <3> QED
      BY <3>1, <3>2 DEF Found
  <2> QED
    BY <2>1, <2>2
<1> HIDE DEF HitOf
<1>12. /\ hits \in [1..l -> Hit]
       /\ \A k \in 1..l : s[k] \in ids /\ hits[k].id = s[k] /\ Found(exact, semantic, hits[k])
  <2>1. \A k \in 1..l : k \in 1..n /\ s[k] \in ids
    BY <1>7, <1>8
  <2>2. hits = [k \in 1..l |-> HitOf(s[k])]
    BY <1>6, <1>8
  <2> HIDE DEF ids, n
  <2> QED
    BY <1>11, <2>1, <2>2
<1>13. hits \in Seq(Hit) /\ Len(hits) = l /\ DOMAIN hits = 1..l
  BY <1>12, ListIsSeq
<1>14. \A c, d \in ids :
         InBoth(exact, semantic, c) /\ ~InBoth(exact, semantic, d)
           => Exceeds(ScoreOf(c), ScoreOf(d))
  <2> SUFFICES ASSUME NEW c \in ids, NEW d \in ids, InBoth(exact, semantic, c),
                      ~InBoth(exact, semantic, d)
               PROVE  Exceeds(ScoreOf(c), ScoreOf(d))
    OBVIOUS
  <2>1. RankIn(names, c) \in 1..ExactLimit /\ RankIn(semantic, c) \in 1..NearestLimit
    BY <1>0, <1>1, <1>9, <1>10 DEF InBoth
  <2>2. \/ RankIn(names, d) \in Nat \ {0} /\ RankIn(semantic, d) = 0
        \/ RankIn(names, d) = 0 /\ RankIn(semantic, d) \in Nat \ {0}
    <3>1. RankIn(names, d) \in Nat /\ RankIn(semantic, d) \in Nat
      BY <1>1, <1>9, <1>10
    <3>2. (\E k \in 1..e : exact[k].id = d) \/ (\E k \in 1..x : semantic[k] = d)
      BY <1>1
    <3>3. ~((\E k \in 1..e : exact[k].id = d) /\ (\E k \in 1..x : semantic[k] = d))
      BY <1>1 DEF InBoth
    <3> HIDE DEF ids, names, e, x
    <3> QED
      BY <1>9, <1>10, <3>1, <3>2, <3>3
  <2> HIDE DEF ids, names
  <2> QED
    BY <2>1, <2>2, BothOutweighOne
<1> HIDE DEF ScoreOf, ids, n
<1>15. \A i, j \in 1..n :
         InBoth(exact, semantic, s[j]) /\ ~InBoth(exact, semantic, s[i]) => j < i
  BY <1>6, <1>7, <1>14
<1>16. \A c : InBoth(exact, semantic, c) => c \in ids
  BY DEF InBoth, ids
<1>17. \A i, j \in DOMAIN hits : hits[i].id = hits[j].id => i = j
  BY <1>7, <1>8, <1>12, <1>13
<1>18. \A c \in ids : (\E i \in 1..l : s[i] = c) \/ (l = limit /\ \E m \in 1..n : m > l /\ s[m] = c)
  BY <1>7, <1>8
<1>19. \A k \in DOMAIN exact :
         (\E i \in DOMAIN hits : hits[i].id = exact[k].id) \/ Len(hits) >= limit
  <2>1. \A k \in DOMAIN exact : exact[k].id \in ids
    BY DEF ids
  <2>2. l = limit => Len(hits) >= limit
    BY <1>13
  <2>3. \A i \in 1..l : i \in DOMAIN hits /\ hits[i].id = s[i]
    BY <1>12, <1>13
  <2> QED
    BY <1>18, <2>1, <2>2, <2>3
<1>20. \A i, j \in DOMAIN hits :
         InBoth(exact, semantic, hits[j].id) /\ ~InBoth(exact, semantic, hits[i].id) => j < i
  BY <1>7, <1>8, <1>12, <1>13, <1>15
<1>21. ASSUME NEW c, InBoth(exact, semantic, c), \A k \in DOMAIN hits : hits[k].id # c,
              NEW k \in DOMAIN hits, ~InBoth(exact, semantic, hits[k].id)
       PROVE  FALSE
  <2>1. PICK m \in 1..n : m > l /\ s[m] = c
    BY <1>12, <1>13, <1>16, <1>18, <1>21
  <2>2. k \in 1..n /\ hits[k].id = s[k] /\ k <= l
    BY <1>7, <1>8, <1>12, <1>13
  <2>3. m < k
    BY <1>15, <1>21, <2>1, <2>2
  <2> QED
    BY <1>7, <1>8, <2>1, <2>2, <2>3
<1>22. Len(hits) <= limit
  BY <1>8, <1>13
<1>23. Fused(exact, semantic, limit, hits)
  BY <1>17, <1>19, <1>20, <1>21, <1>22 DEF Fused
<1> QED
  BY <1>12, <1>13, <1>23

----------------------------------------------------------------------------
(* The inductive invariant                                                 *)

Docs == UNION {[P -> UNION {[M -> Contracts] : M \in SUBSET Methods}] : P \in SUBSET Paths}

Locals ==
  [group : Groups \cup {Unset}, exact : Seq(Hit), semantic : Seq(Contracts), hits : Seq(Hit),
   listed : Seq(Entry), rest : SUBSET Nat, doc : Docs, groups : SUBSET Groups,
   failed : BOOLEAN, outcome : Outcomes]

(* The tables are as the repositories leave them.                          *)
Tables ==
  /\ projects \subseteq Slugs /\ Nested(groups) /\ Placed(contracts, groups)
  /\ DOMAIN vectors \subseteq Contracts /\ \A c \in DOMAIN vectors : vectors[c] \in Key

Ready ==
  /\ pc \in Calls \cup {"idle", "done"}
  /\ req \in Requests \cup {Unset}
  /\ seen \in Locals
  /\ asks \in Nat /\ writes \in Nat

(* What has been seen to be there stays, or is deleted; a contract keeps   *)
(* its project.                                                            *)
History ==
  /\ was \in [Contracts -> SUBSET (Row \cup {Unset, Gone})]
  /\ pc \in Calls => \A c \in Contracts : contracts[c] \in was[c]
  /\ pc # "idle" => \A c \in Contracts : \A row \in was[c] \cap Row :
       contracts[c] = Gone \/ (contracts[c] \in Row /\ contracts[c].project = row.project)
  /\ pc # "idle" /\ ~lacked =>
       /\ req.slug \in projects
       /\ req.group # Unset => GroupsNamed(req.slug, req.group) # {}

(* Which requests come to which call, and with what in hand.               *)
Control ==
  /\ pc # "idle" => req \in Requests
  /\ pc \in Calls => ~RefusedAtOnce(req) /\ seen.outcome = "nothing" /\ seen.groups = {}
  /\ pc \in {"context", "project"} => req.op \notin DOMAIN Frames \cup {"dashboard", "list_projects"}
  /\ pc = "context" => req.door = "mcp"
  /\ pc \in Calls \ {"context", "projects"} => req.bad = "none"
  /\ pc = "again" => req.op = "project_page"
  /\ pc = "group" => req.op \in {"search", "list_contracts"} /\ req.group # Unset
  /\ pc = "list" => req.op \in {"project_page", "export", "list_contracts"}
  /\ pc = "groups" => req.op \in {"project_page", "list_groups"}
  /\ pc = "contract" => req.op \in {"contract_page", "get_contract"}
  /\ pc = "audit" => req.op = "contract_page"
  /\ pc \in {"exact", "semantic", "hydrate"} => req.op = "search"
  /\ pc = "exact" => req.mode # "semantic"
  /\ pc = "bodies" => req.op = "export"
  /\ pc = "projects" => req.op \in {"dashboard", "list_projects"}
  /\ pc \in {"context", "project", "again", "group", "list", "exact"} =>
       seen.exact = << >> /\ seen.doc = << >> /\ seen.listed = << >>
  /\ pc = "semantic" /\ req.mode = "semantic" => seen.exact = << >>
  /\ pc \in {"context", "project", "again"} /\ req.op # "list_contracts" => seen.group = Unset
  /\ pc = "list" /\ req.op = "export" => seen.group = Unset

(* c is where the request asks and matches, and has been for as long.      *)
Matches(c) == was[c] = WasInScope(c) /\ \A row \in was[c] : row.key \in Matching

EverMatched == {c \in Contracts : \E row \in WasInScope(c) : row.key \in Matching}

(* What search_exact returned.                                             *)
ExactFound ==
  /\ Len(seen.exact) <= ExactLimit
  /\ \A i, j \in DOMAIN seen.exact : seen.exact[i].id = seen.exact[j].id => i = j
  /\ \A k \in DOMAIN seen.exact :
       \E row \in WasInScope(seen.exact[k].id) : row.key = seen.exact[k].key
  /\ req.mode # "semantic" =>
       \A c \in Contracts : Matches(c) =>
         (\E k \in DOMAIN seen.exact : seen.exact[k].id = c) \/ Cardinality(EverMatched) > ExactLimit

(* The merged list, some of its blanks filled.                             *)
HitsFound ==
  /\ Fused(seen.exact, seen.semantic, Limit(req), seen.hits)
  /\ \A k \in DOMAIN seen.hits :
       LET hit == seen.hits[k]
       IN /\ WasInScope(hit.id) # {}
          /\ IF hit.key = Unset THEN k \in seen.rest \/ Gone \in was[hit.id] \/ seen.failed
             ELSE \E row \in was[hit.id] \cap Row : row.project = req.slug /\ row.key = hit.key

Searching ==
  /\ pc = "semantic" => ExactFound
  /\ pc = "hydrate" => ExactFound /\ HitsFound
  /\ Answered({"search"}) => ExactFound /\ HitsFound /\ seen.rest = {}

EverThere == {d \in Contracts : \E r \in was[d] \cap Row : r.project = req.slug}

(* c is under path and method of row in the document.                      *)
HoldsAt(doc, key, c) ==
  key.path \in DOMAIN doc /\ key.method \in DOMAIN doc[key.path] /\ doc[key.path][key.method] = c

(* The document so far: what was listed and never moved is in it or to     *)
(* come.                                                                   *)
Written ==
  /\ \A k \in DOMAIN seen.listed : seen.listed[k].id \in EverThere
  /\ Cardinality(EverThere) <= ExportLimit =>
       \A c \in EverThere : (\E row \in Row : was[c] = {row}) =>
         \E k \in DOMAIN seen.listed : seen.listed[k].id = c
  /\ \A k \in DOMAIN seen.listed : \A row \in Row :
       LET c == seen.listed[k].id
       IN was[c] = {row} => k \in seen.rest \/ HoldsAt(seen.doc, row.key, c)
  /\ \A p \in DOMAIN seen.doc : \A m \in DOMAIN seen.doc[p] :
       \E row \in was[seen.doc[p][m]] \cap Row :
         row.project = req.slug /\ row.key = [path |-> p, method |-> m]

Exporting ==
  /\ pc = "bodies" => Written
  /\ Answered({"export"}) => Written /\ seen.rest = {}

(* The group of an entry in the list of a project page was found there.    *)
HomesAreThere ==
  \A k \in DOMAIN seen.listed :
    seen.listed[k].group = Unset \/ GroupsNamed(req.slug, seen.listed[k].group) # {}

(* The page has all the groups of its project, or could not read them.     *)
PageRead ==
  \/ seen.groups = {g \in DOMAIN groups : groups[g].project = req.slug} /\ HomesAreThere
  \/ seen.groups = {} /\ seen.failed

Paging ==
  /\ pc = "groups" /\ req.op = "project_page" => HomesAreThere
  /\ Answered({"project_page"}) => PageRead

IInv ==
  /\ Tables /\ Ready /\ History /\ Control
  /\ Searching /\ Exporting /\ Paging /\ NotFoundIsTrue

LEMMA EmptyLocals == NothingSeen \in Locals
<1>1. << >> \in Seq(Hit) /\ << >> \in Seq(Contracts) /\ << >> \in Seq(Entry)
  OBVIOUS
<1>2. << >> \in Docs
  <2>1. << >> \in [{} -> UNION {[M -> Contracts] : M \in SUBSET Methods}]
    OBVIOUS
  <2>2. {} \in SUBSET Paths
    OBVIOUS
  <2> QED
    BY <2>1, <2>2 DEF Docs
<1> QED
  BY <1>1, <1>2 DEF NothingSeen, Locals, Outcomes

LEMMA LimitFacts ==
  ASSUME NEW r \in Requests
  PROVE  /\ Limit(r) \in Nat
         /\ r.op = "search" => Limit(r) <= MaxLimit
         /\ r.op = "export" => Limit(r) = ExportLimit
<1>1. {HybridLimit, MaxLimit, ListLimit, PageLimit, ExportLimit} \subseteq Nat \ {0}
  BY ReadSideAssumption
<1>2. r.limit \in Int \cup {Unset}
  BY ReadSideAssumption DEF Request
<1>3. \A n \in Int : Clamp(n) \in Nat /\ Clamp(n) <= MaxLimit
  BY <1>1 DEF Clamp
<1> QED
  BY <1>1, <1>2, <1>3 DEF Limit

(* A contract in scope is a row of the project and the group.              *)
LEMMA ScopeFacts ==
  ASSUME Tables, NEW c \in Contracts, NEW p, NEW g
  PROVE  InScope(c, p, g) <=>
           contracts[c] \in Row /\ contracts[c].project = p /\ (g # Unset => contracts[c].group = g)
<1>1. contracts[c] \in Row \cup {Unset, Gone} /\ {Unset, Gone} \cap Row = {}
  BY ReadSideAssumption DEF Tables, Placed
<1> QED
  BY <1>1 DEF InScope, Live

(* A call of the reader changes nothing but what it has seen.              *)
LEMMA ReadsKeep ==
  ASSUME History, pc \in Calls, Reads
  PROVE  /\ projects' = projects /\ groups' = groups /\ contracts' = contracts
         /\ vectors' = vectors /\ req' = req /\ asks' = asks /\ writes' = writes
         /\ was' = was /\ lacked' = lacked
<1>1. /\ projects' = projects /\ groups' = groups /\ contracts' = contracts
      /\ vectors' = vectors /\ req' = req /\ asks' = asks /\ writes' = writes
      /\ lacked' = lacked
  BY DEF Reads, tables, Observe
<1>2. was' = [c \in Contracts |-> was[c] \cup {contracts[c]}]
  BY <1>1 DEF Reads, Observe
<1>3. \A c \in Contracts : was[c] \cup {contracts[c]} = was[c]
  BY DEF History
<1>4. was = [c \in Contracts |-> was[c]]
  BY DEF History
<1> QED
  BY <1>1, <1>2, <1>3, <1>4

LEMMA InitEstablishes == Init => IInv
<1> SUFFICES ASSUME Init PROVE IInv
  OBVIOUS
<1>1. PICK db \in Databases :
        /\ groups = db.groups /\ contracts = db.contracts /\ projects = db.projects
        /\ vectors = [c \in db.indexed |-> db.contracts[c].key]
  BY DEF Init
<1>2. /\ projects \subseteq Slugs /\ Nested(groups) /\ Placed(contracts, groups)
      /\ db.indexed \subseteq {c \in Contracts : contracts[c] \in Row}
  BY <1>1, ReadSideAssumption
<1>3. Tables
  <2>1. \A c \in DOMAIN vectors : vectors[c] \in Key
    BY <1>1, <1>2 DEF Row
  <2>2. DOMAIN vectors \subseteq Contracts
    BY <1>1, <1>2
  <2> QED
    BY <1>2, <2>1, <2>2 DEF Tables
<1>4. pc = "idle" /\ "idle" \notin Calls
  BY DEF Init, Calls
<1>5. Ready
  BY <1>4, EmptyLocals, ReadSideAssumption DEF Init, Ready
<1>6. History
  BY <1>4 DEF Init, History
<1>7. Control
  BY <1>4 DEF Control, Calls
<1>8. Searching /\ Exporting /\ Paging /\ NotFoundIsTrue
  BY <1>4 DEF Searching, Exporting, Paging, NotFoundIsTrue, Answered
<1> QED
  BY <1>3, <1>5, <1>6, <1>7, <1>8 DEF IInv

----------------------------------------------------------------------------
(* The writers' calls                                                      *)

(* What any call of a writer leaves of what readers rely on.               *)
Writes ==
  /\ UNCHANGED reader /\ UNCHANGED lacked
  /\ pc \in Calls
  /\ writes' \in Nat
  /\ projects \subseteq projects'
  /\ DOMAIN groups \subseteq DOMAIN groups'
  /\ \A g \in DOMAIN groups : groups'[g] = groups[g]
  /\ \A c \in Contracts :
       \/ contracts'[c] = contracts[c]
       \/ contracts[c] = Unset /\ contracts'[c] \in Row
       \/ contracts[c] \in Row /\ contracts'[c] \in Row /\ contracts'[c].project = contracts[c].project
       \/ contracts[c] \in Row /\ contracts'[c] = Gone
  /\ was' = [c \in Contracts |-> was[c] \cup {contracts'[c]}]

LEMMA WriteFacts ==
  ASSUME Ready, Write
  PROVE  UNCHANGED reader /\ pc \in Calls /\ writes' \in Nat
BY DEF Ready, Write

LEMMA AddProjectStep ==
  ASSUME Tables, Ready, AddProject
  PROVE  Tables' /\ Writes
<1>1. UNCHANGED reader /\ pc \in Calls /\ writes' \in Nat
  BY WriteFacts DEF AddProject
<1>2. /\ projects \subseteq projects' /\ projects' \subseteq Slugs
      /\ groups' = groups /\ contracts' = contracts /\ vectors' = vectors
  BY DEF AddProject, Tables
<1>3. was' = [c \in Contracts |-> was[c] \cup {contracts'[c]}] /\ UNCHANGED lacked
  BY <1>1 DEF AddProject, Observe
<1> QED
  BY <1>1, <1>2, <1>3 DEF Tables, Writes

(* A new group hangs on one there is, or on none.                          *)
LEMMA AddGroupStep ==
  ASSUME Tables, Ready, AddGroup
  PROVE  Tables' /\ Writes
<1>1. UNCHANGED reader /\ pc \in Calls /\ writes' \in Nat
  BY WriteFacts DEF AddGroup
<1>2. was' = [c \in Contracts |-> was[c] \cup {contracts'[c]}] /\ UNCHANGED lacked
  BY <1>1 DEF AddGroup, Observe
<1>3. projects' = projects /\ contracts' = contracts /\ vectors' = vectors
  BY DEF AddGroup
<1>4. PICK g \in Groups \ DOMAIN groups, p \in projects, n \in GroupNames,
           parent \in DOMAIN groups \cup {Unset} :
        /\ \A h \in DOMAIN groups : <<groups[h].project, groups[h].name>> # <<p, n>>
        /\ groups' = Put(groups, g, [project |-> p, name |-> n, parent |-> parent])
  BY DEF AddGroup
<1> DEFINE new == [project |-> p, name |-> n, parent |-> parent]
<1>5. /\ DOMAIN groups' = DOMAIN groups \cup {g} /\ groups'[g] = new
      /\ \A h \in DOMAIN groups : groups'[h] = groups[h]
  <2>1. \A h \in DOMAIN groups : h # g
    OBVIOUS
  <2> HIDE DEF new
  <2>2. groups' = Put(groups, g, new)
    BY <1>4 DEF new
  <2> QED
    BY <2>1, <2>2 DEF Put
<1>6. new \in Folder /\ new.project = p /\ new.name = n /\ new.parent = parent
  BY DEF Tables, Nested, Folder
<1> HIDE DEF new
<1>7. Unset # g /\ DOMAIN groups \subseteq Groups
  BY ReadSideAssumption DEF Tables, Nested
<1>8. Nested(groups')
  <2>1. DOMAIN groups' \subseteq Groups
    BY <1>5, <1>7
  <2>2. \A h \in DOMAIN groups' :
          groups'[h] \in Folder /\ groups'[h].parent \in DOMAIN groups' \cup {Unset}
    BY <1>5, <1>6 DEF Tables, Nested
  <2>3. \A h, i \in DOMAIN groups' :
          groups'[h].project = groups'[i].project /\ groups'[h].name = groups'[i].name => h = i
    BY <1>4, <1>5, <1>6 DEF Tables, Nested
  <2>4. ASSUME NEW T \in SUBSET DOMAIN groups', T # {}
        PROVE  \E h \in T : groups'[h].parent \notin T
    <3>1. CASE T \ {g} = {}
      <4>1. T = {g} /\ parent # g
        BY <1>4, <1>7, <2>4, <3>1
      <4> QED
        BY <1>5, <1>6, <4>1
    <3>2. CASE T \ {g} # {}
      <4>1. T \ {g} \in SUBSET DOMAIN groups
        BY <1>5, <2>4
      <4>2. PICK h \in T \ {g} : groups[h].parent \notin T \ {g}
        BY <3>2, <4>1 DEF Tables, Nested
      <4>3. h \in DOMAIN groups /\ groups[h].parent # g
        BY <1>7, <4>1, <4>2 DEF Tables, Nested
      <4> QED
        BY <1>5, <4>2, <4>3
    <3> QED
      BY <3>1, <3>2
  <2> QED
    BY <2>1, <2>2, <2>3, <2>4 DEF Nested
<1>9. Placed(contracts', groups')
  BY <1>3, <1>5 DEF Tables, Placed
<1>10. Tables'
  BY <1>3, <1>8, <1>9 DEF Tables
<1> QED
  BY <1>1, <1>2, <1>3, <1>5, <1>10 DEF Tables, Writes

(* One contract changes: to a row of its project, on a free path and       *)
(* method and in a group of the project, or to nothing.                    *)
LEMMA ContractChanges ==
  ASSUME Tables, NEW c \in Contracts, NEW x,
         contracts' = [contracts EXCEPT ![c] = x],
         projects' = projects, groups' = groups,
         DOMAIN vectors' \subseteq Contracts, \A d \in DOMAIN vectors' : vectors'[d] \in Key,
         \/ x = Gone
         \/ /\ x \in Row
            /\ \A d \in Contracts \ {c} :
                 contracts[d] \in Row =>
                   ~(contracts[d].project = x.project /\ contracts[d].key = x.key)
            /\ x.group # Unset => x.group \in DOMAIN groups /\ groups[x.group].project = x.project
  PROVE  Tables'
<1>1. /\ contracts'[c] = x /\ \A d \in Contracts \ {c} : contracts'[d] = contracts[d]
      /\ contracts' \in [Contracts -> Row \cup {Unset, Gone}]
  BY DEF Tables, Placed
<1>2. Gone \notin Row
  BY ReadSideAssumption
<1>3. Placed(contracts', groups)
  <2>1. ASSUME NEW d \in Contracts, NEW e \in Contracts,
               {contracts'[d], contracts'[e]} \subseteq Row,
               contracts'[d].project = contracts'[e].project, contracts'[d].key = contracts'[e].key
        PROVE  d = e
    BY <1>1, <1>2, <2>1 DEF Tables, Placed
  <2>2. ASSUME NEW d \in Contracts, contracts'[d] \in Row, contracts'[d].group # Unset
        PROVE  /\ contracts'[d].group \in DOMAIN groups
               /\ groups[contracts'[d].group].project = contracts'[d].project
    BY <1>1, <1>2, <2>2 DEF Tables, Placed
  <2> QED
    BY <1>1, <2>1, <2>2 DEF Placed
<1> QED
  BY <1>3 DEF Tables

LEMMA InsertContractStep ==
  ASSUME Tables, Ready, InsertContract
  PROVE  Tables' /\ Writes
<1>1. UNCHANGED reader /\ pc \in Calls /\ writes' \in Nat
  BY WriteFacts DEF InsertContract
<1>2. was' = [c \in Contracts |-> was[c] \cup {contracts'[c]}] /\ UNCHANGED lacked
  BY <1>1 DEF InsertContract, Observe
<1>3. projects' = projects /\ groups' = groups /\ vectors' = vectors
  BY DEF InsertContract
<1>4. PICK c \in Contracts, p \in projects, k \in Key :
        /\ contracts[c] = Unset /\ KeyIsFree(p, k)
        /\ \E g \in GroupsOf(p) \cup {Unset} :
             contracts' = [contracts EXCEPT ![c] = [project |-> p, key |-> k, group |-> g]]
  BY DEF InsertContract
<1>5. PICK g \in GroupsOf(p) \cup {Unset} :
        contracts' = [contracts EXCEPT ![c] = [project |-> p, key |-> k, group |-> g]]
  BY <1>4
<1> DEFINE x == [project |-> p, key |-> k, group |-> g]
<1>6. x \in Row /\ x.project = p /\ x.key = k /\ x.group = g
  BY DEF Tables, Nested, Row, GroupsOf
<1>7. g # Unset => g \in DOMAIN groups /\ groups[g].project = p
  BY DEF GroupsOf
<1>8. \A d \in Contracts : contracts[d] \in Row => ~(contracts[d].project = p /\ contracts[d].key = k)
  BY <1>4, ReadSideAssumption DEF KeyIsFree, Live
<1>9. contracts' = [contracts EXCEPT ![c] = x]
  BY <1>5
<1> HIDE DEF x
<1>10. Tables'
  <2>1. DOMAIN vectors' \subseteq Contracts /\ \A d \in DOMAIN vectors' : vectors'[d] \in Key
    BY <1>3 DEF Tables
  <2> QED
    BY <1>3, <1>6, <1>7, <1>8, <1>9, <2>1, ContractChanges
<1>11. contracts'[c] = x /\ \A d \in Contracts \ {c} : contracts'[d] = contracts[d]
  BY <1>9 DEF Tables, Placed
<1> QED
  BY <1>1, <1>2, <1>3, <1>4, <1>6, <1>10, <1>11 DEF Tables, Writes

LEMMA MoveContractStep ==
  ASSUME Tables, Ready, MoveContract
  PROVE  Tables' /\ Writes
<1>1. UNCHANGED reader /\ pc \in Calls /\ writes' \in Nat
  BY WriteFacts DEF MoveContract
<1>2. was' = [c \in Contracts |-> was[c] \cup {contracts'[c]}] /\ UNCHANGED lacked
  BY <1>1 DEF MoveContract, Observe
<1>3. projects' = projects /\ groups' = groups /\ vectors' = vectors
  BY DEF MoveContract
<1>4. PICK c \in Contracts, k \in Key :
        /\ Live(c) /\ (k # contracts[c].key => KeyIsFree(contracts[c].project, k))
        /\ \E g \in GroupsOf(contracts[c].project) \cup {contracts[c].group} :
             contracts' = [contracts EXCEPT ![c].key = k, ![c].group = g]
  BY DEF MoveContract
<1>5. PICK g \in GroupsOf(contracts[c].project) \cup {contracts[c].group} :
        contracts' = [contracts EXCEPT ![c].key = k, ![c].group = g]
  BY <1>4
<1>6. contracts \in [Contracts -> Row \cup {Unset, Gone}] /\ contracts[c] \in Row
  BY <1>4 DEF Live, Tables, Placed
<1> DEFINE x == [contracts[c] EXCEPT !.key = k, !.group = g]
<1>7. g \in Groups \cup {Unset}
  BY <1>6 DEF Tables, Nested, Row, GroupsOf
<1>8. x \in Row /\ x.project = contracts[c].project /\ x.key = k /\ x.group = g
  BY <1>6, <1>7 DEF Row
<1>9. contracts' = [contracts EXCEPT ![c] = x]
  BY <1>5, <1>6
<1>10. g # Unset => g \in DOMAIN groups /\ groups[g].project = x.project
  BY <1>6, <1>8 DEF GroupsOf, Tables, Placed
<1>11. \A d \in Contracts \ {c} :
         contracts[d] \in Row => ~(contracts[d].project = x.project /\ contracts[d].key = x.key)
  <2>1. CASE k = contracts[c].key
    BY <1>6, <1>8, <2>1 DEF Tables, Placed
  <2>2. CASE k # contracts[c].key
    BY <1>4, <1>8, <2>2, ReadSideAssumption DEF KeyIsFree, Live
  <2> QED
    BY <2>1, <2>2
<1> HIDE DEF x
<1>12. Tables'
  <2>1. DOMAIN vectors' \subseteq Contracts /\ \A d \in DOMAIN vectors' : vectors'[d] \in Key
    BY <1>3 DEF Tables
  <2> QED
    BY <1>3, <1>8, <1>9, <1>10, <1>11, <2>1, ContractChanges
<1>13. contracts'[c] = x /\ \A d \in Contracts \ {c} : contracts'[d] = contracts[d]
  BY <1>6, <1>9
<1> QED
  BY <1>1, <1>2, <1>3, <1>6, <1>8, <1>12, <1>13 DEF Tables, Writes

LEMMA DeleteContractStep ==
  ASSUME Tables, Ready, DeleteContract
  PROVE  Tables' /\ Writes
<1>1. UNCHANGED reader /\ pc \in Calls /\ writes' \in Nat
  BY WriteFacts DEF DeleteContract
<1>2. was' = [c \in Contracts |-> was[c] \cup {contracts'[c]}] /\ UNCHANGED lacked
  BY <1>1 DEF DeleteContract, Observe
<1>3. projects' = projects /\ groups' = groups /\ vectors' = vectors
  BY DEF DeleteContract
<1>4. PICK c \in Contracts : Live(c) /\ contracts' = [contracts EXCEPT ![c] = Gone]
  BY DEF DeleteContract
<1>5. contracts \in [Contracts -> Row \cup {Unset, Gone}] /\ contracts[c] \in Row
  BY <1>4 DEF Live, Tables, Placed
<1>6. Tables'
  <2>1. DOMAIN vectors' \subseteq Contracts /\ \A d \in DOMAIN vectors' : vectors'[d] \in Key
    BY <1>3 DEF Tables
  <2> QED
    BY <1>3, <1>4, <2>1, ContractChanges
<1>7. contracts'[c] = Gone /\ \A d \in Contracts \ {c} : contracts'[d] = contracts[d]
  BY <1>4, <1>5
<1> QED
  BY <1>1, <1>2, <1>3, <1>5, <1>6, <1>7 DEF Tables, Writes

LEMMA IndexContractStep ==
  ASSUME Tables, Ready, IndexContract
  PROVE  Tables' /\ Writes
<1>1. UNCHANGED reader /\ pc \in Calls /\ writes' \in Nat
  BY WriteFacts DEF IndexContract
<1>2. was' = [c \in Contracts |-> was[c] \cup {contracts'[c]}] /\ UNCHANGED lacked
  BY <1>1 DEF IndexContract, Observe
<1>3. projects' = projects /\ groups' = groups /\ contracts' = contracts
  BY DEF IndexContract
<1>4. DOMAIN vectors' \subseteq Contracts /\ \A d \in DOMAIN vectors' : vectors'[d] \in Key
  <2>1. PICK c \in Contracts :
          \/ Live(c) /\ vectors' = Put(vectors, c, contracts[c].key)
          \/ vectors' = [d \in DOMAIN vectors \ {c} |-> vectors[d]]
    BY DEF IndexContract
  <2>2. CASE Live(c) /\ vectors' = Put(vectors, c, contracts[c].key)
    <3>1. contracts[c].key \in Key
      BY <2>2 DEF Live, Tables, Placed, Row
    <3> QED
      BY <2>2, <3>1 DEF Tables, Put
  <2>3. CASE vectors' = [d \in DOMAIN vectors \ {c} |-> vectors[d]]
    BY <2>3 DEF Tables
  <2> QED
    BY <2>1, <2>2, <2>3
<1> QED
  BY <1>1, <1>2, <1>3, <1>4 DEF Tables, Writes

LEMMA WriteCallStep ==
  ASSUME Tables, Ready, WriteCall
  PROVE  Tables' /\ Writes
BY AddProjectStep, AddGroupStep, InsertContractStep, MoveContractStep, DeleteContractStep,
   IndexContractStep DEF WriteCall

LEMMA WritesHistory ==
  ASSUME Tables, Tables', History, Writes
  PROVE  History'
<1>1. Gone \notin Row /\ Unset \notin Row /\ Unset # Gone
  BY ReadSideAssumption
<1>2. /\ contracts' \in [Contracts -> Row \cup {Unset, Gone}]
      /\ was' = [c \in Contracts |-> was[c] \cup {contracts'[c]}]
      /\ pc' = pc /\ req' = req /\ lacked' = lacked
  BY DEF Tables, Placed, Writes, reader
<1>3. was' \in [Contracts -> SUBSET (Row \cup {Unset, Gone})]
  BY <1>2 DEF History
<1>4. \A c \in Contracts : contracts'[c] \in was'[c]
  BY <1>2
<1>5. ASSUME pc # "idle", NEW c \in Contracts, NEW row \in was'[c] \cap Row
      PROVE  contracts'[c] = Gone \/ (contracts'[c] \in Row /\ contracts'[c].project = row.project)
  <2>1. CASE row \in was[c]
    <3>1. contracts[c] = Gone \/ (contracts[c] \in Row /\ contracts[c].project = row.project)
      BY <1>5, <2>1 DEF History
    <3> QED
      BY <1>1, <3>1 DEF Writes
  <2>2. CASE row \notin was[c]
    BY <1>2, <1>5, <2>2
  <2> QED
    BY <2>1, <2>2
<1>6. ASSUME pc # "idle", ~lacked
      PROVE  /\ req.slug \in projects'
             /\ req.group # Unset => GroupsNamed(req.slug, req.group)' # {}
  <2>1. req.slug \in projects /\ (req.group # Unset => GroupsNamed(req.slug, req.group) # {})
    BY <1>6 DEF History
  <2>2. GroupsNamed(req.slug, req.group) \subseteq GroupsNamed(req.slug, req.group)'
    BY <1>2 DEF GroupsNamed, Writes
  <2> QED
    BY <2>1, <2>2 DEF Writes
<1> QED
  BY <1>2, <1>3, <1>4, <1>5, <1>6 DEF History

----------------------------------------------------------------------------
(* Answers                                                                 *)

(* Only an answer of not found and, by the pages, any error is told as it. *)
LEMMA ToldNotFound ==
  ASSUME NEW r, NEW outcome, Told(r, outcome)[2] = "not_found"
  PROVE  outcome = "not_found" \/ (r.door # "mcp" /\ r.op # "search" /\ outcome # "ok")
<1>1. CASE r.door = "mcp"
  BY <1>1 DEF Told, RpcAnswer
<1>2. CASE r.door # "mcp"
  BY <1>2 DEF Told, HttpAnswer
<1> QED
  BY <1>1, <1>2

(* What only a request that is answered, or in a loop, has to show.        *)
LEMMA Quiet ==
  pc \in Calls \ {"semantic", "hydrate", "bodies", "groups"} =>
    Searching /\ Exporting /\ Paging /\ NotFoundIsTrue
<1> SUFFICES ASSUME pc \in Calls \ {"semantic", "hydrate", "bodies", "groups"}
             PROVE  Searching /\ Exporting /\ Paging /\ NotFoundIsTrue
  OBVIOUS
<1>1. pc \notin {"semantic", "hydrate", "bodies", "groups", "done"}
  BY DEF Calls
<1> QED
  BY <1>1 DEF Searching, Exporting, Paging, NotFoundIsTrue, Answered

LEMMA Dismissed ==
  pc = "done" /\ (seen.outcome # "ok" \/ req.op \notin {"search", "export", "project_page"}) =>
    Searching /\ Exporting /\ Paging
BY DEF Searching, Exporting, Paging, Answered

LEMMA DoneControl == pc = "done" /\ req \in Requests => Control
BY DEF Control, Calls

(* An answer other than not found, or to a tool.                           *)
LEMMA NothingMissed ==
  /\ req \in Requests
  /\ \/ seen.outcome = "ok"
     \/ seen.outcome # "not_found" /\ (req.op = "search" \/ req.door = "mcp" \/ seen.failed)
  => NotFoundIsTrue
<1> SUFFICES ASSUME req \in Requests,
                    \/ seen.outcome = "ok"
                    \/ /\ seen.outcome # "not_found"
                       /\ req.op = "search" \/ req.door = "mcp" \/ seen.failed,
                    pc = "done", Told(req, seen.outcome)[2] = "not_found"
             PROVE  req.door = "web" /\ req.op # "search" /\ seen.failed
  BY DEF NotFoundIsTrue
<1>1. req.door # "mcp" /\ req.op # "search" /\ seen.failed
  BY ToldNotFound
<1> QED
  BY <1>1, ReadSideAssumption DEF Request

(* The same of the next state.                                             *)
LEMMA QuietNext ==
  pc' \in Calls \ {"semantic", "hydrate", "bodies", "groups"} =>
    Searching' /\ Exporting' /\ Paging' /\ NotFoundIsTrue'
<1>1. (pc \in Calls \ {"semantic", "hydrate", "bodies", "groups"} =>
         Searching /\ Exporting /\ Paging /\ NotFoundIsTrue)'
  BY Quiet, PTL
<1> QED
  BY <1>1

LEMMA DismissedNext ==
  pc' = "done" /\ (seen'.outcome # "ok" \/ req'.op \notin {"search", "export", "project_page"}) =>
    Searching' /\ Exporting' /\ Paging'
<1>1. (pc = "done" /\ (seen.outcome # "ok" \/ req.op \notin {"search", "export", "project_page"}) =>
         Searching /\ Exporting /\ Paging)'
  BY Dismissed, PTL
<1> QED
  BY <1>1

LEMMA DoneControlNext == pc' = "done" /\ req' \in Requests => Control'
<1>1. (pc = "done" /\ req \in Requests => Control)'
  BY DoneControl, PTL
<1> QED
  BY <1>1

LEMMA NothingMissedNext ==
  /\ req' \in Requests
  /\ \/ seen'.outcome = "ok"
     \/ seen'.outcome # "not_found" /\ (req'.op = "search" \/ req'.door = "mcp" \/ seen'.failed)
  => NotFoundIsTrue'
<1>1. (/\ req \in Requests
       /\ \/ seen.outcome = "ok"
          \/ seen.outcome # "not_found" /\ (req.op = "search" \/ req.door = "mcp" \/ seen.failed)
       => NotFoundIsTrue)'
  BY NothingMissed, PTL
<1> QED
  BY <1>1

----------------------------------------------------------------------------
(* A request arrives                                                       *)

LEMMA FramesFacts ==
  ASSUME NEW op \in DOMAIN Frames
  PROVE  /\ Frames[op] \in Outcomes /\ Frames[op] # "not_found"
         /\ op \notin {"search", "export", "project_page"} /\ op \notin WebOps
BY DEF Frames, Outcomes, WebOps

LEMMA OutcomeKeepsLocals ==
  ASSUME NEW s \in Locals, NEW o \in Outcomes
  PROVE  [s EXCEPT !.outcome = o] \in Locals
<1> DEFINE t == [s EXCEPT !.outcome = o]
<1>1. DOMAIN t = DOMAIN s /\ t.outcome = o
  BY DEF Locals
<1> QED
  BY DEF Locals

LEMMA RequestFacts ==
  ASSUME NEW r \in Requests
  PROVE  /\ r.door \in {"web", "mcp"} /\ r.bad \in {"none", "slug", "id", "mode", "query", "status"}
         /\ r.byStatus => r.op = "list_contracts"
         /\ r.op \in IF r.door = "web" THEN WebOps ELSE Tools \cup DOMAIN Frames
         /\ r.group \in GroupNames \cup {Unset} /\ r # Unset
         /\ r.op \in {"contract_page", "get_contract"} /\ r.bad = "none" => r.id \in Contracts
BY ReadSideAssumption DEF Request

LEMMA ArriveStep ==
  ASSUME IInv, Arrive
  PROVE  IInv'
<1>1. PICK r \in Requests :
        /\ req' = r
        /\ seen' = [NothingSeen EXCEPT !.outcome =
             IF r.op \in DOMAIN Frames THEN Frames[r.op]
             ELSE IF RefusedAtOnce(r) THEN Refusal(r) ELSE "nothing"]
        /\ pc' = IF r.op \in DOMAIN Frames \/ RefusedAtOnce(r) THEN "done" ELSE FirstCall(r)
        /\ lacked' = \/ r.slug \notin projects
                     \/ /\ r.group # Unset
                        /\ \A g \in DOMAIN groups :
                             groups[g].project # r.slug \/ groups[g].name # r.group
  BY DEF Arrive, Goto
<1>2. /\ projects' = projects /\ groups' = groups /\ contracts' = contracts /\ vectors' = vectors
      /\ writes' = writes /\ asks' = asks - 1 /\ asks > 0
      /\ was' = [c \in Contracts |-> {contracts[c]}]
  BY DEF Arrive, tables
<1>3. Tables'
  BY <1>2 DEF IInv, Tables
<1> DEFINE o == IF r.op \in DOMAIN Frames THEN Frames[r.op]
                ELSE IF RefusedAtOnce(r) THEN Refusal(r) ELSE "nothing"
<1>4. o \in Outcomes /\ Refusal(r) \in {"not_found", "validation_failed"}
  BY FramesFacts DEF Outcomes, Refusal
<1>5. seen' = [NothingSeen EXCEPT !.outcome = o] /\ req' = r
  BY <1>1
<1>6. seen' \in Locals /\ seen'.outcome = o /\ seen'.exact = << >> /\ seen'.doc = << >>
      /\ seen'.listed = << >> /\ seen'.groups = {} /\ seen'.group = Unset
  <2> HIDE DEF o
  <2>1. seen' \in Locals
    BY <1>4, <1>5, EmptyLocals, OutcomeKeepsLocals
  <2> QED
    BY <1>5, <2>1 DEF NothingSeen
<1>7. FirstCall(r) \in {"projects", "project", "context"}
  BY DEF FirstCall
<1>8. pc' \in {"projects", "project", "context", "done"}
  BY <1>1, <1>7
<1>9. Ready'
  BY <1>2, <1>5, <1>6, <1>8 DEF IInv, Ready, Calls
<1>10. History'
  <2>1. was' \in [Contracts -> SUBSET (Row \cup {Unset, Gone})]
    BY <1>2 DEF IInv, Tables, Placed
  <2>2. \A c \in Contracts : was'[c] = {contracts'[c]}
    BY <1>2
  <2>3. ~lacked' => /\ req'.slug \in projects'
                    /\ req'.group # Unset => GroupsNamed(req.slug, req.group)' # {}
    BY <1>1, <1>2 DEF GroupsNamed
  <2> QED
    BY <2>1, <2>2, <2>3 DEF History
<1> HIDE DEF o
<1>11. CASE pc' = "done"
  <2>1. Control'
    BY <1>5, <1>11, DoneControlNext
  <2>2. seen'.outcome # "ok" \/ req'.op \notin {"search", "export", "project_page"}
    BY <1>4, <1>5, <1>6, <1>7, <1>1, <1>11, FramesFacts DEF o
  <2>3. Searching' /\ Exporting' /\ Paging'
    BY <1>11, <2>2, DismissedNext
  <2>4. NotFoundIsTrue'
    <3>1. CASE r.op \in DOMAIN Frames
      <4>1. r.door = "mcp" /\ seen'.outcome # "not_found"
        BY <1>6, <3>1, FramesFacts, RequestFacts DEF o
      <4> QED
        BY <1>5, <4>1, NothingMissedNext
    <3>2. CASE r.op \notin DOMAIN Frames
      <4>1. r.bad # "none"
        BY <1>1, <1>7, <1>11, <3>2 DEF RefusedAtOnce
      <4> QED
        BY <1>5, <4>1 DEF NotFoundIsTrue
    <3> QED
      BY <3>1, <3>2
  <2> QED
    BY <1>3, <1>9, <1>10, <2>1, <2>3, <2>4 DEF IInv
<1>12. CASE pc' # "done"
  <2>1. r.op \notin DOMAIN Frames /\ ~RefusedAtOnce(r) /\ pc' = FirstCall(r)
    BY <1>1, <1>12
  <2>2. seen'.outcome = "nothing"
    BY <1>6, <2>1 DEF o
  <2>3. Control'
    <3>1. r.door \in {"web", "mcp"}
      BY RequestFacts
    <3>2. pc' \in {"context", "project"} =>
            r.op \notin DOMAIN Frames \cup {"dashboard", "list_projects"}
      BY <2>1 DEF FirstCall
    <3>3. pc' = "context" => r.door = "mcp"
      BY <2>1, <3>1 DEF FirstCall
    <3>4. pc' = "project" => r.bad = "none"
      BY <2>1 DEF FirstCall, RefusedAtOnce
    <3>5. pc' = "projects" => r.op \in {"dashboard", "list_projects"}
      BY <2>1 DEF FirstCall
    <3> QED
      BY <1>5, <1>6, <1>8, <1>12, <2>1, <2>2, <3>2, <3>3, <3>4, <3>5 DEF Control
  <2>4. Searching' /\ Exporting' /\ Paging' /\ NotFoundIsTrue'
    <3>1. pc' \in Calls \ {"semantic", "hydrate", "bodies", "groups"}
      BY <1>8, <1>12 DEF Calls
    <3> QED
      BY <3>1, QuietNext
  <2> QED
    BY <1>3, <1>9, <1>10, <2>3, <2>4 DEF IInv
<1> QED
  BY <1>11, <1>12

----------------------------------------------------------------------------
(* The reader's calls                                                      *)

LEMMA ReadKeepsBase ==
  ASSUME IInv, pc \in Calls, Reads, pc' \in Calls \cup {"done"}
  PROVE  Tables' /\ History' /\ req' = req /\ req \in Requests /\ asks' \in Nat /\ writes' \in Nat
<1>1. /\ projects' = projects /\ groups' = groups /\ contracts' = contracts
      /\ vectors' = vectors /\ req' = req /\ asks' = asks /\ writes' = writes
      /\ was' = was /\ lacked' = lacked
  BY ReadsKeep DEF IInv
<1>2. pc # "idle" /\ pc' # "idle"
  BY DEF Calls
<1>3. Tables'
  BY <1>1 DEF IInv, Tables
<1>4. GroupsNamed(req.slug, req.group)' = GroupsNamed(req.slug, req.group)
  BY <1>1 DEF GroupsNamed
<1>5. History'
  BY <1>1, <1>2, <1>4 DEF IInv, History
<1>6. req \in Requests
  BY <1>2 DEF IInv, Control
<1> QED
  BY <1>1, <1>3, <1>5, <1>6 DEF IInv, Ready

(* A call after which the request is answered, with nothing to show.       *)
LEMMA Ends ==
  ASSUME IInv, pc \in Calls, Reads, pc' = "done",
         \E o \in Outcomes : /\ seen' = [seen EXCEPT !.outcome = o]
                             /\ o # "ok" \/ req.op \notin {"search", "export", "project_page"},
         NotFoundIsTrue'
  PROVE  IInv'
<1>1. Tables' /\ History' /\ req' = req /\ req \in Requests /\ asks' \in Nat /\ writes' \in Nat
  BY ReadKeepsBase
<1>2. PICK o \in Outcomes : /\ seen' = [seen EXCEPT !.outcome = o]
                            /\ o # "ok" \/ req.op \notin {"search", "export", "project_page"}
  OBVIOUS
<1>3. seen \in Locals
  BY DEF IInv, Ready
<1>4. seen' \in Locals
  BY <1>2, <1>3, OutcomeKeepsLocals
<1>5. seen'.outcome = o
  BY <1>2, <1>3 DEF Locals
<1>6. Ready'
  BY <1>1, <1>4 DEF Ready
<1>7. Control'
  BY <1>1, DoneControlNext
<1>8. Searching' /\ Exporting' /\ Paging'
  BY <1>1, <1>2, <1>5, DismissedNext
<1> QED
  BY <1>1, <1>6, <1>7, <1>8 DEF IInv

(* A call after which the reader has others to make.                       *)
LEMMA GoesOn ==
  ASSUME IInv, pc \in Calls, Reads, pc' \in Calls \ {"semantic", "hydrate", "bodies", "groups"},
         seen' \in Locals, Control'
  PROVE  IInv'
<1>1. Tables' /\ History' /\ req' = req /\ req \in Requests /\ asks' \in Nat /\ writes' \in Nat
  BY ReadKeepsBase
<1>2. Ready'
  BY <1>1 DEF Ready
<1>3. Searching' /\ Exporting' /\ Paging' /\ NotFoundIsTrue'
  BY QuietNext
<1> QED
  BY <1>1, <1>2, <1>3 DEF IInv

LEMMA RefusalFacts ==
  ASSUME NEW r
  PROVE  Refusal(r) \in {"not_found", "validation_failed"}
BY DEF Refusal

LEMMA SomeCalls ==
  /\ {"context", "project", "again", "group", "list", "contract", "audit", "exact", "projects"}
       \subseteq Calls \ {"semantic", "hydrate", "bodies", "groups", "done", "idle"}
  /\ {"semantic", "hydrate", "bodies", "groups"} \subseteq Calls \ {"done", "idle"}
BY DEF Calls

LEMMA FindProjectStep ==
  ASSUME IInv, FindProject
  PROVE  IInv'
<1>0. pc \in Calls /\ pc \in {"context", "project"} /\ pc # "idle" /\ Reads
  BY SomeCalls DEF FindProject
<1>1. /\ req \in Requests /\ seen \in Locals /\ ~RefusedAtOnce(req)
      /\ seen.outcome = "nothing" /\ seen.groups = {}
      /\ req.op # "list_contracts" => seen.group = Unset
      /\ seen.exact = << >> /\ seen.doc = << >> /\ seen.listed = << >>
      /\ req.op \notin DOMAIN Frames \cup {"dashboard", "list_projects"}
      /\ pc = "context" => req.door = "mcp"
      /\ pc = "project" => req.bad = "none"
  BY <1>0 DEF IInv, Ready, Control
<1>2. req' = req /\ was' = was /\ lacked' = lacked /\ projects' = projects
  BY <1>0, ReadsKeep DEF IInv
<1>3. CASE req.slug \notin projects /\ Finish("not_found")
  <2>1. lacked
    BY <1>0, <1>3 DEF IInv, History
  <2>2. NotFoundIsTrue'
    BY <1>2, <2>1 DEF NotFoundIsTrue
  <2> QED
    BY <1>0, <1>3, <2>2, Ends DEF Finish, Outcomes
<1>4. CASE req.bad # "none" /\ Finish(Refusal(req))
  <2>1. NotFoundIsTrue'
    BY <1>2, <1>4 DEF NotFoundIsTrue
  <2> QED
    BY <1>0, <1>4, <2>1, Ends, RefusalFacts DEF Finish, Outcomes
<1>5. CASE /\ pc = "context" /\ req.bad = "none"
           /\ Goto(IF req.op = "list_contracts" /\ req.group # Unset THEN "group" ELSE "project")
           /\ UNCHANGED seen
  <2>1. pc' \in {"group", "project"} /\ (pc' = "group" => req.op = "list_contracts" /\ req.group # Unset)
        /\ seen' = seen
    BY <1>5 DEF Goto
  <2>2. Control'
    BY <1>1, <1>2, <1>5, <2>1 DEF Control
  <2> QED
    BY <1>0, <1>1, <2>1, <2>2, GoesOn, SomeCalls
<1>6. CASE pc = "project" /\ Goto(NextCall(req)) /\ UNCHANGED seen
  <2>1. pc' = NextCall(req) /\ seen' = seen /\ req.bad = "none"
    BY <1>1, <1>6 DEF Goto
  <2>2. /\ pc' \in {"again", "contract", "groups", "group", "semantic", "exact", "list"}
        /\ pc' = "again" => req.op = "project_page"
        /\ pc' = "contract" => req.op \in {"contract_page", "get_contract"}
        /\ pc' = "groups" => req.op = "list_groups"
        /\ pc' = "group" => req.op = "search" /\ req.group # Unset
        /\ pc' = "semantic" => req.op = "search" /\ req.mode = "semantic"
        /\ pc' = "exact" => req.op = "search" /\ req.mode # "semantic"
    BY <2>1 DEF NextCall
  <2>3. pc' = "list" => req.op \in {"project_page", "export", "list_contracts"}
    <3>1. req.op \in WebOps \cup Tools \cup DOMAIN Frames
      BY <1>1, RequestFacts
    <3>2. pc' = "list" =>
            req.op \notin {"project_page", "contract_page", "get_contract", "list_groups", "search"}
      BY <2>1 DEF NextCall
    <3> QED
      BY <1>1, <3>1, <3>2 DEF WebOps, Tools
  <2>4. Control'
    BY <1>1, <1>2, <2>1, <2>2, <2>3 DEF Control
  <2>5. CASE pc' \in {"again", "contract", "group", "exact", "list"}
    BY <1>0, <1>1, <2>1, <2>4, <2>5, GoesOn, SomeCalls
  <2>6. CASE pc' \in {"semantic", "groups"}
    <3>1. pc' \in Calls /\ pc' \notin {"done", "idle", "hydrate", "bodies"}
      BY <2>6, SomeCalls
    <3>2. Tables' /\ History' /\ asks' \in Nat /\ writes' \in Nat
      BY <1>0, <3>1, ReadKeepsBase
    <3>3. Ready'
      BY <1>1, <1>2, <2>1, <3>1, <3>2 DEF Ready
    <3>4. Exporting' /\ NotFoundIsTrue'
      BY <3>1 DEF Exporting, NotFoundIsTrue, Answered
    <3>5. Paging'
      BY <1>1, <1>2, <2>2, <3>1 DEF Paging, Answered
    <3>6. Searching'
      <4>1. pc' = "semantic" => ExactFound'
        <5>1. ExactLimit \in Nat
          BY ReadSideAssumption
        <5>2. pc' = "semantic" => seen'.exact = << >> /\ req'.mode = "semantic"
          BY <1>1, <1>2, <2>1, <2>2
        <5> QED
          BY <5>1, <5>2 DEF ExactFound
      <4> QED
        BY <3>1, <4>1 DEF Searching, Answered
    <3> QED
      BY <2>4, <3>2, <3>3, <3>4, <3>5, <3>6 DEF IInv
  <2> QED
    BY <2>2, <2>5, <2>6
<1> QED
  BY <1>3, <1>4, <1>5, <1>6 DEF FindProject

LEMMA FindProjectAgainStep ==
  ASSUME IInv, FindProjectAgain
  PROVE  IInv'
<1>1. pc \in Calls /\ pc = "again" /\ Reads /\ pc' = "list" /\ seen' = seen
  BY SomeCalls DEF FindProjectAgain, Goto
<1>2. req' = req
  BY <1>1, ReadsKeep DEF IInv
<1>3. Control'
  <2>1. Control
    BY DEF IInv
  <2>2. req.op = "project_page" /\ req.bad = "none" /\ req \in Requests
    BY <1>1, <2>1, SomeCalls DEF Control
  <2> QED
    BY <1>1, <1>2, <2>1, <2>2 DEF Control
<1>4. seen' \in Locals
  BY <1>1 DEF IInv, Ready
<1> QED
  BY <1>1, <1>3, <1>4, GoesOn, SomeCalls

LEMMA GroupKeepsLocals ==
  ASSUME NEW s \in Locals, NEW g \in Groups
  PROVE  LET t == [s EXCEPT !.group = g]
         IN /\ t \in Locals /\ t.group = g /\ t.outcome = s.outcome /\ t.groups = s.groups
            /\ t.exact = s.exact /\ t.doc = s.doc /\ t.listed = s.listed
BY DEF Locals

LEMMA FindGroupStep ==
  ASSUME IInv, FindGroup
  PROVE  IInv'
<1>0. pc \in Calls /\ pc = "group" /\ pc # "idle" /\ Reads
  BY SomeCalls DEF FindGroup
<1>1. /\ req \in Requests /\ seen \in Locals /\ ~RefusedAtOnce(req)
      /\ seen.outcome = "nothing" /\ seen.groups = {}
      /\ seen.exact = << >> /\ seen.doc = << >> /\ seen.listed = << >>
      /\ req.op \in {"search", "list_contracts"} /\ req.group # Unset /\ req.bad = "none"
  BY <1>0 DEF IInv, Ready, Control
<1>2. req' = req /\ was' = was /\ lacked' = lacked
  BY <1>0, ReadsKeep DEF IInv
<1>3. CASE GroupsNamed(req.slug, req.group) = {} /\ Finish("not_found")
  <2>1. lacked
    BY <1>0, <1>1, <1>3 DEF IInv, History
  <2>2. NotFoundIsTrue'
    BY <1>2, <2>1 DEF NotFoundIsTrue
  <2> QED
    BY <1>0, <1>3, <2>2, Ends DEF Finish, Outcomes
<1>4. ASSUME NEW g \in GroupsNamed(req.slug, req.group),
             seen' = [seen EXCEPT !.group = g],
             Goto(IF req.op = "list_contracts" THEN "project"
                  ELSE IF req.mode = "semantic" THEN "semantic" ELSE "exact")
      PROVE  IInv'
  <2>1. g \in Groups
    BY DEF GroupsNamed, IInv, Tables, Nested
  <2>2. /\ seen' \in Locals /\ seen'.outcome = "nothing" /\ seen'.groups = {}
        /\ seen'.exact = << >> /\ seen'.doc = << >> /\ seen'.listed = << >>
    BY <1>1, <1>4, <2>1, GroupKeepsLocals
  <2>3. /\ pc' \in {"project", "semantic", "exact"}
        /\ pc' = "project" => req.op = "list_contracts"
        /\ pc' # "project" => req.op = "search"
        /\ pc' = "exact" => req.mode # "semantic"
        /\ pc' = "semantic" => req.mode = "semantic"
    BY <1>1, <1>4 DEF Goto
  <2>4. Control'
    <3>1. "list_contracts" \notin DOMAIN Frames \cup {"dashboard", "list_projects"}
      BY DEF Frames
    <3> QED
      BY <1>1, <1>2, <2>2, <2>3, <3>1 DEF Control
  <2>5. CASE pc' \in {"project", "exact"}
    BY <1>0, <2>2, <2>4, <2>5, GoesOn, SomeCalls
  <2>6. CASE pc' = "semantic"
    <3>1. pc' \in Calls
      BY <2>6, SomeCalls
    <3>2. Tables' /\ History' /\ asks' \in Nat /\ writes' \in Nat
      BY <1>0, <3>1, ReadKeepsBase
    <3>3. Ready'
      BY <1>1, <1>2, <2>2, <3>1, <3>2 DEF Ready
    <3>4. Exporting' /\ NotFoundIsTrue' /\ Paging'
      BY <2>6 DEF Exporting, NotFoundIsTrue, Paging, Answered
    <3>5. ExactFound'
      <4>1. ExactLimit \in Nat
        BY ReadSideAssumption
      <4> QED
        BY <1>2, <2>2, <2>3, <2>6, <4>1 DEF ExactFound
    <3>6. Searching'
      BY <2>6, <3>5 DEF Searching, Answered
    <3> QED
      BY <2>4, <3>2, <3>3, <3>4, <3>6 DEF IInv
  <2> QED
    BY <2>3, <2>5, <2>6
<1> QED
  BY <1>3, <1>4 DEF FindGroup

LEMMA ListProjectsStep ==
  ASSUME IInv, ListProjects
  PROVE  IInv'
<1>1. /\ pc \in Calls /\ pc = "projects" /\ Reads
      /\ pc' = "done" /\ seen' = [seen EXCEPT !.outcome = "ok"]
  BY SomeCalls DEF ListProjects, Finish
<1>2. req \in Requests /\ req.op \in {"dashboard", "list_projects"} /\ seen \in Locals
  BY <1>1, SomeCalls DEF IInv, Control, Ready
<1>3. req' = req /\ seen'.outcome = "ok"
  BY <1>1, <1>2, ReadsKeep DEF IInv, Locals
<1>4. NotFoundIsTrue'
  BY <1>2, <1>3, NothingMissedNext
<1> QED
  BY <1>1, <1>2, <1>4, Ends DEF Outcomes

LEMMA ReadAuditStep ==
  ASSUME IInv, ReadAudit
  PROVE  IInv'
<1>1. /\ pc \in Calls /\ pc = "audit" /\ Reads
      /\ pc' = "done" /\ seen' = [seen EXCEPT !.outcome = "ok"]
  BY SomeCalls DEF ReadAudit, Finish
<1>2. req \in Requests /\ req.op = "contract_page" /\ seen \in Locals
  BY <1>1, SomeCalls DEF IInv, Control, Ready
<1>3. req' = req /\ seen'.outcome = "ok"
  BY <1>1, <1>2, ReadsKeep DEF IInv, Locals
<1>4. NotFoundIsTrue'
  BY <1>2, <1>3, NothingMissedNext
<1> QED
  BY <1>1, <1>2, <1>4, Ends DEF Outcomes

LEMMA ReadContractStep ==
  ASSUME IInv, ReadContract
  PROVE  IInv'
<1>0. pc \in Calls /\ pc = "contract" /\ pc # "idle" /\ Reads
  BY SomeCalls DEF ReadContract
<1>1. /\ req \in Requests /\ req.op \in {"contract_page", "get_contract"} /\ req.bad = "none"
      /\ seen \in Locals /\ ~RefusedAtOnce(req) /\ seen.outcome = "nothing" /\ seen.groups = {}
  BY <1>0 DEF IInv, Control, Ready
<1>2. req.id \in Contracts
  BY <1>1, RequestFacts
<1>3. req' = req /\ was' = was
  BY <1>0, ReadsKeep DEF IInv
<1>4. CASE ~InScope(req.id, req.slug, Unset) /\ Finish("not_found")
  <2>1. contracts[req.id] \in was[req.id] /\ contracts[req.id] \in Row \cup {Unset, Gone}
    BY <1>0, <1>2 DEF IInv, History, Tables, Placed
  <2>2. contracts[req.id] \in {Unset, Gone} \/ contracts[req.id].project # req.slug
    BY <1>2, <1>4, <2>1, ScopeFacts DEF IInv
  <2>3. NotFoundIsTrue'
    BY <1>1, <1>3, <2>1, <2>2 DEF NotFoundIsTrue
  <2> QED
    BY <1>0, <1>4, <2>3, Ends DEF Finish, Outcomes
<1>5. CASE req.op = "get_contract" /\ Finish("ok")
  <2>1. seen'.outcome = "ok"
    BY <1>1, <1>5 DEF Finish, Locals
  <2>2. NotFoundIsTrue'
    BY <1>1, <1>3, <2>1, NothingMissedNext
  <2> QED
    BY <1>0, <1>1, <1>5, <2>2, Ends DEF Finish, Outcomes
<1>6. CASE req.op = "contract_page" /\ Goto("audit") /\ UNCHANGED seen
  <2>1. pc' = "audit" /\ seen' = seen
    BY <1>6 DEF Goto
  <2>2. Control'
    BY <1>1, <1>3, <1>6, <2>1 DEF Control
  <2> QED
    BY <1>0, <1>1, <2>1, <2>2, GoesOn, SomeCalls
<1> QED
  BY <1>4, <1>5, <1>6 DEF ReadContract

----------------------------------------------------------------------------
(* Lists and pages                                                         *)

(* A list in some order, cut at a limit.                                   *)
LEMMA CutListing ==
  ASSUME NEW S, IsFiniteSet(S), NEW s \in Listings(S), NEW limit \in Nat
  PROVE  \E l \in Nat :
           /\ DOMAIN Upto(s, limit) = 1..l
           /\ \A k \in 1..l : Upto(s, limit)[k] = s[k] /\ s[k] \in S
           /\ \A i, j \in 1..l : s[i] = s[j] => i = j
           /\ l <= limit
           /\ \A c \in S : (\E k \in 1..l : s[k] = c) \/ Cardinality(S) > limit
<1> DEFINE n == Cardinality(S)
<1>1. /\ n \in Nat /\ s \in [1..n -> S]
      /\ \A i, j \in 1..n : s[i] = s[j] => i = j
      /\ \A x \in S : \E i \in 1..n : s[i] = x
  BY ListingFacts
<1> HIDE DEF n
<1>2. n \in Nat /\ DOMAIN s = 1..n
  BY <1>1
<1>3. PICK l \in Nat : l <= n /\ l <= limit /\ l \in {n, limit}
                       /\ Upto(s, limit) = [i \in 1..l |-> s[i]]
  BY <1>2, UptoFacts
<1>4. DOMAIN Upto(s, limit) = 1..l
      /\ \A k \in 1..l : Upto(s, limit)[k] = s[k] /\ s[k] \in S
  BY <1>1, <1>3
<1>5. \A c \in S : (\E k \in 1..l : s[k] = c) \/ n > limit
  BY <1>1, <1>3
<1>6. \A i, j \in 1..l : s[i] = s[j] => i = j
  BY <1>1, <1>3
<1> QED
  BY <1>3, <1>4, <1>5, <1>6 DEF n

LEMMA EntryFacts ==
  ASSUME Tables, NEW c \in Contracts, contracts[c] \in Row
  PROVE  /\ EntryOf(c) \in Entry /\ EntryOf(c).id = c
         /\ EntryOf(c).group # Unset => GroupsNamed(contracts[c].project, EntryOf(c).group) # {}
<1>1. contracts[c].key \in Key /\ contracts[c].group \in Groups \cup {Unset}
  BY DEF Row
<1>2. CASE contracts[c].group = Unset
  <2>1. EntryOf(c) = [id |-> c, key |-> contracts[c].key, group |-> Unset]
    BY <1>2 DEF EntryOf
  <2> QED
    BY <1>1, <2>1 DEF Entry
<1>3. CASE contracts[c].group # Unset
  <2> DEFINE g == contracts[c].group
  <2>1. g \in DOMAIN groups /\ groups[g].project = contracts[c].project /\ groups[g] \in Folder
    BY <1>3 DEF Tables, Placed, Nested
  <2>2. EntryOf(c) = [id |-> c, key |-> contracts[c].key, group |-> groups[g].name]
    BY <1>3 DEF EntryOf
  <2>3. groups[g].name \in GroupNames
    BY <2>1 DEF Folder
  <2> HIDE DEF g
  <2>4. EntryOf(c) \in Entry /\ EntryOf(c).id = c /\ EntryOf(c).group = groups[g].name
    BY <1>1, <2>2, <2>3 DEF Entry
  <2>5. g \in GroupsNamed(contracts[c].project, groups[g].name)
    BY <2>1 DEF GroupsNamed
  <2> QED
    BY <2>4, <2>5
<1> QED
  BY <1>2, <1>3

LEMMA ListContractsStep ==
  ASSUME IInv, ListContracts
  PROVE  IInv'
<1>0. pc \in Calls /\ pc = "list" /\ pc # "idle" /\ Reads
  BY SomeCalls DEF ListContracts
<1>1. /\ req \in Requests /\ seen \in Locals /\ ~RefusedAtOnce(req) /\ req.bad = "none"
      /\ req.op \in {"project_page", "export", "list_contracts"}
      /\ seen.outcome = "nothing" /\ seen.groups = {}
      /\ seen.exact = << >> /\ seen.doc = << >> /\ seen.listed = << >>
      /\ req.op = "export" => seen.group = Unset
  BY <1>0 DEF IInv, Control, Ready
<1>2. /\ req' = req /\ was' = was /\ lacked' = lacked /\ groups' = groups
      /\ contracts' = contracts
  BY <1>0, ReadsKeep DEF IInv
<1> DEFINE T == {c \in Contracts : InScope(c, req.slug, seen.group)}
<1>3. PICK S \in Filters(req, T) : \E s \in Listings(S) :
        LET listed == Upto(s, Limit(req))
            next == IF req.op = "export" /\ DOMAIN listed = {} THEN "done"
                    ELSE AfterList(req.op)
        IN /\ seen' = [seen EXCEPT !.listed = [k \in DOMAIN listed |-> EntryOf(listed[k])],
                                   !.rest = IF req.op = "export" THEN DOMAIN listed ELSE {},
                                   !.outcome = IF next = "done" THEN "ok" ELSE @]
           /\ Goto(next)
  BY DEF ListContracts
<1>4. PICK s \in Listings(S) :
        LET listed == Upto(s, Limit(req))
            next == IF req.op = "export" /\ DOMAIN listed = {} THEN "done"
                    ELSE AfterList(req.op)
        IN /\ seen' = [seen EXCEPT !.listed = [k \in DOMAIN listed |-> EntryOf(listed[k])],
                                   !.rest = IF req.op = "export" THEN DOMAIN listed ELSE {},
                                   !.outcome = IF next = "done" THEN "ok" ELSE @]
           /\ Goto(next)
  BY <1>3
<1>5. S \subseteq T /\ (req.op = "export" => S = T)
  BY <1>1, RequestFacts DEF Filters
<1>6. IsFiniteSet(Contracts) /\ IsFiniteSet(S)
  BY <1>5, ReadSideAssumption, FS_Subset
<1>7. Limit(req) \in Nat /\ (req.op = "export" => Limit(req) = ExportLimit)
  BY <1>1, LimitFacts
<1>8. \A c \in S : /\ c \in Contracts /\ contracts[c] \in Row /\ contracts[c].project = req.slug
                   /\ contracts[c] \in was[c]
  BY <1>0, <1>5, ScopeFacts DEF IInv, History
<1>9. req.op = "export" =>
        \A c \in Contracts :
          contracts[c] \in Row /\ contracts[c].project = req.slug /\ seen.group = Unset => c \in S
  BY <1>5, ScopeFacts DEF IInv
<1> HIDE DEF T
<1>10. PICK l \in Nat :
        /\ DOMAIN Upto(s, Limit(req)) = 1..l
        /\ \A k \in 1..l : Upto(s, Limit(req))[k] = s[k] /\ s[k] \in S
        /\ \A c \in S : (\E k \in 1..l : s[k] = c) \/ Cardinality(S) > Limit(req)
  BY <1>4, <1>6, <1>7, CutListing
<1> DEFINE next == IF req.op = "export" /\ 1..l = {} THEN "done" ELSE AfterList(req.op)
           listed == [k \in 1..l |-> EntryOf(s[k])]
           rest == IF req.op = "export" THEN 1..l ELSE {}
           o == IF next = "done" THEN "ok" ELSE seen.outcome
<1>11. listed = [k \in 1..l |-> EntryOf(Upto(s, Limit(req))[k])]
  BY <1>10
<1>12. seen' = [seen EXCEPT !.listed = listed, !.rest = rest, !.outcome = o] /\ pc' = next
  BY <1>4, <1>10, <1>11 DEF Goto
<1>13. \A k \in 1..l : /\ listed[k] \in Entry /\ listed[k].id = s[k]
                       /\ listed[k].group # Unset => GroupsNamed(req.slug, listed[k].group) # {}
  BY <1>8, <1>10, EntryFacts DEF IInv
<1>14. listed \in Seq(Entry) /\ DOMAIN listed = 1..l
  <2>1. listed \in [1..l -> Entry]
    BY <1>13
  <2> HIDE DEF listed
  <2> QED
    BY <2>1, ListIsSeq
<1>15. rest \in SUBSET Nat /\ o \in Outcomes
  BY <1>1 DEF Outcomes
<1> HIDE DEF listed, rest, o
<1>16. /\ seen' \in Locals /\ seen'.listed = listed /\ seen'.rest = rest /\ seen'.outcome = o
       /\ seen'.groups = {} /\ seen'.doc = << >> /\ seen'.exact = << >>
  <2>1. /\ seen' \in Locals /\ seen'.listed = listed /\ seen'.rest = rest /\ seen'.outcome = o
        /\ seen'.groups = seen.groups /\ seen'.doc = seen.doc /\ seen'.exact = seen.exact
    <3>1. seen \in Locals /\ listed \in Seq(Entry)
      BY <1>1, <1>14
    <3> QED
      BY <1>12, <1>15, <3>1 DEF Locals
  <2> QED
    BY <1>1, <2>1
<1>17. /\ pc' \in {"done", "groups", "bodies"}
       /\ pc' = "groups" => req.op = "project_page"
       /\ pc' = "bodies" => req.op = "export"
       /\ pc' = "done" => req.op # "project_page" /\ o = "ok" /\ (req.op = "export" => 1..l = {})
       /\ pc' # "done" => o = "nothing"
  BY <1>1, <1>12 DEF AfterList, o
<1> HIDE DEF next
<1>18. pc' \in Calls \cup {"done"}
  BY <1>17, SomeCalls
<1>19. Tables' /\ History' /\ asks' \in Nat /\ writes' \in Nat
  BY <1>0, <1>18, ReadKeepsBase
<1>20. Ready'
  BY <1>1, <1>2, <1>16, <1>18, <1>19 DEF Ready
<1>21. Control'
  <2>1. CASE pc' = "done"
    BY <1>1, <1>2, <2>1, DoneControlNext
  <2>2. CASE pc' # "done"
    BY <1>1, <1>2, <1>16, <1>17, <2>2 DEF Control
  <2> QED
    BY <2>1, <2>2
<1>22. Searching'
  BY <1>1, <1>2, <1>17 DEF Searching, Answered
<1>23. Paging'
  <2>1. ~Answered({"project_page"})'
    BY <1>2, <1>17 DEF Answered
  <2>2. \A name : GroupsNamed(req.slug, name)' = GroupsNamed(req.slug, name)
    BY <1>2 DEF GroupsNamed
  <2> QED
    BY <1>2, <1>13, <1>14, <1>16, <2>1, <2>2 DEF Paging, HomesAreThere
<1>24. NotFoundIsTrue'
  <2>1. CASE pc' = "done"
    BY <1>1, <1>2, <1>16, <1>17, <2>1, NothingMissedNext
  <2>2. CASE pc' # "done"
    BY <2>2 DEF NotFoundIsTrue
  <2> QED
    BY <2>1, <2>2
<1>25. req.op = "export" => Written' /\ (pc' = "done" => seen'.rest = {})
  <2> SUFFICES ASSUME req.op = "export"
               PROVE  Written' /\ (pc' = "done" => seen'.rest = {})
    OBVIOUS
  <2>1. rest = 1..l /\ Limit(req) = ExportLimit /\ seen.group = Unset
    BY <1>1, <1>7 DEF rest
  <2>2. EverThere' = EverThere /\ EverThere \subseteq Contracts
    BY <1>2 DEF EverThere
  <2>3. S \subseteq EverThere
    BY <1>8 DEF EverThere
  <2>4. \A k \in DOMAIN seen'.listed : seen'.listed[k].id \in EverThere
    BY <1>10, <1>13, <1>14, <1>16, <2>3
  <2>5. ASSUME Cardinality(EverThere) <= ExportLimit, NEW c \in EverThere, NEW row \in Row,
               was[c] = {row}
        PROVE  \E k \in DOMAIN seen'.listed : seen'.listed[k].id = c
    <3>1. IsFiniteSet(EverThere)
      BY <1>6, <2>2, FS_Subset
    <3>2. Cardinality(S) <= Cardinality(EverThere)
      BY <2>3, <3>1, FS_Subset
    <3>3. Cardinality(S) \in Nat /\ Cardinality(EverThere) \in Nat /\ ExportLimit \in Nat
      BY <1>6, <3>1, FS_CardinalityType, ReadSideAssumption
    <3>4. ~(Cardinality(S) > Limit(req))
      BY <2>1, <2>5, <3>2, <3>3
    <3>5. contracts[c] \in was[c] /\ row.project = req.slug /\ c \in Contracts
      BY <1>0, <2>2, <2>5 DEF IInv, History, EverThere
    <3>6. c \in S
      BY <1>9, <2>1, <2>5, <3>5
    <3> QED
      BY <1>10, <1>13, <1>14, <1>16, <3>4, <3>6
  <2>6. DOMAIN seen'.doc = {}
    BY <1>16
  <2>7. \A k \in DOMAIN seen'.listed : k \in seen'.rest
    BY <1>14, <1>16, <2>1
  <2>8. Written'
    BY <1>2, <2>2, <2>4, <2>5, <2>6, <2>7 DEF Written
  <2> QED
    BY <1>16, <1>17, <2>1, <2>8
<1>26. Exporting'
  BY <1>2, <1>17, <1>25 DEF Exporting, Answered
<1> QED
  BY <1>19, <1>20, <1>21, <1>22, <1>23, <1>24, <1>26 DEF IInv

LEMMA ListGroupsStep ==
  ASSUME IInv, ListGroups
  PROVE  IInv'
<1>0. pc \in Calls /\ pc = "groups" /\ pc # "idle" /\ Reads /\ pc' = "done"
  BY SomeCalls DEF ListGroups, Goto
<1>1. /\ req \in Requests /\ seen \in Locals
      /\ req.op \in {"project_page", "list_groups"}
  BY <1>0 DEF IInv, Control, Ready
<1>2. req' = req /\ groups' = groups
  BY <1>0, ReadsKeep DEF IInv
<1> DEFINE list == {g \in DOMAIN groups : groups[g].project = req.slug}
<1>3. list \subseteq Groups
  BY DEF IInv, Tables, Nested
<1>4. seen' = [seen EXCEPT !.groups = list, !.outcome = "ok"]
  BY DEF ListGroups
<1>5. /\ seen' \in Locals /\ seen'.groups = list /\ seen'.outcome = "ok"
      /\ seen'.listed = seen.listed
  <2> HIDE DEF list
  <2> QED
    BY <1>1, <1>3, <1>4 DEF Locals, Outcomes
<1>6. Tables' /\ History' /\ asks' \in Nat /\ writes' \in Nat
  BY <1>0, ReadKeepsBase
<1>7. Ready'
  BY <1>0, <1>1, <1>2, <1>5, <1>6 DEF Ready
<1>8. Control'
  BY <1>0, <1>1, <1>2, DoneControlNext
<1>9. NotFoundIsTrue'
  BY <1>1, <1>2, <1>5, NothingMissedNext
<1>10. Searching' /\ Exporting'
  BY <1>0, <1>1, <1>2 DEF Searching, Exporting, Answered
<1>11. Paging'
  <2>1. CASE req.op = "project_page"
    <3>1. \A name : GroupsNamed(req.slug, name)' = GroupsNamed(req.slug, name)
      BY <1>2 DEF GroupsNamed
    <3>2. HomesAreThere
      BY <1>0, <2>1 DEF IInv, Paging
    <3>3. HomesAreThere'
      BY <1>2, <1>5, <3>1, <3>2 DEF HomesAreThere
    <3> QED
      BY <1>0, <1>2, <1>5, <3>3 DEF Paging, PageRead
  <2>2. CASE req.op # "project_page"
    BY <1>0, <1>2, <2>2 DEF Paging, Answered
  <2> QED
    BY <2>1, <2>2
<1> QED
  BY <1>6, <1>7, <1>8, <1>9, <1>10, <1>11 DEF IInv

----------------------------------------------------------------------------
(* The export                                                              *)

LEMMA FiledFacts ==
  ASSUME NEW doc \in Docs, NEW key \in Key, NEW c \in Contracts
  PROVE  /\ Filed(doc, key, c) \in Docs
         /\ HoldsAt(Filed(doc, key, c), key, c)
         /\ \A other \in Key : \A d : other # key /\ HoldsAt(doc, other, d) =>
              HoldsAt(Filed(doc, key, c), other, d)
         /\ \A p \in DOMAIN Filed(doc, key, c) : \A m \in DOMAIN Filed(doc, key, c)[p] :
              \/ key = [path |-> p, method |-> m] /\ Filed(doc, key, c)[p][m] = c
              \/ /\ p \in DOMAIN doc /\ m \in DOMAIN doc[p]
                 /\ Filed(doc, key, c)[p][m] = doc[p][m]
<1> DEFINE M == UNION {[N -> Contracts] : N \in SUBSET Methods}
           old == IF key.path \in DOMAIN doc THEN doc[key.path] ELSE << >>
           new == Put(old, key.method, c)
<1>1. key.path \in Paths /\ key.method \in Methods /\ key = [path |-> key.path, method |-> key.method]
  BY DEF Key
<1>2. PICK P \in SUBSET Paths : doc \in [P -> M]
  BY DEF Docs
<1>3. old \in M
  <2>1. << >> \in [{} -> Contracts] /\ {} \in SUBSET Methods
    OBVIOUS
  <2>2. << >> \in M
    BY <2>1
  <2> HIDE DEF M
  <2> QED
    BY <1>2, <2>2
<1>4. PICK N \in SUBSET Methods : old \in [N -> Contracts]
  BY <1>3
<1> HIDE DEF old
<1>5. /\ new \in [N \cup {key.method} -> Contracts] /\ new[key.method] = c
      /\ \A m \in N : m # key.method => new[m] = old[m]
  BY <1>4 DEF Put
<1>6. N \cup {key.method} \in SUBSET Methods
  BY <1>1
<1>7. new \in M
  BY <1>5, <1>6
<1> HIDE DEF new, M
<1>8. Filed(doc, key, c) = Put(doc, key.path, new)
  BY DEF Filed, new, old
<1>9. /\ Filed(doc, key, c) \in [P \cup {key.path} -> M] /\ Filed(doc, key, c)[key.path] = new
      /\ \A p \in P : p # key.path => Filed(doc, key, c)[p] = doc[p]
  BY <1>2, <1>7, <1>8 DEF Put
<1>10. Filed(doc, key, c) \in Docs
  <2>1. P \cup {key.path} \in SUBSET Paths
    BY <1>1
  <2> QED
    BY <1>9, <2>1 DEF Docs, M
<1>11. DOMAIN Filed(doc, key, c) = P \cup {key.path} /\ DOMAIN doc = P
       /\ DOMAIN new = N \cup {key.method} /\ DOMAIN old = N
  BY <1>2, <1>4, <1>5, <1>9
<1>12. HoldsAt(Filed(doc, key, c), key, c)
  BY <1>5, <1>9, <1>11 DEF HoldsAt
<1>13. ASSUME NEW other \in Key, NEW d, other # key, HoldsAt(doc, other, d)
       PROVE  HoldsAt(Filed(doc, key, c), other, d)
  <2>1. CASE other.path = key.path
    <3>1. other.method # key.method
      BY <1>13, <2>1 DEF Key
    <3>2. old = doc[key.path]
      BY <1>13, <2>1 DEF HoldsAt, old
    <3> QED
      BY <1>5, <1>9, <1>11, <1>13, <2>1, <3>1, <3>2 DEF HoldsAt
  <2>2. CASE other.path # key.path
    BY <1>9, <1>11, <1>13, <2>2 DEF HoldsAt
  <2> QED
    BY <2>1, <2>2
<1>14. ASSUME NEW p \in DOMAIN Filed(doc, key, c), NEW m \in DOMAIN Filed(doc, key, c)[p]
       PROVE  \/ key = [path |-> p, method |-> m] /\ Filed(doc, key, c)[p][m] = c
              \/ /\ p \in DOMAIN doc /\ m \in DOMAIN doc[p]
                 /\ Filed(doc, key, c)[p][m] = doc[p][m]
  <2>1. CASE p = key.path /\ m = key.method
    BY <1>1, <1>5, <1>9, <2>1
  <2>2. CASE p = key.path /\ m # key.method
    <3>1. m \in N /\ new[m] = old[m]
      BY <1>5, <1>9, <1>11, <1>14, <2>2
    <3>2. key.path \in DOMAIN doc /\ old = doc[key.path]
      <4>1. key.path \notin DOMAIN doc => old = << >>
        BY DEF old
      <4>2. DOMAIN old # {}
        BY <1>11, <3>1
      <4> QED
        BY <4>1, <4>2 DEF old
    <3> QED
      BY <1>9, <1>11, <2>2, <3>1, <3>2
  <2>3. CASE p # key.path
    BY <1>9, <1>11, <1>14, <2>3
  <2> QED
    BY <2>1, <2>2, <2>3
<1> QED
  BY <1>10, <1>12, <1>13, <1>14

LEMMA ReadBodyStep ==
  ASSUME IInv, ReadBody
  PROVE  IInv'
<1>0. pc \in Calls /\ pc = "bodies" /\ pc # "idle" /\ Reads
  BY SomeCalls DEF ReadBody
<1>1. /\ req \in Requests /\ seen \in Locals /\ ~RefusedAtOnce(req) /\ req.bad = "none"
      /\ req.op = "export" /\ seen.outcome = "nothing" /\ seen.groups = {}
  BY <1>0 DEF IInv, Control, Ready
<1>2. /\ req' = req /\ was' = was /\ contracts' = contracts
  BY <1>0, ReadsKeep DEF IInv
<1>3. Written
  BY <1>0 DEF IInv, Exporting
<1>4. PICK k \in DOMAIN seen.listed :
        LET c == seen.listed[k].id
        IN /\ IsNext(k)
           /\ \/ ~InScope(c, req.slug, Unset) /\ Finish("not_found")
              \/ /\ InScope(c, req.slug, Unset)
                 /\ seen' = [seen EXCEPT !.doc = Filed(@, contracts[c].key, c),
                                         !.rest = @ \ {k}, !.outcome = Settled(k)]
                 /\ Goto(After(k, "bodies"))
  BY DEF ReadBody
<1> DEFINE c == seen.listed[k].id
<1>5. c \in EverThere
  BY <1>3 DEF Written
<1>6. c \in Contracts /\ contracts[c] \in was[c]
  BY <1>0, <1>5 DEF EverThere, IInv, History
<1> HIDE DEF c
<1>7. CASE ~InScope(c, req.slug, Unset) /\ Finish("not_found")
  <2>1. PICK row \in was[c] \cap Row : row.project = req.slug
    BY <1>5 DEF EverThere
  <2>2. contracts[c] = Gone \/ (contracts[c] \in Row /\ contracts[c].project = row.project)
    BY <1>0, <1>6, <2>1 DEF IInv, History
  <2>3. Gone \in was[c]
    BY <1>6, <1>7, <2>1, <2>2, ScopeFacts DEF IInv
  <2>4. seen'.listed = seen.listed
    BY <1>1, <1>7 DEF Finish, Locals
  <2>5. NotFoundIsTrue'
    BY <1>1, <1>2, <2>3, <2>4 DEF NotFoundIsTrue, c
  <2> QED
    BY <1>0, <1>7, <2>5, Ends DEF Finish, Outcomes
<1>8. CASE /\ InScope(c, req.slug, Unset)
           /\ seen' = [seen EXCEPT !.doc = Filed(@, contracts[c].key, c),
                                   !.rest = @ \ {k}, !.outcome = Settled(k)]
           /\ Goto(After(k, "bodies"))
  <2> DEFINE doc == Filed(seen.doc, contracts[c].key, c)
  <2>1. contracts[c] \in Row /\ contracts[c].project = req.slug /\ contracts[c].key \in Key
    BY <1>6, <1>8, ScopeFacts DEF IInv, Row
  <2>2. seen.doc \in Docs /\ seen.rest \subseteq Nat
    BY <1>1 DEF Locals
  <2>3. /\ doc \in Docs /\ HoldsAt(doc, contracts[c].key, c)
        /\ \A other \in Key : \A d : other # contracts[c].key /\ HoldsAt(seen.doc, other, d) =>
             HoldsAt(doc, other, d)
        /\ \A p \in DOMAIN doc : \A m \in DOMAIN doc[p] :
             \/ contracts[c].key = [path |-> p, method |-> m] /\ doc[p][m] = c
             \/ p \in DOMAIN seen.doc /\ m \in DOMAIN seen.doc[p] /\ doc[p][m] = seen.doc[p][m]
    BY <1>6, <2>1, <2>2, FiledFacts
  <2> HIDE DEF doc
  <2>4. seen' = [seen EXCEPT !.doc = doc, !.rest = seen.rest \ {k}, !.outcome = Settled(k)]
    BY <1>1, <1>8 DEF doc
  <2>5. /\ Settled(k) \in {"ok", "nothing"} /\ pc' \in {"done", "bodies"}
        /\ pc' = "done" => seen.rest = {k} /\ Settled(k) = "ok"
        /\ pc' = "bodies" => Settled(k) = "nothing"
    BY <1>1, <1>8 DEF Settled, After, Goto
  <2>6. /\ seen' \in Locals /\ seen'.doc = doc /\ seen'.rest = seen.rest \ {k}
        /\ seen'.outcome = Settled(k) /\ seen'.listed = seen.listed /\ seen'.groups = {}
    <3>1. seen.rest \ {k} \in SUBSET Nat /\ Settled(k) \in Outcomes
      BY <2>2, <2>5 DEF Outcomes
    <3> QED
      BY <1>1, <2>3, <2>4, <3>1 DEF Locals
  <2>7. pc' \in Calls \cup {"done"}
    BY <2>5, SomeCalls
  <2>8. Tables' /\ History' /\ asks' \in Nat /\ writes' \in Nat
    BY <1>0, <2>7, ReadKeepsBase
  <2>9. Ready'
    BY <1>1, <1>2, <2>6, <2>7, <2>8 DEF Ready
  <2>10. Control'
    <3>1. CASE pc' = "done"
      BY <1>1, <1>2, <3>1, DoneControlNext
    <3>2. CASE pc' = "bodies"
      BY <1>1, <1>2, <2>5, <2>6, <3>2 DEF Control
    <3> QED
      BY <2>5, <3>1, <3>2
  <2>11. Searching' /\ Paging'
    BY <1>1, <1>2, <2>5 DEF Searching, Paging, Answered
  <2>12. NotFoundIsTrue'
    <3>1. CASE pc' = "done"
      BY <1>1, <1>2, <2>5, <2>6, <3>1, NothingMissedNext
    <3>2. CASE pc' # "done"
      BY <3>2 DEF NotFoundIsTrue
    <3> QED
      BY <3>1, <3>2
  <2>13. Written'
    <3>1. EverThere' = EverThere
      BY <1>2 DEF EverThere
    <3>2. ASSUME NEW j \in DOMAIN seen.listed, NEW row \in Row, was[seen.listed[j].id] = {row}
          PROVE  j \in seen.rest \ {k} \/ HoldsAt(doc, row.key, seen.listed[j].id)
      <4> DEFINE d == seen.listed[j].id
      <4>1. d \in EverThere
        BY <1>3 DEF Written
      <4>2. d \in Contracts /\ row.project = req.slug /\ contracts[d] = row /\ row.key \in Key
        BY <1>0, <3>2, <4>1 DEF EverThere, IInv, History, Row
      <4>3. CASE d = c
        BY <2>3, <4>2, <4>3
      <4>4. CASE d # c
        <5>1. j # k
          BY <4>4 DEF c
        <5>2. row.key # contracts[c].key
          BY <1>6, <2>1, <4>2, <4>4 DEF IInv, Tables, Placed
        <5>3. j \in seen.rest \/ HoldsAt(seen.doc, row.key, d)
          BY <1>3, <3>2 DEF Written
        <5> HIDE DEF d
        <5> QED
          BY <2>3, <4>2, <5>1, <5>2, <5>3 DEF d
      <4> QED
        BY <4>3, <4>4
    <3>3. ASSUME NEW p \in DOMAIN doc, NEW m \in DOMAIN doc[p]
          PROVE  \E row \in was[doc[p][m]] \cap Row :
                   row.project = req.slug /\ row.key = [path |-> p, method |-> m]
      <4>1. CASE contracts[c].key = [path |-> p, method |-> m] /\ doc[p][m] = c
        BY <1>6, <2>1, <4>1
      <4>2. CASE p \in DOMAIN seen.doc /\ m \in DOMAIN seen.doc[p] /\ doc[p][m] = seen.doc[p][m]
        BY <1>3, <4>2 DEF Written
      <4> QED
        BY <2>3, <4>1, <4>2
    <3> QED
      BY <1>2, <1>3, <2>6, <3>1, <3>2, <3>3 DEF Written
  <2>14. Exporting'
    BY <2>5, <2>6, <2>13 DEF Exporting, Answered
  <2> QED
    BY <2>8, <2>9, <2>10, <2>11, <2>12, <2>14 DEF IInv
<1> QED
  BY <1>4, <1>7, <1>8 DEF c

----------------------------------------------------------------------------
(* Search                                                                  *)

(* What a merge leaves behind.                                             *)
LEMMA MergeKeepsLocals ==
  ASSUME NEW s \in Locals, NEW a \in Seq(Hit), NEW b \in Seq(Contracts), NEW h \in Seq(Hit),
         NEW r \in SUBSET Nat, NEW o \in Outcomes
  PROVE  [s EXCEPT !.exact = a, !.semantic = b, !.hits = h, !.rest = r, !.outcome = o] \in Locals
BY DEF Locals

LEMMA MergeStep ==
  ASSUME IInv, pc \in Calls, Reads, req.op = "search", req.bad = "none",
         NEW exact \in Seq(Hit), NEW semantic \in Seq(Contracts), MergeInto(exact, semantic),
         Len(exact) <= ExactLimit, Len(semantic) <= NearestLimit,
         \A i, j \in DOMAIN exact : exact[i].id = exact[j].id => i = j,
         \A i, j \in DOMAIN semantic : semantic[i] = semantic[j] => i = j,
         \A k \in DOMAIN exact :
           exact[k].key \in Key /\ \E row \in WasInScope(exact[k].id) : row.key = exact[k].key,
         req.mode # "semantic" =>
           \A c \in Contracts : Matches(c) =>
             (\E k \in DOMAIN exact : exact[k].id = c) \/ Cardinality(EverMatched) > ExactLimit,
         \A k \in DOMAIN semantic : WasInScope(semantic[k]) # {}
  PROVE  IInv'
<1>1. /\ req \in Requests /\ seen \in Locals /\ ~RefusedAtOnce(req)
      /\ seen.outcome = "nothing" /\ seen.groups = {}
  BY SomeCalls DEF IInv, Control, Ready, Calls
<1>2. req' = req /\ was' = was
  BY ReadsKeep DEF IInv
<1>3. Limit(req) \in Nat
  BY <1>1, LimitFacts
<1>4. PICK hits \in Merges(exact, semantic, Limit(req)) :
        LET done == Blanks(hits) = {}
        IN /\ seen' = [seen EXCEPT !.exact = exact, !.semantic = semantic, !.hits = hits,
                                   !.rest = Blanks(hits), !.outcome = IF done THEN "ok" ELSE @]
           /\ Goto(IF done THEN "done" ELSE "hydrate")
  BY DEF MergeInto
<1>5. /\ hits \in Seq(Hit)
      /\ Fused(exact, semantic, Limit(req), hits)
      /\ \A k \in DOMAIN hits : Found(exact, semantic, hits[k])
  BY <1>3, <1>4, MergeFacts
<1> DEFINE rest == Blanks(hits)
           o == IF rest = {} THEN "ok" ELSE seen.outcome
<1>6. seen' = [seen EXCEPT !.exact = exact, !.semantic = semantic, !.hits = hits,
                           !.rest = rest, !.outcome = o]
  BY <1>4
<1>7. rest \in SUBSET Nat /\ o \in Outcomes
  <2>1. DOMAIN hits = 1..Len(hits) /\ Len(hits) \in Nat
    BY <1>5, LenProperties
  <2> QED
    BY <1>1, <2>1 DEF Blanks, Outcomes
<1>8. /\ pc' \in {"done", "hydrate"}
      /\ pc' = "done" => rest = {} /\ o = "ok"
      /\ pc' = "hydrate" => o = "nothing"
  BY <1>1, <1>4 DEF Goto
<1> HIDE DEF rest, o
<1>9. seen' \in Locals
  BY <1>1, <1>5, <1>6, <1>7, MergeKeepsLocals
<1>10. /\ seen'.exact = exact /\ seen'.semantic = semantic /\ seen'.hits = hits
       /\ seen'.rest = rest /\ seen'.outcome = o /\ seen'.groups = {} /\ seen'.group = seen.group
  BY <1>1, <1>6 DEF Locals
<1>11. pc' \in Calls \cup {"done"}
  BY <1>8, SomeCalls
<1>12. Tables' /\ History' /\ asks' \in Nat /\ writes' \in Nat
  BY <1>11, ReadKeepsBase
<1>13. Ready'
  BY <1>1, <1>2, <1>9, <1>11, <1>12 DEF Ready
<1>14. Control'
  <2>1. CASE pc' = "done"
    BY <1>1, <1>2, <2>1, DoneControlNext
  <2>2. CASE pc' = "hydrate"
    BY <1>1, <1>2, <1>8, <1>10, <2>2 DEF Control
  <2> QED
    BY <1>8, <2>1, <2>2
<1>15. Exporting' /\ Paging'
  BY <1>2, <1>8 DEF Exporting, Paging, Answered
<1>16. NotFoundIsTrue'
  <2>1. o # "not_found"
    BY <1>8
  <2> QED
    BY <1>1, <1>2, <1>10, <2>1, NothingMissedNext
<1>17. \A c : WasInScope(c)' = WasInScope(c)
  BY <1>2, <1>10 DEF WasInScope
<1>18. ExactFound'
  <2>1. \A c \in Contracts : Matches(c)' <=> Matches(c)
    BY <1>2, <1>17 DEF Matches
  <2>2. EverMatched' = EverMatched
    BY <1>17 DEF EverMatched
  <2> QED
    BY <1>2, <1>10, <1>17, <2>1, <2>2 DEF ExactFound
<1>19. HitsFound'
  <2>1. ASSUME NEW k \in DOMAIN hits
        PROVE  /\ WasInScope(hits[k].id) # {}
               /\ IF hits[k].key = Unset THEN k \in rest
                  ELSE \E row \in was[hits[k].id] \cap Row :
                         row.project = req.slug /\ row.key = hits[k].key
    <3>1. CASE \E m \in DOMAIN exact : hits[k] = exact[m]
      <4>1. PICK m \in DOMAIN exact : hits[k] = exact[m]
        BY <3>1
      <4>2. PICK row \in WasInScope(hits[k].id) : row.key = hits[k].key
        BY <4>1
      <4>3. hits[k].key # Unset
        BY <4>1, ReadSideAssumption
      <4> QED
        BY <4>2, <4>3 DEF WasInScope
    <3>2. CASE \E m \in DOMAIN semantic : hits[k] = [id |-> semantic[m], key |-> Unset]
      <4>1. PICK m \in DOMAIN semantic : hits[k] = [id |-> semantic[m], key |-> Unset]
        BY <3>2
      <4>2. hits[k].id = semantic[m] /\ hits[k].key = Unset
        BY <4>1
      <4>3. k \in rest
        BY <4>2 DEF rest, Blanks
      <4> QED
        BY <4>2, <4>3
    <3> QED
      BY <1>5, <3>1, <3>2 DEF Found
  <2>2. Limit(req)' = Limit(req)
    BY <1>2 DEF Limit
  <2> QED
    BY <1>2, <1>5, <1>10, <1>17, <2>1, <2>2 DEF HitsFound
<1>20. Searching'
  BY <1>8, <1>10, <1>18, <1>19 DEF Searching, Answered
<1> QED
  BY <1>12, <1>13, <1>14, <1>15, <1>16, <1>20 DEF IInv

LEMMA SearchExactStep ==
  ASSUME IInv, SearchExact
  PROVE  IInv'
<1>0. pc \in Calls /\ pc = "exact" /\ pc # "idle" /\ Reads
  BY SomeCalls DEF SearchExact
<1>1. /\ req \in Requests /\ seen \in Locals /\ ~RefusedAtOnce(req) /\ req.bad = "none"
      /\ req.op = "search" /\ req.mode # "semantic" /\ seen.outcome = "nothing" /\ seen.groups = {}
  BY <1>0 DEF IInv, Control, Ready
<1>2. req' = req /\ was' = was
  BY <1>0, ReadsKeep DEF IInv
<1> DEFINE found == {c \in Contracts : /\ InScope(c, req.slug, seen.group)
                                       /\ contracts[c].key \in Matching}
<1>3. PICK s \in Listings(found) :
        LET exact == [k \in DOMAIN Upto(s, ExactLimit) |->
                        [id |-> s[k], key |-> contracts[s[k]].key]]
        IN IF req.mode = "exact" THEN MergeInto(exact, << >>)
           ELSE seen' = [seen EXCEPT !.exact = exact] /\ Goto("semantic")
  BY DEF SearchExact, Orders
<1>4. IsFiniteSet(Contracts) /\ IsFiniteSet(found) /\ ExactLimit \in Nat
  BY ReadSideAssumption, FS_Subset
<1>5. \A c \in found : /\ c \in Contracts /\ contracts[c] \in WasInScope(c)
                       /\ contracts[c].key \in Matching /\ contracts[c].key \in Key
  BY <1>0, ScopeFacts DEF IInv, History, WasInScope, Row
<1>6. \A c \in Contracts : contracts[c] \in WasInScope(c) /\ contracts[c].key \in Matching => c \in found
  BY ScopeFacts DEF IInv, WasInScope
<1> HIDE DEF found
<1>7. PICK l \in Nat :
        /\ DOMAIN Upto(s, ExactLimit) = 1..l
        /\ \A k \in 1..l : s[k] \in found
        /\ \A i, j \in 1..l : s[i] = s[j] => i = j
        /\ l <= ExactLimit
        /\ \A c \in found : (\E k \in 1..l : s[k] = c) \/ Cardinality(found) > ExactLimit
  BY <1>3, <1>4, CutListing
<1>8. PICK exact : exact = [k \in 1..l |-> [id |-> s[k], key |-> contracts[s[k]].key]]
  OBVIOUS
<1>9. IF req.mode = "exact" THEN MergeInto(exact, << >>)
      ELSE seen' = [seen EXCEPT !.exact = exact] /\ Goto("semantic")
  BY <1>3, <1>7, <1>8
<1>10. \A k \in 1..l : exact[k] \in Hit /\ exact[k].id = s[k] /\ exact[k].key = contracts[s[k]].key
  BY <1>5, <1>7, <1>8 DEF Hit
<1>11. exact \in Seq(Hit) /\ Len(exact) = l /\ DOMAIN exact = 1..l
  <2>1. exact \in [1..l -> Hit]
    BY <1>8, <1>10
  <2> QED
    BY <2>1, ListIsSeq
<1>12. \A k \in DOMAIN exact :
         exact[k].key \in Key /\ \E row \in WasInScope(exact[k].id) : row.key = exact[k].key
  BY <1>5, <1>7, <1>10, <1>11
<1>13. \A i, j \in DOMAIN exact : exact[i].id = exact[j].id => i = j
  BY <1>7, <1>10, <1>11
<1>14. \A c \in Contracts : Matches(c) =>
         (\E k \in DOMAIN exact : exact[k].id = c) \/ Cardinality(EverMatched) > ExactLimit
  <2> SUFFICES ASSUME NEW c \in Contracts, Matches(c)
               PROVE  (\E k \in DOMAIN exact : exact[k].id = c) \/ Cardinality(EverMatched) > ExactLimit
    OBVIOUS
  <2>1. contracts[c] \in was[c]
    BY <1>0 DEF IInv, History
  <2>2. c \in found
    BY <1>6, <2>1 DEF Matches
  <2>3. found \subseteq EverMatched /\ EverMatched \subseteq Contracts
    BY <1>5 DEF EverMatched
  <2>4. IsFiniteSet(EverMatched)
    BY <1>4, <2>3, FS_Subset
  <2>5. /\ Cardinality(found) <= Cardinality(EverMatched)
        /\ Cardinality(found) \in Nat /\ Cardinality(EverMatched) \in Nat
    BY <1>4, <2>3, <2>4, FS_Subset, FS_CardinalityType
  <2>6. (\E k \in 1..l : s[k] = c) \/ Cardinality(found) > ExactLimit
    BY <1>7, <2>2
  <2> QED
    BY <1>4, <1>10, <1>11, <2>5, <2>6
<1>15. CASE req.mode = "exact"
  <2>1. PICK none : none = << >>
    OBVIOUS
  <2>2. none \in Seq(Contracts) /\ Len(none) = 0 /\ DOMAIN none = {} /\ 0 <= NearestLimit
    BY <2>1, ReadSideAssumption
  <2>3. MergeInto(exact, none) /\ Len(exact) <= ExactLimit /\ Len(none) <= NearestLimit
    BY <1>7, <1>9, <1>11, <1>15, <2>1, <2>2
  <2> QED
    BY <1>0, <1>1, <1>11, <1>12, <1>13, <1>14, <2>2, <2>3, MergeStep
<1>16. CASE req.mode # "exact"
  <2>1. seen' = [seen EXCEPT !.exact = exact] /\ pc' = "semantic"
    BY <1>9, <1>16 DEF Goto
  <2>2. /\ seen' \in Locals /\ seen'.exact = exact /\ seen'.outcome = "nothing"
        /\ seen'.groups = {} /\ seen'.group = seen.group
    BY <1>1, <1>11, <2>1 DEF Locals
  <2>3. pc' \in Calls
    BY <2>1, SomeCalls
  <2>4. Tables' /\ History' /\ asks' \in Nat /\ writes' \in Nat
    BY <1>0, <2>3, ReadKeepsBase
  <2>5. Ready'
    BY <1>1, <1>2, <2>2, <2>3, <2>4 DEF Ready
  <2>6. Control'
    BY <1>1, <1>2, <2>1, <2>2 DEF Control
  <2>7. Exporting' /\ Paging' /\ NotFoundIsTrue'
    BY <2>1 DEF Exporting, Paging, NotFoundIsTrue, Answered
  <2>8. \A c : WasInScope(c)' = WasInScope(c)
    BY <1>2, <2>2 DEF WasInScope
  <2>9. ExactFound'
    <3>1. \A c \in Contracts : Matches(c)' <=> Matches(c)
      BY <1>2, <2>8 DEF Matches
    <3>2. EverMatched' = EverMatched
      BY <2>8 DEF EverMatched
    <3> QED
      BY <1>2, <1>7, <1>11, <1>12, <1>13, <1>14, <2>2, <2>8, <3>1, <3>2 DEF ExactFound
  <2>10. Searching'
    BY <2>1, <2>9 DEF Searching, Answered
  <2> QED
    BY <2>4, <2>5, <2>6, <2>7, <2>10 DEF IInv
<1> QED
  BY <1>15, <1>16

LEMMA SearchSemanticStep ==
  ASSUME IInv, SearchSemantic
  PROVE  IInv'
<1>0. pc \in Calls /\ pc = "semantic" /\ pc # "idle" /\ Reads
  BY SomeCalls DEF SearchSemantic
<1>1. /\ req \in Requests /\ seen \in Locals /\ req.bad = "none" /\ req.op = "search"
      /\ ExactFound
  BY <1>0 DEF IInv, Control, Ready, Searching
<1>2. PICK S \in Nearest :
        \E s \in Listings({c \in S : InScope(c, req.slug, seen.group)}) : MergeInto(seen.exact, s)
  BY DEF SearchSemantic, Orders
<1> DEFINE T == {c \in S : InScope(c, req.slug, seen.group)}
<1>3. PICK s \in Listings(T) : MergeInto(seen.exact, s)
  BY <1>2
<1>4. PICK exact : exact = seen.exact
  OBVIOUS
<1>5. S \subseteq Contracts /\ T \subseteq S /\ IsFiniteSet(S) /\ IsFiniteSet(T)
  <2>1. S \subseteq Contracts
    BY <1>2 DEF Nearest, IInv, Tables
  <2>2. IsFiniteSet(S)
    BY <2>1, ReadSideAssumption, FS_Subset
  <2> QED
    BY <2>1, <2>2, FS_Subset
<1>6. Cardinality(S) <= NearestLimit
  <2>1. IsFiniteSet(DOMAIN vectors)
    BY ReadSideAssumption, FS_Subset DEF IInv, Tables
  <2>2. Cardinality(DOMAIN vectors) \in Nat /\ NearestLimit \in Nat
    BY <2>1, FS_CardinalityType, ReadSideAssumption
  <2> QED
    BY <1>2, <2>2 DEF Nearest
<1>7. Cardinality(T) <= NearestLimit /\ Cardinality(T) \in Nat
  <2>1. Cardinality(T) <= Cardinality(S) /\ Cardinality(T) \in Nat /\ Cardinality(S) \in Nat
    BY <1>5, FS_Subset, FS_CardinalityType
  <2> QED
    BY <1>6, <2>1, ReadSideAssumption
<1>8. \A c \in T : c \in Contracts /\ WasInScope(c) # {}
  BY <1>0, <1>5, ScopeFacts DEF IInv, History, WasInScope
<1> HIDE DEF T
<1>9. /\ s \in [1..Cardinality(T) -> T]
      /\ \A i, j \in 1..Cardinality(T) : s[i] = s[j] => i = j
  BY <1>3, <1>5, ListingFacts
<1>10. s \in Seq(Contracts) /\ Len(s) = Cardinality(T) /\ DOMAIN s = 1..Cardinality(T)
  <2>1. s \in [1..Cardinality(T) -> Contracts]
    BY <1>8, <1>9
  <2> QED
    BY <1>7, <2>1, ListIsSeq
<1>11. /\ \A i, j \in DOMAIN s : s[i] = s[j] => i = j
       /\ \A k \in DOMAIN s : WasInScope(s[k]) # {}
       /\ Len(s) <= NearestLimit
  BY <1>7, <1>8, <1>9, <1>10
<1>12. exact \in Seq(Hit) /\ MergeInto(exact, s)
  BY <1>1, <1>3, <1>4 DEF Locals
<1>13. /\ Len(exact) <= ExactLimit
       /\ \A i, j \in DOMAIN exact : exact[i].id = exact[j].id => i = j
       /\ \A k \in DOMAIN exact :
            exact[k].key \in Key /\ \E row \in WasInScope(exact[k].id) : row.key = exact[k].key
       /\ req.mode # "semantic" =>
            \A c \in Contracts : Matches(c) =>
              (\E k \in DOMAIN exact : exact[k].id = c) \/ Cardinality(EverMatched) > ExactLimit
  BY <1>1, <1>4 DEF ExactFound, WasInScope, Row
<1> QED
  BY <1>0, <1>1, <1>10, <1>11, <1>12, <1>13, MergeStep

(* The order and the contracts of a list are all that Fused looks at.      *)
LEMMA FusedByIds ==
  ASSUME NEW exact, NEW semantic, NEW limit, NEW a, NEW b, Fused(exact, semantic, limit, a),
         DOMAIN b = DOMAIN a, Len(b) = Len(a), \A k \in DOMAIN a : b[k].id = a[k].id
  PROVE  Fused(exact, semantic, limit, b)
BY DEF Fused

(* One blank has been looked up, or its read has failed.                   *)
LEMMA BlankStep ==
  ASSUME IInv, pc \in Calls, Reads, pc = "hydrate",
         NEW k \in DOMAIN seen.hits, NEW v \in Key \cup {Unset}, NEW failed \in BOOLEAN,
         seen' = [seen EXCEPT !.hits = [@ EXCEPT ![k].key = v], !.rest = @ \ {k},
                              !.failed = failed, !.outcome = Settled(k)],
         pc' = After(k, "hydrate"),
         seen.failed => failed,
         IF v = Unset THEN Gone \in was[seen.hits[k].id] \/ failed
         ELSE \E row \in was[seen.hits[k].id] \cap Row : row.project = req.slug /\ row.key = v
  PROVE  IInv'
<1>1. /\ req \in Requests /\ seen \in Locals /\ ~RefusedAtOnce(req) /\ req.bad = "none"
      /\ req.op = "search" /\ seen.outcome = "nothing" /\ seen.groups = {}
  BY SomeCalls DEF IInv, Control, Ready
<1>2. req' = req /\ was' = was
  BY ReadsKeep DEF IInv
<1>3. ExactFound /\ HitsFound
  BY DEF IInv, Searching
<1>4. /\ Settled(k) \in {"ok", "nothing"} /\ pc' \in {"done", "hydrate"}
      /\ pc' = "done" => seen.rest = {k} /\ Settled(k) = "ok"
      /\ pc' = "hydrate" => Settled(k) = "nothing"
  BY <1>1 DEF Settled, After
<1>5. seen.hits \in Seq(Hit) /\ seen.rest \subseteq Nat
  BY <1>1 DEF Locals
<1> DEFINE hits == [seen.hits EXCEPT ![k].key = v]
           rest == seen.rest \ {k}
           o == Settled(k)
<1>6. /\ hits \in Seq(Hit) /\ DOMAIN hits = DOMAIN seen.hits /\ Len(hits) = Len(seen.hits)
      /\ \A j \in DOMAIN hits : hits[j].id = seen.hits[j].id
      /\ \A j \in DOMAIN hits : j # k => hits[j] = seen.hits[j]
      /\ hits[k].key = v
  <2> DEFINE n == Len(seen.hits)
  <2>1. n \in Nat /\ seen.hits \in [1..n -> Hit] /\ DOMAIN seen.hits = 1..n
    BY <1>5, LenProperties
  <2> HIDE DEF n
  <2>2. /\ hits \in [1..n -> Hit]
        /\ \A j \in 1..n : hits[j].id = seen.hits[j].id /\ (j # k => hits[j] = seen.hits[j])
        /\ hits[k].key = v
    BY <2>1 DEF Hit
  <2> HIDE DEF hits
  <2>3. hits \in Seq(Hit) /\ Len(hits) = n /\ DOMAIN hits = 1..n
    BY <2>1, <2>2, ListIsSeq
  <2> QED
    BY <2>1, <2>2, <2>3 DEF n
<1>7. seen' = [seen EXCEPT !.hits = hits, !.rest = rest, !.failed = failed, !.outcome = o]
  BY <1>1 DEF Locals
<1> HIDE DEF hits, rest, o
<1>8. rest \in SUBSET Nat /\ o \in Outcomes
  BY <1>4, <1>5 DEF rest, o, Outcomes
<1>9. /\ seen' \in Locals /\ seen'.hits = hits /\ seen'.rest = rest /\ seen'.failed = failed
      /\ seen'.outcome = o /\ seen'.groups = {} /\ seen'.group = seen.group
      /\ seen'.exact = seen.exact /\ seen'.semantic = seen.semantic
  BY <1>1, <1>6, <1>7, <1>8 DEF Locals
<1>10. pc' \in Calls \cup {"done"}
  BY <1>4, SomeCalls
<1>11. Tables' /\ History' /\ asks' \in Nat /\ writes' \in Nat
  BY <1>10, ReadKeepsBase
<1>12. Ready'
  BY <1>1, <1>2, <1>9, <1>10, <1>11 DEF Ready
<1>13. Control'
  <2>1. CASE pc' = "done"
    BY <1>1, <1>2, <2>1, DoneControlNext
  <2>2. CASE pc' = "hydrate"
    BY <1>1, <1>2, <1>4, <1>9, <2>2 DEF Control, o
  <2> QED
    BY <1>4, <2>1, <2>2
<1>14. Exporting' /\ Paging'
  BY <1>1, <1>2, <1>4 DEF Exporting, Paging, Answered
<1>15. NotFoundIsTrue'
  <2>1. o # "not_found"
    BY <1>4 DEF o
  <2> QED
    BY <1>1, <1>2, <1>9, <2>1, NothingMissedNext
<1>16. \A c : WasInScope(c)' = WasInScope(c)
  BY <1>2, <1>9 DEF WasInScope
<1>17. ExactFound'
  <2>1. \A c \in Contracts : Matches(c)' <=> Matches(c)
    BY <1>2, <1>16 DEF Matches
  <2>2. EverMatched' = EverMatched
    BY <1>16 DEF EverMatched
  <2> QED
    BY <1>2, <1>3, <1>9, <1>16, <2>1, <2>2 DEF ExactFound
<1>18. HitsFound'
  <2>1. Fused(seen.exact, seen.semantic, Limit(req), hits)
    <3>1. Fused(seen.exact, seen.semantic, Limit(req), seen.hits)
      BY <1>3 DEF HitsFound
    <3> QED
      BY <1>6, <3>1, FusedByIds
  <2>2. ASSUME NEW j \in DOMAIN hits
        PROVE  /\ WasInScope(hits[j].id) # {}
               /\ IF hits[j].key = Unset THEN j \in rest \/ Gone \in was[hits[j].id] \/ failed
                  ELSE \E row \in was[hits[j].id] \cap Row :
                         row.project = req.slug /\ row.key = hits[j].key
    <3>0. /\ WasInScope(seen.hits[j].id) # {}
          /\ IF seen.hits[j].key = Unset
             THEN j \in seen.rest \/ Gone \in was[seen.hits[j].id] \/ seen.failed
             ELSE \E row \in was[seen.hits[j].id] \cap Row :
                    row.project = req.slug /\ row.key = seen.hits[j].key
      BY <1>3, <1>6 DEF HitsFound
    <3>1. CASE j = k
      BY <1>6, <3>0, <3>1
    <3>2. CASE j # k
      <4>1. hits[j] = seen.hits[j] /\ (j \in seen.rest => j \in rest)
        BY <1>6, <3>2 DEF rest
      <4> QED
        BY <3>0, <4>1
    <3> QED
      BY <3>1, <3>2
  <2>3. Limit(req)' = Limit(req)
    BY <1>2 DEF Limit
  <2> QED
    BY <1>2, <1>9, <1>16, <2>1, <2>2, <2>3 DEF HitsFound
<1>19. Searching'
  BY <1>4, <1>9, <1>17, <1>18 DEF Searching, Answered, rest
<1> QED
  BY <1>11, <1>12, <1>13, <1>14, <1>15, <1>19 DEF IInv

LEMMA HydrateStep ==
  ASSUME IInv, Hydrate
  PROVE  IInv'
<1>0. pc \in Calls /\ pc = "hydrate" /\ pc # "idle" /\ Reads
  BY SomeCalls DEF Hydrate
<1>1. seen \in Locals /\ HitsFound
  BY <1>0 DEF IInv, Ready, Searching
<1>2. PICK k \in DOMAIN seen.hits :
        LET c == seen.hits[k].id
        IN /\ IsNext(k)
           /\ seen' = [seen EXCEPT
                !.hits[k].key = IF InScope(c, req.slug, Unset) THEN contracts[c].key ELSE @,
                !.rest = @ \ {k}, !.outcome = Settled(k)]
           /\ Goto(After(k, "hydrate"))
  BY DEF Hydrate
<1> DEFINE c == seen.hits[k].id
<1>3. PICK v : v = IF InScope(c, req.slug, Unset) THEN contracts[c].key ELSE seen.hits[k].key
  OBVIOUS
<1>4. PICK failed \in BOOLEAN : failed = seen.failed
  BY <1>1 DEF Locals
<1>5. seen' = [seen EXCEPT !.hits = [@ EXCEPT ![k].key = v], !.rest = @ \ {k},
                           !.failed = failed, !.outcome = Settled(k)]
  BY <1>1, <1>2, <1>3, <1>4 DEF Locals
<1>6. pc' = After(k, "hydrate")
  BY <1>2 DEF Goto
<1>7. c \in Contracts /\ seen.hits[k].key \in Key \cup {Unset} /\ WasInScope(c) # {}
  <2>1. seen.hits[k] \in Hit
    BY <1>1 DEF Locals
  <2> QED
    BY <1>1, <2>1 DEF Hit, HitsFound
<1>8. contracts[c] \in was[c]
  BY <1>0, <1>7 DEF IInv, History
<1>9. CASE InScope(c, req.slug, Unset)
  <2>1. contracts[c] \in Row /\ contracts[c].project = req.slug /\ v = contracts[c].key /\ v \in Key
    BY <1>3, <1>7, <1>9, ScopeFacts DEF IInv, Row
  <2>2. v # Unset
    BY <2>1, ReadSideAssumption
  <2>3. IF v = Unset THEN Gone \in was[seen.hits[k].id] \/ failed
        ELSE \E row \in was[seen.hits[k].id] \cap Row : row.project = req.slug /\ row.key = v
    BY <1>8, <2>1, <2>2
  <2> HIDE DEF c
  <2> QED
    BY <1>0, <1>4, <1>5, <1>6, <2>1, <2>3, BlankStep
<1>10. CASE ~InScope(c, req.slug, Unset)
  <2>1. PICK row \in was[c] \cap Row : row.project = req.slug
    BY <1>7 DEF WasInScope
  <2>2. Gone \in was[c]
    <3>1. contracts[c] = Gone \/ (contracts[c] \in Row /\ contracts[c].project = row.project)
      BY <1>0, <1>7, <2>1 DEF IInv, History
    <3> QED
      BY <1>7, <1>8, <1>10, <2>1, <3>1, ScopeFacts DEF IInv
  <2>3. v = seen.hits[k].key
    BY <1>3, <1>10
  <2>4. IF v = Unset THEN Gone \in was[seen.hits[k].id] \/ failed
        ELSE \E r \in was[seen.hits[k].id] \cap Row : r.project = req.slug /\ r.key = v
    BY <1>1, <2>2, <2>3 DEF HitsFound
  <2> HIDE DEF c
  <2> QED
    BY <1>0, <1>4, <1>5, <1>6, <1>7, <2>3, <2>4, BlankStep
<1> QED
  BY <1>9, <1>10

LEMMA CallFailsStep ==
  ASSUME IInv, CallFails
  PROVE  IInv'
<1>0. pc \in Calls /\ pc # "idle" /\ Reads
  BY SomeCalls DEF CallFails, Calls
<1>1. /\ req \in Requests /\ seen \in Locals /\ ~RefusedAtOnce(req)
      /\ seen.outcome = "nothing" /\ seen.groups = {} /\ Nested(groups)
  BY <1>0 DEF IInv, Control, Ready, Tables
<1>2. req' = req /\ was' = was /\ groups' = groups
  BY <1>0, ReadsKeep DEF IInv
<1>3. CASE /\ req.op = "project_page" /\ pc \in {"again", "list"}
           /\ Goto("groups")
           /\ seen' = [seen EXCEPT !.failed = TRUE]
  <2>1. pc' = "groups" /\ pc' \in Calls
    BY <1>3, SomeCalls DEF Goto
  <2>2. req.bad = "none" /\ seen.listed = << >>
    BY <1>3, SomeCalls DEF IInv, Control
  <2>3. /\ seen' \in Locals /\ seen'.outcome = "nothing" /\ seen'.groups = {}
        /\ seen'.listed = << >>
    BY <1>1, <1>3, <2>2 DEF Locals
  <2>4. Tables' /\ History' /\ asks' \in Nat /\ writes' \in Nat
    BY <1>0, <2>1, ReadKeepsBase
  <2>5. Ready'
    BY <1>1, <1>2, <2>1, <2>3, <2>4 DEF Ready
  <2>6. Control'
    BY <1>1, <1>2, <1>3, <2>1, <2>2, <2>3 DEF Control
  <2>7. Searching' /\ Exporting' /\ Paging' /\ NotFoundIsTrue'
    BY <2>1, <2>3 DEF Searching, Exporting, Paging, HomesAreThere, NotFoundIsTrue, Answered
  <2> QED
    BY <2>4, <2>5, <2>6, <2>7 DEF IInv
<1>4. ASSUME pc = "hydrate", NEW k \in DOMAIN seen.hits,
             Goto(After(k, "hydrate")),
             seen' = [seen EXCEPT !.failed = TRUE, !.rest = @ \ {k}, !.outcome = Settled(k)]
      PROVE  IInv'
  <2>1. seen.hits[k] \in Hit /\ HitsFound
    BY <1>1, <1>4 DEF Locals, IInv, Searching
  <2>2. PICK v \in Key \cup {Unset} : v = seen.hits[k].key
    BY <2>1 DEF Hit
  <2>3. PICK failed \in BOOLEAN : failed = TRUE
    OBVIOUS
  <2>4. seen.hits = [seen.hits EXCEPT ![k].key = v]
    <3>1. seen.hits = [j \in DOMAIN seen.hits |-> seen.hits[j]]
      BY <1>1 DEF Locals
    <3>2. [seen.hits[k] EXCEPT !.key = v] = seen.hits[k]
      BY <2>1, <2>2 DEF Hit
    <3> QED
      BY <3>1, <3>2
  <2>5. seen' = [seen EXCEPT !.hits = [@ EXCEPT ![k].key = v], !.rest = @ \ {k},
                             !.failed = failed, !.outcome = Settled(k)]
    BY <1>1, <1>4, <2>3, <2>4 DEF Locals
  <2>6. pc' = After(k, "hydrate")
    BY <1>4 DEF Goto
  <2>7. IF v = Unset THEN Gone \in was[seen.hits[k].id] \/ failed
        ELSE \E row \in was[seen.hits[k].id] \cap Row : row.project = req.slug /\ row.key = v
    BY <2>1, <2>2, <2>3 DEF HitsFound
  <2> QED
    BY <1>0, <1>4, <2>3, <2>5, <2>6, <2>7, BlankStep
<1>5. ASSUME pc \notin {"again", "hydrate"}, ~(req.op = "project_page" /\ pc = "list"),
             pc' = "done",
             NEW shown,
             shown = (\/ pc = "audit" \/ (req.op = "project_page" /\ pc = "groups")
                      \/ req.op = "dashboard"),
             seen' = [seen EXCEPT !.failed = TRUE,
                                  !.outcome = IF shown THEN "ok" ELSE "internal_error"]
      PROVE  IInv'
  <2> DEFINE o == IF shown THEN "ok" ELSE "internal_error"
  <2>1. o \in Outcomes /\ o # "not_found"
    BY DEF Outcomes
  <2>2. seen' = [seen EXCEPT !.failed = TRUE, !.outcome = o]
    BY <1>5
  <2> HIDE DEF o
  <2>3. seen' \in Locals /\ seen'.outcome = o /\ seen'.failed = TRUE /\ seen'.groups = {}
    BY <1>1, <2>1, <2>2 DEF Locals
  <2>4. Tables' /\ History' /\ asks' \in Nat /\ writes' \in Nat
    BY <1>0, <1>5, ReadKeepsBase
  <2>5. Ready'
    BY <1>1, <1>2, <1>5, <2>3, <2>4 DEF Ready
  <2>6. Control'
    BY <1>1, <1>2, <1>5, DoneControlNext
  <2>7. NotFoundIsTrue'
    BY <1>1, <1>2, <2>1, <2>3, NothingMissedNext
  <2>8. Searching' /\ Exporting'
    <3>1. o = "ok" => pc = "audit" \/ req.op \in {"project_page", "dashboard"}
      BY <1>5 DEF o
    <3>2. pc = "audit" => req.op = "contract_page"
      BY DEF IInv, Control
    <3>3. o = "ok" => req.op \notin {"search", "export"}
      BY <3>1, <3>2
    <3> QED
      BY <1>2, <1>5, <2>3, <3>3 DEF Searching, Exporting, Answered
  <2>9. Paging'
    BY <1>5, <2>3 DEF Paging, PageRead
  <2> QED
    BY <2>4, <2>5, <2>6, <2>7, <2>8, <2>9 DEF IInv
<1>6. PICK shown : shown = (\/ pc = "audit" \/ (req.op = "project_page" /\ pc = "groups")
                            \/ req.op = "dashboard")
  OBVIOUS
<1> QED
  BY <1>3, <1>4, <1>5, <1>6 DEF CallFails, Goto

----------------------------------------------------------------------------
(* What writers do to what has been read                                   *)

LEMMA WritesGrow ==
  ASSUME IInv, Tables', Writes
  PROVE  /\ pc' = pc /\ req' = req /\ seen' = seen /\ asks' = asks
         /\ \A c \in Contracts : was[c] \subseteq was'[c] /\ was[c] # {}
         /\ \A c \in Contracts : WasInScope(c) \subseteq WasInScope(c)'
BY DEF IInv, History, Writes, reader, WasInScope

LEMMA WritesSearching ==
  ASSUME IInv, Tables', Writes
  PROVE  Searching'
<1>1. /\ pc' = pc /\ req' = req /\ seen' = seen
      /\ \A c \in Contracts : was[c] \subseteq was'[c]
      /\ \A c \in Contracts : WasInScope(c) \subseteq WasInScope(c)'
  BY WritesGrow
<1>2. pc \in Calls /\ pc # "done" /\ seen \in Locals
  BY DEF Writes, Calls, IInv, Ready
<1>3. \A c \in Contracts : Matches(c)' => Matches(c)
  <2> SUFFICES ASSUME NEW c \in Contracts, Matches(c)'
               PROVE  Matches(c)
    OBVIOUS
  <2>1. was'[c] = WasInScope(c)' /\ \A row \in was'[c] : row.key \in Matching
    BY DEF Matches
  <2>2. was[c] \subseteq WasInScope(c)
    BY <1>1, <2>1 DEF WasInScope
  <2> QED
    BY <1>1, <2>1, <2>2 DEF Matches, WasInScope
<1>4. Cardinality(EverMatched) > ExactLimit => Cardinality(EverMatched') > ExactLimit
  <2>1. EverMatched \subseteq EverMatched' /\ EverMatched' \subseteq Contracts
    BY <1>1 DEF EverMatched
  <2>2. IsFiniteSet(EverMatched')
    BY <2>1, ReadSideAssumption, FS_Subset
  <2>3. /\ Cardinality(EverMatched) <= Cardinality(EverMatched')
        /\ Cardinality(EverMatched) \in Nat /\ Cardinality(EverMatched') \in Nat
    BY <2>1, <2>2, FS_Subset, FS_CardinalityType
  <2> QED
    BY <2>3, ReadSideAssumption
<1>5. /\ \A k \in DOMAIN seen.exact : seen.exact[k].id \in Contracts
      /\ \A k \in DOMAIN seen.hits : seen.hits[k].id \in Contracts
  <2>1. seen.exact \in Seq(Hit) /\ seen.hits \in Seq(Hit)
    BY <1>2 DEF Locals
  <2>2. /\ \A k \in DOMAIN seen.exact : seen.exact[k] \in Hit
        /\ \A k \in DOMAIN seen.hits : seen.hits[k] \in Hit
    BY <2>1
  <2> QED
    BY <2>2 DEF Hit
<1>6. ExactFound => ExactFound'
  BY <1>1, <1>3, <1>4, <1>5 DEF ExactFound
<1>7. HitsFound => HitsFound'
  <2> SUFFICES ASSUME HitsFound PROVE HitsFound'
    OBVIOUS
  <2>1. Limit(req)' = Limit(req)
    BY <1>1 DEF Limit
  <2>2. ASSUME NEW k \in DOMAIN seen.hits
        PROVE  LET hit == seen.hits[k]
               IN /\ WasInScope(hit.id)' # {}
                  /\ IF hit.key = Unset THEN k \in seen.rest \/ Gone \in was'[hit.id] \/ seen.failed
                     ELSE \E row \in was'[hit.id] \cap Row :
                            row.project = req.slug /\ row.key = hit.key
    BY <1>1, <1>5 DEF HitsFound
  <2> QED
    BY <1>1, <2>1, <2>2 DEF HitsFound
<1> QED
  BY <1>1, <1>2, <1>6, <1>7 DEF IInv, Searching, Answered

LEMMA WritesExporting ==
  ASSUME IInv, Tables', Writes
  PROVE  Exporting'
<1>1. /\ pc' = pc /\ req' = req /\ seen' = seen
      /\ \A c \in Contracts : was[c] \subseteq was'[c] /\ was[c] # {}
  BY WritesGrow
<1>2. pc \in Calls /\ pc # "done" /\ seen \in Locals
  BY DEF Writes, Calls, IInv, Ready
<1>3. \A p \in DOMAIN seen.doc : \A m \in DOMAIN seen.doc[p] : seen.doc[p][m] \in Contracts
  <2>1. seen.doc \in Docs
    BY <1>2 DEF Locals
  <2> QED
    BY <2>1 DEF Docs
<1>4. Written => Written'
  <2> SUFFICES ASSUME Written PROVE Written'
    OBVIOUS
  <2>1. EverThere \subseteq EverThere' /\ EverThere' \subseteq Contracts /\ EverThere \subseteq Contracts
    BY <1>1 DEF EverThere
  <2>2. \A c \in Contracts : \A row \in Row : was'[c] = {row} => was[c] = {row}
    BY <1>1
  <2>3. ASSUME Cardinality(EverThere') <= ExportLimit, NEW c \in EverThere', NEW row \in Row,
               was'[c] = {row}
        PROVE  \E k \in DOMAIN seen.listed : seen.listed[k].id = c
    <3>1. was[c] = {row} /\ c \in EverThere
      BY <1>1, <2>1, <2>2, <2>3 DEF EverThere
    <3>2. IsFiniteSet(EverThere')
      BY <2>1, ReadSideAssumption, FS_Subset
    <3>3. /\ Cardinality(EverThere) <= Cardinality(EverThere')
          /\ Cardinality(EverThere) \in Nat /\ Cardinality(EverThere') \in Nat
      BY <2>1, <3>2, FS_Subset, FS_CardinalityType
    <3>4. Cardinality(EverThere) <= ExportLimit
      BY <2>3, <3>3, ReadSideAssumption
    <3> QED
      BY <3>1, <3>4 DEF Written
  <2>4. \A k \in DOMAIN seen.listed : seen.listed[k].id \in EverThere' /\ seen.listed[k].id \in Contracts
    BY <2>1 DEF Written
  <2>5. ASSUME NEW k \in DOMAIN seen.listed, NEW row \in Row, was'[seen.listed[k].id] = {row}
        PROVE  k \in seen.rest \/ HoldsAt(seen.doc, row.key, seen.listed[k].id)
    BY <2>2, <2>4, <2>5 DEF Written
  <2>6. ASSUME NEW p \in DOMAIN seen.doc, NEW m \in DOMAIN seen.doc[p]
        PROVE  \E row \in was'[seen.doc[p][m]] \cap Row :
                 row.project = req.slug /\ row.key = [path |-> p, method |-> m]
    BY <1>1, <1>3 DEF Written
  <2> QED
    BY <1>1, <2>3, <2>4, <2>5, <2>6 DEF Written
<1> QED
  BY <1>1, <1>2, <1>4 DEF IInv, Exporting, Answered

LEMMA WriteCallKeeps ==
  ASSUME IInv, WriteCall
  PROVE  IInv'
<1>1. Tables' /\ Writes
  BY WriteCallStep DEF IInv
<1>2. pc' = pc /\ req' = req /\ seen' = seen /\ asks' = asks /\ writes' \in Nat
  BY <1>1, WritesGrow DEF Writes
<1>3. pc \in Calls /\ pc # "done" /\ pc # "idle"
  BY <1>1 DEF Writes, Calls
<1>4. History'
  BY <1>1, WritesHistory DEF IInv
<1>5. Ready' /\ Control'
  BY <1>2 DEF IInv, Ready, Control
<1>6. Searching' /\ Exporting'
  BY <1>1, WritesSearching, WritesExporting
<1>7. Paging'
  <2>1. \A name : GroupsNamed(req.slug, name) \subseteq GroupsNamed(req.slug, name)'
    BY <1>1, <1>2 DEF GroupsNamed, Writes
  <2> QED
    BY <1>2, <1>3, <2>1 DEF IInv, Paging, Answered, HomesAreThere
<1>8. NotFoundIsTrue'
  BY <1>2, <1>3 DEF NotFoundIsTrue
<1> QED
  BY <1>1, <1>4, <1>5, <1>6, <1>7, <1>8 DEF IInv

LEMMA StutterKeeps ==
  ASSUME IInv, UNCHANGED vars
  PROVE  IInv'
<1>1. /\ projects' = projects /\ groups' = groups /\ contracts' = contracts /\ vectors' = vectors
      /\ pc' = pc /\ req' = req /\ seen' = seen /\ was' = was /\ lacked' = lacked
      /\ asks' = asks /\ writes' = writes
  BY DEF vars
<1>2. Tables' /\ Ready' /\ History' /\ Control'
  BY <1>1 DEF IInv, Tables, Ready, History, Control, GroupsNamed
<1>3. Searching'
  <2>1. \A c : WasInScope(c)' = WasInScope(c)
    BY <1>1 DEF WasInScope
  <2>2. /\ \A c \in Contracts : Matches(c)' <=> Matches(c)
        /\ EverMatched' = EverMatched
    BY <1>1, <2>1 DEF Matches, EverMatched
  <2>3. ExactFound' <=> ExactFound
    BY <1>1, <2>1, <2>2 DEF ExactFound
  <2>4. HitsFound' <=> HitsFound
    BY <1>1, <2>1 DEF HitsFound, Limit
  <2> QED
    BY <1>1, <2>3, <2>4 DEF IInv, Searching, Answered
<1>4. Exporting'
  <2>1. EverThere' = EverThere
    BY <1>1 DEF EverThere
  <2>2. Written' <=> Written
    BY <1>1, <2>1 DEF Written
  <2> QED
    BY <1>1, <2>2 DEF IInv, Exporting, Answered
<1>5. NotFoundIsTrue'
  BY <1>1 DEF IInv, NotFoundIsTrue, Told
<1>6. Paging'
  <2>1. \A name : GroupsNamed(req.slug, name)' = GroupsNamed(req.slug, name)
    BY <1>1 DEF GroupsNamed
  <2> QED
    BY <1>1, <2>1 DEF IInv, Paging, Answered, PageRead, HomesAreThere
<1> QED
  BY <1>2, <1>3, <1>4, <1>5, <1>6 DEF IInv

LEMMA NextPreserves == IInv /\ [Next]_vars => IInv'
<1> SUFFICES ASSUME IInv, [Next]_vars PROVE IInv'
  OBVIOUS
<1>1. CASE Arrive
  BY <1>1, ArriveStep
<1>2. CASE Read
  BY <1>2, FindProjectStep, FindProjectAgainStep, FindGroupStep, ListContractsStep,
     ListGroupsStep, ListProjectsStep, ReadContractStep, ReadAuditStep, ReadBodyStep,
     SearchExactStep, SearchSemanticStep, HydrateStep, CallFailsStep DEF Read
<1>3. CASE WriteCall
  BY <1>3, WriteCallKeeps
<1>4. CASE Finished \/ UNCHANGED vars
  BY <1>4, StutterKeeps DEF Finished
<1> QED
  BY <1>1, <1>2, <1>3, <1>4 DEF Next

----------------------------------------------------------------------------
(* The groups of a page                                                    *)

(* A group is drawn if every group above it is in the list.                *)
LEMMA ChainIsDrawn ==
  ASSUME Nested(groups), NEW list \in SUBSET DOMAIN groups, NEW g \in list, Chain(g) \subseteq list
  PROVE  g \in Drawn(list)
<1> SUFFICES ASSUME NEW S \in SUBSET list, {h \in list : groups[h].parent = Unset} \subseteq S,
                    HoldsChildren(S, list), g \notin S
             PROVE  FALSE
  BY DEF Drawn
<1>1. g \in Chain(g) \ S /\ Chain(g) \ S \in SUBSET DOMAIN groups
  BY DEF Chain
<1>2. PICK h \in Chain(g) \ S : groups[h].parent \notin Chain(g) \ S
  BY <1>1 DEF Nested
<1>3. h \in list /\ groups[h].parent # Unset
  BY <1>2
<1>4. groups[h].parent \in DOMAIN groups
  BY <1>1, <1>2, <1>3 DEF Nested
<1>5. groups[h].parent \in Chain(g)
  BY <1>2, <1>3, <1>4 DEF Chain, HoldsParents
<1>6. groups[h].parent \in S
  BY <1>2, <1>5
<1> QED
  BY <1>2, <1>3, <1>6 DEF HoldsChildren

(* and only then.                                                          *)
LEMMA DrawnHasChain ==
  ASSUME Nested(groups), NEW list \in SUBSET DOMAIN groups, NEW g \in Drawn(list)
  PROVE  Chain(g) \subseteq list
<1> DEFINE S == {h \in list : Chain(h) \subseteq list}
<1>1. Unset \notin DOMAIN groups
  BY ReadSideAssumption DEF Nested
<1>2. ASSUME NEW h \in list, groups[h].parent = Unset
      PROVE  h \in S
  <2>1. {h} \in SUBSET DOMAIN groups /\ h \in {h} /\ HoldsParents({h})
    BY <1>2 DEF HoldsParents
  <2>2. Chain(h) \subseteq {h}
    BY <2>1 DEF Chain
  <2> QED
    BY <2>2
<1>3. ASSUME NEW h \in list, groups[h].parent \in S
      PROVE  h \in S
  <2> DEFINE up == groups[h].parent
             T == {h} \cup Chain(up)
  <2>1. up \in DOMAIN groups /\ up \in Chain(up) /\ Chain(up) \subseteq list
    BY <1>3 DEF Chain
  <2>2. \A i \in Chain(up) : groups[i].parent # Unset => groups[i].parent \in Chain(up)
    <3> SUFFICES ASSUME NEW i \in Chain(up), groups[i].parent # Unset
                 PROVE  groups[i].parent \in Chain(up)
      OBVIOUS
    <3>1. i \in DOMAIN groups
      BY DEF Chain
    <3>2. groups[i].parent \in DOMAIN groups
      BY <3>1 DEF Nested
    <3> QED
      BY <3>2 DEF Chain, HoldsParents
  <2>3. T \in SUBSET DOMAIN groups /\ h \in T /\ HoldsParents(T)
    <3>1. HoldsParents(T)
      BY <2>1, <2>2 DEF HoldsParents
    <3> QED
      BY <2>1, <3>1
  <2> HIDE DEF T
  <2>4. Chain(h) \subseteq T
    BY <2>3 DEF Chain
  <2> QED
    BY <2>1, <2>4 DEF T
<1> HIDE DEF S
<1>4. {h \in list : groups[h].parent = Unset} \subseteq S /\ HoldsChildren(S, list)
  BY <1>2, <1>3 DEF HoldsChildren
<1>5. S \in SUBSET list
  BY DEF S
<1>6. g \in S
  BY <1>4, <1>5 DEF Drawn
<1> QED
  BY <1>6 DEF S

(* Where the page shows an entry whose group is one of the project's.      *)
LEMMA HomeIsShown ==
  ASSUME Nested(groups), NEW entry, entry.group # Unset,
         NEW list \in SUBSET DOMAIN groups, NEW home \in SUBSET DOMAIN groups,
         \A g \in DOMAIN groups :
           /\ g \in list <=> groups[g].project = req.slug
           /\ g \in home <=> groups[g].project = req.slug /\ groups[g].name = entry.group,
         home # {}
  PROVE  IF \E g \in home : \E h \in Chain(g) : groups[h].project # req.slug
         THEN Places(entry, list) = {}
         ELSE Cardinality(Places(entry, list)) = 1
<1>1. PICK g : home = {g} /\ g \in list /\ groups[g].name = entry.group
  BY DEF Nested
<1>2. Places(entry, list) = {h \in Drawn(list) : groups[h].name = entry.group}
  BY DEF Places
<1>3. Places(entry, list) = {g} \cap Drawn(list)
  <2>1. Drawn(list) \subseteq list
    BY DEF Drawn
  <2>2. {h \in list : groups[h].name = entry.group} = {g}
    BY <1>1
  <2> QED
    BY <1>2, <2>1, <2>2
<1>4. list \in SUBSET DOMAIN groups
  OBVIOUS
<1>5. CASE \E h \in Chain(g) : groups[h].project # req.slug
  <2>1. ~(Chain(g) \subseteq list)
    BY <1>5
  <2>2. g \notin Drawn(list)
    BY <1>4, <2>1, DrawnHasChain
  <2> QED
    BY <1>1, <1>3, <1>5, <2>2
<1>6. CASE ~\E h \in Chain(g) : groups[h].project # req.slug
  <2>1. Chain(g) \subseteq list
    BY <1>6 DEF Chain
  <2>2. g \in Drawn(list)
    BY <1>1, <1>4, <2>1, ChainIsDrawn
  <2>3. Cardinality({g}) = 1
    BY FS_Singleton
  <2> QED
    BY <1>1, <1>3, <1>6, <2>2, <2>3
<1> QED
  BY <1>5, <1>6

(* The page of a project whose groups have been read,                      *)
LEMMA PageShown ==
  ASSUME Nested(groups), seen.groups = {g \in DOMAIN groups : groups[g].project = req.slug},
         HomesAreThere
  PROVE  PageShowsEachContractOnce
<1> SUFFICES ASSUME NEW k \in DOMAIN seen.listed,
                    LET name == seen.listed[k].group
                    IN name = Unset \/ GroupsNamed(req.slug, name) # {}
             PROVE  LET entry == seen.listed[k]
                        home == {g \in DOMAIN groups : /\ groups[g].project = req.slug
                                                       /\ groups[g].name = entry.group}
                        strays == \E g \in home : \E h \in Chain(g) : groups[h].project # req.slug
                    IN IF strays THEN Places(entry, seen.groups) = {}
                       ELSE Cardinality(Places(entry, seen.groups)) = 1
  BY DEF PageShowsEachContractOnce, HomesAreThere
<1> DEFINE entry == seen.listed[k]
           home == {g \in DOMAIN groups : /\ groups[g].project = req.slug
                                          /\ groups[g].name = entry.group}
<1>1. CASE entry.group = Unset
  <2>1. home = {}
    BY <1>1, ReadSideAssumption DEF Nested, Folder
  <2>2. Places(entry, seen.groups) = {Unset}
    BY <1>1 DEF Places
  <2>3. Cardinality({Unset}) = 1
    BY FS_Singleton
  <2> QED
    BY <2>1, <2>2, <2>3
<1>2. CASE entry.group # Unset
  <2>1. home # {}
    BY <1>2 DEF GroupsNamed
  <2>2. /\ seen.groups \in SUBSET DOMAIN groups /\ home \in SUBSET DOMAIN groups
        /\ \A g \in DOMAIN groups :
             /\ g \in seen.groups <=> groups[g].project = req.slug
             /\ g \in home <=> groups[g].project = req.slug /\ groups[g].name = entry.group
    OBVIOUS
  <2> HIDE DEF entry, home
  <2>3. IF \E g \in home : \E h \in Chain(g) : groups[h].project # req.slug
        THEN Places(entry, seen.groups) = {}
        ELSE Cardinality(Places(entry, seen.groups)) = 1
    BY <1>2, <2>1, <2>2, HomeIsShown
  <2> USE DEF entry, home
  <2> QED
    BY <2>3
<1> QED
  BY <1>1, <1>2

(* and of one whose groups have not.                                       *)
LEMMA PageFailed ==
  ASSUME Nested(groups), seen.groups = {}, seen.failed
  PROVE  PageShowsEachContractOnce
<1> SUFFICES ASSUME NEW entry, NEW g \in DOMAIN groups,
                    groups[g].name = entry.group
             PROVE  Places(entry, seen.groups) = {}
  BY DEF PageShowsEachContractOnce
<1>1. entry.group # Unset
  BY ReadSideAssumption DEF Nested, Folder
<1>2. Drawn({}) = {}
  BY DEF Drawn
<1> QED
  BY <1>1, <1>2 DEF Places

----------------------------------------------------------------------------
(* The theorems                                                            *)

THEOREM Invariance == Spec => []IInv
<1>1. Init => IInv
  BY InitEstablishes
<1>2. IInv /\ [Next]_vars => IInv'
  BY NextPreserves
<1> QED
  BY <1>1, <1>2, PTL DEF Spec

(* TypeOK: the tables and the reader's locals stay within their types.     *)
THEOREM Typed == Spec => []TypeOK
<1>1. IInv => TypeOK
  <2> SUFFICES ASSUME IInv PROVE TypeOK
    OBVIOUS
  <2>1. /\ projects \subseteq Slugs
        /\ DOMAIN groups \subseteq Groups /\ \A g \in DOMAIN groups : groups[g] \in Folder
        /\ contracts \in [Contracts -> Row \cup {Unset, Gone}]
        /\ DOMAIN vectors \subseteq Contracts /\ \A c \in DOMAIN vectors : vectors[c] \in Key
    BY DEF IInv, Tables, Nested, Placed
  <2>2. /\ pc \in Calls \cup {"idle", "done"} /\ req \in Requests \cup {Unset}
        /\ asks \in Nat /\ writes \in Nat /\ seen \in Locals
    BY DEF IInv, Ready
  <2> QED
    BY <2>1, <2>2 DEF TypeOK, Locals
<1> QED
  BY <1>1, Invariance, PTL

(* SearchHitsWereThere: what a search returns was in the project and the   *)
(* group asked for while it ran.                                           *)
THEOREM HitsWereThere == Spec => []SearchHitsWereThere
<1>1. IInv => SearchHitsWereThere
  <2> SUFFICES ASSUME IInv, Answered({"search"})
               PROVE  /\ Len(seen.hits) <= MaxLimit
                      /\ \A i, j \in DOMAIN seen.hits : seen.hits[i].id = seen.hits[j].id => i = j
                      /\ \A k \in DOMAIN seen.hits :
                           LET hit == seen.hits[k]
                           IN /\ WasInScope(hit.id) # {}
                              /\ IF hit.key = Unset THEN Gone \in was[hit.id] \/ seen.failed
                                 ELSE \E row \in was[hit.id] \cap Row :
                                        row.project = req.slug /\ row.key = hit.key
    BY DEF SearchHitsWereThere
  <2>1. req \in Requests /\ req.op = "search" /\ seen \in Locals
    BY DEF IInv, Control, Ready, Answered
  <2>2. HitsFound /\ seen.rest = {}
    BY DEF IInv, Searching
  <2>3. Len(seen.hits) <= MaxLimit
    <3>1. Len(seen.hits) \in Nat
      <4>1. seen.hits \in Seq(Hit)
        BY <2>1 DEF Locals
      <4> QED
        BY <4>1, LenProperties
    <3>2. Limit(req) \in Nat /\ Limit(req) <= MaxLimit /\ MaxLimit \in Nat
      BY <2>1, LimitFacts, ReadSideAssumption
    <3> QED
      BY <2>2, <3>1, <3>2 DEF HitsFound, Fused
  <2>4. \A i, j \in DOMAIN seen.hits : seen.hits[i].id = seen.hits[j].id => i = j
    BY <2>2 DEF HitsFound, Fused
  <2> QED
    BY <2>2, <2>3, <2>4 DEF HitsFound
<1> QED
  BY <1>1, Invariance, PTL

(* SearchFindsWhatStays: a search finds what matches in all the time it    *)
(* takes, and what both halves of it found comes first.                    *)
THEOREM FindsWhatStays == Spec => []SearchFindsWhatStays
<1>1. IInv => SearchFindsWhatStays
  <2> SUFFICES ASSUME IInv, Answered({"search"})
               PROVE  LET ids == {seen.hits[k].id : k \in DOMAIN seen.hits}
                          matched == {c \in Contracts :
                                        \E row \in WasInScope(c) : row.key \in Matching}
                      IN /\ \A c \in Contracts :
                              req.mode # "semantic" /\ was[c] = WasInScope(c)
                                /\ (\A row \in was[c] : row.key \in Matching)
                                /\ Cardinality(was[c]) = 1 =>
                                c \in ids \/ Cardinality(matched) > ExactLimit
                                  \/ Len(seen.hits) >= Limit(req)
                         /\ \A i, j \in DOMAIN seen.hits :
                              Agreed(seen.hits[j].id) /\ ~Agreed(seen.hits[i].id) => j < i
                         /\ \A c \in Contracts \ ids : Agreed(c) => \A d \in ids : Agreed(d)
    BY DEF SearchFindsWhatStays
  <2>1. ExactFound /\ HitsFound
    BY DEF IInv, Searching
  <2>2. Fused(seen.exact, seen.semantic, Limit(req), seen.hits)
    BY <2>1 DEF HitsFound
  <2> DEFINE ids == {seen.hits[k].id : k \in DOMAIN seen.hits}
  <2>3. \A c : Agreed(c) <=> InBoth(seen.exact, seen.semantic, c)
    BY DEF Agreed, InBoth
  <2>4. ASSUME NEW c \in Contracts, req.mode # "semantic", Matches(c)
        PROVE  c \in ids \/ Cardinality(EverMatched) > ExactLimit \/ Len(seen.hits) >= Limit(req)
    <3>1. CASE \E k \in DOMAIN seen.exact : seen.exact[k].id = c
      BY <2>2, <3>1 DEF Fused
    <3>2. CASE ~\E k \in DOMAIN seen.exact : seen.exact[k].id = c
      BY <2>1, <2>4, <3>2 DEF ExactFound
    <3> QED
      BY <3>1, <3>2
  <2>5. \A i, j \in DOMAIN seen.hits : Agreed(seen.hits[j].id) /\ ~Agreed(seen.hits[i].id) => j < i
    BY <2>2, <2>3 DEF Fused
  <2>6. \A c \in Contracts \ ids : Agreed(c) => \A d \in ids : Agreed(d)
    BY <2>2, <2>3 DEF Fused
  <2> QED
    BY <2>4, <2>5, <2>6 DEF Matches, EverMatched
<1> QED
  BY <1>1, Invariance, PTL

(* ExportKeepsWhatStays: an export has what was there all the time, under  *)
(* its path and method, and nothing where it has never been.               *)
THEOREM ExportKeeps == Spec => []ExportKeepsWhatStays
<1>1. IInv => ExportKeepsWhatStays
  <2> SUFFICES ASSUME IInv, Answered({"export"}) PROVE ExportKeepsWhatStays
    BY DEF ExportKeepsWhatStays
  <2>1. Written /\ seen.rest = {}
    BY DEF IInv, Exporting
  <2>2. ASSUME NEW c \in Contracts, NEW row \in was[c] \cap Row, was[c] = {row},
               row.project = req.slug, Cardinality(EverThere) <= ExportLimit
        PROVE  HoldsAt(seen.doc, row.key, c)
    <3>1. c \in EverThere
      BY <2>2 DEF EverThere
    <3>2. PICK k \in DOMAIN seen.listed : seen.listed[k].id = c
      BY <2>1, <2>2, <3>1 DEF Written
    <3> QED
      BY <2>1, <2>2, <3>2 DEF Written
  <2>3. \A p \in DOMAIN seen.doc : \A m \in DOMAIN seen.doc[p] :
          \E row \in was[seen.doc[p][m]] \cap Row :
            row.project = req.slug /\ row.key = [path |-> p, method |-> m]
    BY <2>1 DEF Written
  <2> QED
    BY <2>2, <2>3 DEF ExportKeepsWhatStays, HoldsAt, EverThere
<1> QED
  BY <1>1, Invariance, PTL

(* PageShowsEachContractOnce: the page of a project shows each contract of *)
(* its list in one place, or for a stated reason in none.                  *)
THEOREM PageShows == Spec => []PageShowsEachContractOnce
<1>1. IInv => PageShowsEachContractOnce
  <2> SUFFICES ASSUME IInv, Answered({"project_page"}) PROVE PageShowsEachContractOnce
    BY DEF PageShowsEachContractOnce
  <2>1. Nested(groups) /\ PageRead
    BY DEF IInv, Tables, Paging
  <2> QED
    BY <2>1, PageShown, PageFailed DEF PageRead
<1> QED
  BY <1>1, Invariance, PTL

(* NotFoundIsTrue: what a client is told is missing was missing, or the    *)
(* answer is one of the exceptions that the property lists.                *)
THEOREM NotFoundTrue == Spec => []NotFoundIsTrue
<1>1. IInv => NotFoundIsTrue
  BY DEF IInv
<1> QED
  BY <1>1, Invariance, PTL
=============================================================================
