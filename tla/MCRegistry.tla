----------------------------- MODULE MCRegistry -----------------------------
(***************************************************************************)
(* Instances of the contract registry for TLC: which requests the clients  *)
(* of each run send, and how similar two vectors are.                      *)
(***************************************************************************)
EXTENDS RegistryProperties, TLC

CONSTANTS t1, t2, p1, p2, n1, k1, k2, s1, s2, bad

TaskSymmetry == Permutations({t1, t2})

(* Equal vectors are as similar as can be, two that share the text are     *)
(* similar above the threshold 2, any others below it.                     *)
MCSimilarity ==
  [vw \in Vectors \X Vectors |->
     IF vw[1] = vw[2] THEN 3 ELSE IF vw[1][2] = vw[2][2] THEN 2 ELSE 1]

Creates(ps, ks, ts, ns, forces) ==
  [op : {"create"}, project : ps, id : {NoId}, key : ks, text : ts, name : ns,
   parent : {NoId}, force : forces]

Updates(ps, is, ks, ts, ns) ==
  [op : {"update"}, project : ps, id : is, key : ks, text : ts, name : ns,
   parent : {NoId}, force : {FALSE}]

Deletes(ps, is) ==
  [op : {"delete"}, project : ps, id : is, key : {Unset}, text : {Unset},
   name : {Unset}, parent : {NoId}, force : {FALSE}]

CreateGroups(ps, ns, parents) ==
  [op : {"create_group"}, project : ps, id : {NoId}, key : {Unset}, text : {Unset},
   name : ns, parent : parents, force : {FALSE}]

(* Two requests at a time on one or two contracts of one project, with a   *)
(* group, beside a second project with a group of the same name.           *)
ConcurrentRequests ==
  Creates({p1}, {k1, k2}, {s1}, {Unset, n1}, {TRUE})
    \cup Creates({p2}, {k1}, {s1}, {n1}, {FALSE})
    \cup Updates({p1}, {1, 2}, {k1, Unset}, {s2, Unset}, {n1, Unset, Blank})
    \cup Deletes({p1}, {1})
    \cup CreateGroups({p1}, {n1}, {NoId, 7})

(* As above with less choice: for the runs that look for an orphan vector   *)
(* or an unlogged group.                                                   *)
PlainRequests ==
  Creates({p1}, {k1}, {s1}, {n1}, {TRUE, FALSE})
    \cup Updates({p1}, {1}, {Unset}, {s2, Unset}, {n1, Blank})
    \cup Deletes({p1}, {1})
    \cup CreateGroups({p1}, {n1}, {NoId})

(* For the run with faults and liveness: near duplicates in two projects,  *)
(* a group, updates of key and text, one of them refused after its commit. *)
FaultyRequests ==
  Creates({p1}, {k1}, {s1}, {n1}, {FALSE})
    \cup Creates({p1}, {k2}, {s1, s2}, {Unset}, {FALSE})
    \cup Creates({p2}, {k1}, {s1}, {Unset}, {TRUE})
    \cup Updates({p1}, {1}, {k2, Unset}, {s2, bad}, {n1, Unset})
    \cup Deletes({p1}, {1})
    \cup CreateGroups({p1}, {n1}, {NoId})

(* Updates that name a group beside updates that do not.                   *)
RegroupRequests ==
  Creates({p1}, {k1}, {s1}, {Unset}, {FALSE})
    \cup Updates({p1}, {1}, {Unset}, {s2}, {n1, Unset})

(* An update with a summary that create_contract refuses.                  *)
InvalidUpdateRequests ==
  Creates({p1}, {k1}, {s1, bad}, {Unset}, {FALSE})
    \cup Updates({p1}, {1}, {k2, Unset}, {s2, bad, Unset}, {Unset})

(* Creates that are near duplicates within p1, with a nearer vector in p2. *)
CrowdedRequests == Creates({p1, p2}, {k1, k2}, {s1}, {Unset}, {FALSE})
=============================================================================
