-------------------------- MODULE StartupProperties --------------------------
(***************************************************************************)
(* What a start guarantees, whatever earlier starts have left behind.      *)
(***************************************************************************)
EXTENDS Startup

(* The tables and every process's locals stay within their types.          *)
TypeOK ==
  /\ made \in [Migrations -> Nat] /\ \A m \in Migrations : made[m] <= Statements[m]
  /\ recorded \subseteq Migrations
  /\ DOMAIN users \subseteq Names /\ \A n \in DOMAIN users : users[n] \in Passwords
  /\ contracts \in Seq(Row \cup {Gone})
  /\ at \in [Procs -> States]
  /\ mark \in [Procs -> Mark]
  /\ starts \in Nat /\ edits \in Nat
  /\ cut \subseteq Migrations

(* A server that answers requests has the whole schema under it, and an    *)
(* account to sign in with; and once a migration has been cut off between  *)
(* its first statement and its record, no server ever serves again: every  *)
(* start stops at the table that exists.                                   *)
ServesOnlyWhatIsReady ==
  \A p \in Procs : at[p] = "serving" =>
    /\ cut = {}
    /\ recorded = Migrations
    /\ \A m \in Migrations : made[m] = Statements[m]
    /\ DOMAIN users # {}

(* A start that has the database to itself stops for one of four reasons,  *)
(* each at its own statement: a migration meets what an earlier start, cut *)
(* off in it, has left; the password is too short to be hashed; there are  *)
(* no users and the settings do not provide the admin; the model or the    *)
(* port is not to be had.                                                  *)
FailsOnlyForAReason ==
  [][\A p \in Procs : at'[p] = "failed" /\ at[p] # "failed" /\ mark[p].alone =>
       \/ at[p] = "apply" /\ mark[p].step \in cut
       \/ at[p] = "count" /\ mark[p].config.password \in ShortPasswords
       \/ at[p] = "count" /\ DOMAIN users = {} /\ ~CanSeed(mark[p].config)
       \/ at[p] = "load"]_vars

(* Once there are users, the settings of the first admin are ignored: they *)
(* stop no start.                                                          *)
SettingsIgnoredOnceUsersExist ==
  [][\A p \in Procs : at[p] = "count" /\ at'[p] = "failed" => DOMAIN users = {}]_vars

Advances(p) == at[p] \in Starting /\ <<at'[p], mark'[p]>> # <<at[p], mark[p]>>

(* A start only adds: to no user does it give another password, from no    *)
(* contract does it take an example, and the columns stay as they are.     *)
StartsOverwriteNothing ==
  [][\A p \in Procs : Advances(p) =>
       /\ \A n \in DOMAIN users : n \in DOMAIN users' /\ users'[n] = users[n]
       /\ \A c \in Alive :
            /\ contracts'[c].request = contracts[c].request
            /\ contracts'[c].response = contracts[c].response
            /\ \A k \in DOMAIN contracts[c].examples :
                 \E l \in DOMAIN contracts'[c].examples :
                   contracts'[c].examples[l] = contracts[c].examples[k]]_vars

(* The old columns and the first example of a contract part ways in one    *)
(* kind of step only: the backfill of a row that another server has        *)
(* changed since it was selected.                                          *)
MirrorBreaksOnlyByStaleBackfill ==
  [][\A c \in Alive \cap Alive' : Mirrors(contracts[c]) /\ ~Mirrors(contracts'[c]) =>
       \E p \in Procs : at[p] = "backfill" /\ ~mark[p].alone
         /\ \E row \in mark[p].rows : row.contract = c /\ row \notin mark'[p].rows
              /\ ~(contracts[c].request = row.request /\ contracts[c].response = row.response
                     /\ contracts[c].examples = << >>)]_vars

(* However many starts were cut off before it, the backfill of a start     *)
(* that has the database to itself leaves no complete pair of the old      *)
(* columns without an example.                                             *)
BackfillIsComplete ==
  \A p \in Procs : at[p] \in {"count", "seed", "load"} /\ mark[p].alone =>
    \A c \in Alive : ~Lacks(contracts[c])

(* An example is known by its name within its contract.                    *)
ExampleNamesAreUnique ==
  \A c \in Alive : UniqueExamples(contracts[c])

(* A start comes to an end: the server serves or the process is gone.      *)
EveryStartEnds ==
  \A p \in Procs : at[p] \in Starting ~> at[p] \notin Starting
=============================================================================
