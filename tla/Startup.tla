------------------------------- MODULE Startup -------------------------------
(***************************************************************************)
(* The start of a ledgapi server (bootstrap.rs, db/pool.rs,                *)
(* db/migrations.rs, bootstrap_admin.rs) on a database that an earlier     *)
(* version, or an earlier start that was cut off, has left behind, and     *)
(* that another server may have open.                                      *)
(*                                                                         *)
(* Every SQL statement of a start commits on its own: execute_batch opens  *)
(* no transaction.  A statement is one atomic step, at[p] names the one    *)
(* process p makes next, and a process may be killed between any two.      *)
(* A serving process changes the contracts and the users; those changes    *)
(* are modelled in Registry and Accounts and are single steps here, with   *)
(* the examples of the contracts in full (Examples).                       *)
(***************************************************************************)
EXTENDS Examples

CONSTANTS
  Procs,            \* server processes
  Statements,       \* of each migration in order, how many statements create something
  Repeatable,       \* migrations of IF NOT EXISTS statements only
  ExamplesSince,    \* the migration that makes contract_examples
  UsersSince,       \* the migration that makes users
  Names,            \* user names
  RejectedNames,    \* those UserCreate::validate refuses
  Passwords,
  ShortPasswords,   \* those hash_password refuses
  Configs,          \* the initial_admin_* settings a process is started with
  OldVersions,      \* how many migrations earlier versions had; 0: no database yet
  OldUsers,         \* the users table an earlier version may have left
  OldContracts,     \* the contracts it may have left
  Inputs,           \* creates and patches that clients send
  MaxStarts,        \* bound: how many processes are started
  MaxEdits,         \* bound: how many changes clients make
  Gone              \* a deleted contract

Migrations == DOMAIN Statements

Config == [username : Names \cup {Unset}, password : Passwords \cup {Unset}]

ASSUME StartupAssumption ==
  /\ Statements \in Seq(Nat \ {0})
  /\ Repeatable \subseteq Migrations
  /\ {ExamplesSince, UsersSince} \subseteq Migrations
  /\ RejectedNames \subseteq Names /\ ShortPasswords \subseteq Passwords
  /\ Configs \subseteq Config
  /\ \A u \in OldUsers : DOMAIN u \subseteq Names /\ \A n \in DOMAIN u : u[n] \in Passwords
  /\ OldContracts \subseteq Seq(Row)
  /\ \A rows \in OldContracts : \A c \in DOMAIN rows :
       Mirrors(rows[c]) /\ UniqueExamples(rows[c])
  /\ OldVersions \subseteq Migrations \cup {0}
  /\ Inputs \subseteq Input
  /\ MaxStarts \in Nat /\ MaxEdits \in Nat
  /\ Gone \notin Row /\ Unset \notin Names \cup Passwords

VARIABLES
  made,       \* how many statements of each migration have been executed
  recorded,   \* table _migrations
  users,      \* table users: the password of each name
  contracts,  \* tables contracts and contract_examples, in insertion order
  at,         \* the next statement of each process
  mark,       \* the local variables of each process
  starts,     \* processes still to be started
  edits,      \* changes still to come
  cut         \* history: migrations, not repeatable, that a process was killed in

tables == <<made, recorded, users, contracts>>
vars   == <<made, recorded, users, contracts, at, mark, starts, edits, cut>>

Starting == {"check", "apply", "record", "select", "backfill", "count", "seed", "load"}
States   == Starting \cup {"down", "failed", "serving"}

(* A row read by backfill_legacy_examples.                                 *)
Legacy == [contract : Nat, request : Values, response : Values]

(* The migration and statement at hand, the rows still to backfill, the    *)
(* settings, and (history) whether no other process has been up since the  *)
(* start.                                                                  *)
Mark == [step : Nat, statement : Nat, rows : SUBSET Legacy,
         config : Config \cup {Unset}, alone : BOOLEAN]

NoMark == [step |-> 1, statement |-> 1, rows |-> {}, config |-> Unset, alone |-> TRUE]

Down(p) == at[p] \in {"down", "failed"}
Alive   == {c \in DOMAIN contracts : contracts[c] # Gone}

Goto(p, state) == at' = [at EXCEPT ![p] = state]

(* The start returns an error and main ends.  A migration left half done   *)
(* stays so.                                                               *)
Stop(p, state) ==
  /\ Goto(p, state)
  /\ mark' = [mark EXCEPT ![p] = NoMark]
  /\ cut' = IF mark[p].step \notin Repeatable
               /\ (at[p] = "record" \/ (at[p] = "apply" /\ mark[p].statement > 1))
            THEN cut \cup {mark[p].step} ELSE cut

(* Mutated form: a failed start begins again in the same process.           *)
FailByRetrying(p) ==
  /\ Goto(p, "check")
  /\ mark' = [mark EXCEPT ![p].step = 1, ![p].rows = {}]
  /\ UNCHANGED <<tables, cut>>

Fail(p) == Stop(p, "failed") /\ UNCHANGED tables

----------------------------------------------------------------------------
(* The start                                                               *)

(* bootstrap::run; the settings come from the environment.                 *)
Start(p) ==
  /\ Down(p) /\ starts > 0
  /\ starts' = starts - 1
  /\ Goto(p, "check")
  /\ \E config \in Configs :
       mark' = [q \in Procs |->
         IF q = p THEN [NoMark EXCEPT !.config = config, !.alone = \A r \in Procs \ {p} : Down(r)]
         ELSE IF Down(q) THEN mark[q] ELSE [mark[q] EXCEPT !.alone = FALSE]]
  /\ UNCHANGED <<tables, edits, cut>>

(* Mutated form: a migration is known by the first thing it creates.       *)
AppliedByItsTable(m) == made[m] > 0

(* EXISTS(SELECT 1 FROM _migrations WHERE name = ?)                        *)
Applied(m) == m \in recorded

(* The loop over MIGRATIONS; after the last one, the backfill.             *)
CheckMigration(p) ==
  LET m == mark[p].step
  IN /\ at[p] = "check"
     /\ \/ /\ m \notin Migrations
           /\ Goto(p, "select") /\ UNCHANGED mark
        \/ /\ m \in Migrations /\ Applied(m)
           /\ mark' = [mark EXCEPT ![p].step = m + 1]
           /\ UNCHANGED at
        \/ /\ m \in Migrations /\ ~Applied(m)
           /\ mark' = [mark EXCEPT ![p].statement = 1]
           /\ Goto(p, "apply")
     /\ UNCHANGED <<tables, starts, edits, cut>>

(* A statement finds that what it creates is there already.                *)
Exists(m, k) == made[m] >= k

(* One statement of execute_batch.                                         *)
ApplyStatement(p) ==
  LET m == mark[p].step
      k == mark[p].statement
  IN /\ at[p] = "apply"
     /\ \/ /\ Exists(m, k) /\ m \notin Repeatable
           /\ Fail(p)
        \/ /\ ~Exists(m, k) \/ m \in Repeatable
           /\ made' = [made EXCEPT ![m] = IF Exists(m, k) THEN @ ELSE k]
           /\ IF k < Statements[m]
              THEN mark' = [mark EXCEPT ![p].statement = k + 1] /\ UNCHANGED at
              ELSE Goto(p, "record") /\ UNCHANGED mark
           /\ UNCHANGED <<recorded, users, contracts, cut>>
     /\ UNCHANGED <<starts, edits>>

(* INSERT INTO _migrations; the name is unique.                            *)
RecordMigration(p) ==
  LET m == mark[p].step
  IN /\ at[p] = "record"
     /\ \/ m \in recorded /\ Fail(p)
        \/ /\ m \notin recorded
           /\ recorded' = recorded \cup {m}
           /\ mark' = [mark EXCEPT ![p].step = m + 1]
           /\ Goto(p, "check")
           /\ UNCHANGED <<made, users, contracts, cut>>
     /\ UNCHANGED <<starts, edits>>

(* The SELECT of backfill_legacy_examples.                                 *)
SelectLegacy(p) ==
  /\ at[p] = "select"
  /\ mark' = [mark EXCEPT ![p].rows =
       {[contract |-> c, request |-> contracts[c].request, response |-> contracts[c].response] :
          c \in {d \in Alive : Lacks(contracts[d])}}]
  /\ Goto(p, "backfill")
  /\ UNCHANGED <<tables, starts, edits, cut>>

(* Its INSERT for one row.  The contract may be gone by now (the foreign   *)
(* key fails) or have an example of that name.                             *)
BackfillRow(p, row) ==
  LET c == row.contract
      refused == c \in Alive => HasExample(contracts[c], Default)
  IN /\ at[p] = "backfill"
     /\ row \in mark[p].rows
     /\ \/ refused /\ Fail(p)
        \/ /\ ~refused
           /\ contracts' = [contracts EXCEPT ![c] = WithDefault(@, row.request, row.response)]
           /\ mark' = [mark EXCEPT ![p].rows = @ \ {row}]
           /\ UNCHANGED <<made, recorded, users, at, cut>>
     /\ UNCHANGED <<starts, edits>>

(* Mutated form: not every row is waited for.                               *)
EndBackfillEarly(p) ==
  /\ at[p] = "backfill"
  /\ Goto(p, "count")
  /\ UNCHANGED <<tables, mark, starts, edits, cut>>

EndBackfill(p) ==
  /\ at[p] = "backfill"
  /\ mark[p].rows = {}
  /\ Goto(p, "count")
  /\ UNCHANGED <<tables, mark, starts, edits, cut>>

(* Mutated form: the users are not counted.                                 *)
AdminIsNeeded == TRUE

(* users().count() == 0                                                    *)
NoUsers == DOMAIN users = {}

(* ensure's checks of the settings.                                        *)
CanSeed(config) ==
  config.username # Unset /\ config.password # Unset /\ config.username \notin RejectedNames

(* The password is hashed first, needed or not; then the users are counted *)
(* and the settings checked.                                               *)
CountUsers(p) ==
  LET config == mark[p].config
      tooShort == config.password \in ShortPasswords
      needed   == NoUsers
  IN /\ at[p] = "count"
     /\ \/ (tooShort \/ (needed /\ ~CanSeed(config))) /\ Fail(p)
        \/ /\ ~tooShort /\ (needed => CanSeed(config))
           /\ Goto(p, IF needed THEN "seed" ELSE "load")
           /\ UNCHANGED <<tables, mark, cut>>
     /\ UNCHANGED <<starts, edits>>

(* Mutated form: ON CONFLICT the password is replaced.                     *)
Seedable(name) == TRUE

(* username TEXT NOT NULL UNIQUE                                           *)
NameIsFree(name) == name \notin DOMAIN users

Put(f, x, v) == [y \in DOMAIN f \cup {x} |-> IF y = x THEN v ELSE f[y]]

(* users().create                                                          *)
SeedAdmin(p) ==
  LET config == mark[p].config
  IN /\ at[p] = "seed"
     /\ \/ ~NameIsFree(config.username) /\ Fail(p)
        \/ /\ NameIsFree(config.username)
           /\ users' = Put(users, config.username, config.password)
           /\ Goto(p, "load")
           /\ UNCHANGED <<made, recorded, contracts, mark, cut>>
     /\ UNCHANGED <<starts, edits>>

(* The embedding model is loaded and the port bound, or one of them fails. *)
LoadModel(p) ==
  /\ at[p] = "load"
  /\ \/ Fail(p)
     \/ Goto(p, "serving") /\ UNCHANGED <<tables, mark, cut>>
  /\ UNCHANGED <<starts, edits>>

(* The process is killed, or told to stop.                                 *)
Crash(p) ==
  /\ ~Down(p)
  /\ Stop(p, "down")
  /\ UNCHANGED <<tables, starts, edits>>

----------------------------------------------------------------------------
(* A serving process                                                       *)

Edit(p) == at[p] = "serving" /\ edits > 0 /\ edits' = edits - 1

CreateContract(p) ==
  /\ Edit(p)
  /\ \E input \in Inputs :
       /\ Accepted(input)
       /\ contracts' = Append(contracts, Prepared(input))
  /\ UNCHANGED <<made, recorded, users, at, mark, starts, cut>>

UpdateContract(p) ==
  /\ Edit(p)
  /\ \E c \in Alive, patch \in Inputs :
       /\ Accepted(patch)
       /\ contracts' = [contracts EXCEPT ![c] = Merged(@, patch)]
  /\ UNCHANGED <<made, recorded, users, at, mark, starts, cut>>

DeleteContract(p) ==
  /\ Edit(p)
  /\ \E c \in Alive : contracts' = [contracts EXCEPT ![c] = Gone]
  /\ UNCHANGED <<made, recorded, users, at, mark, starts, cut>>

(* An admin adds a user or gives one a new password.                       *)
EditUser(p) ==
  /\ Edit(p)
  /\ \E n \in Names \ RejectedNames, password \in Passwords \ ShortPasswords :
       users' = Put(users, n, password)
  /\ UNCHANGED <<made, recorded, contracts, at, mark, starts, cut>>

----------------------------------------------------------------------------

(* The database that a version with that many migrations left, or none.    *)
LeftBy(version) ==
  /\ recorded = 1..version
  /\ made = [m \in Migrations |-> IF m <= version THEN Statements[m] ELSE 0]
  /\ contracts \in
       {rows \in OldContracts \cup {<< >>} :
          /\ version = 0 <=> rows = << >>
          /\ version < ExamplesSince => \A c \in DOMAIN rows : rows[c].examples = << >>}
  /\ users \in IF version >= UsersSince THEN OldUsers ELSE {<< >>}

Init ==
  /\ \E version \in OldVersions : LeftBy(version)
  /\ at = [p \in Procs |-> "down"]
  /\ mark = [p \in Procs |-> NoMark]
  /\ starts = MaxStarts
  /\ edits = MaxEdits
  /\ cut = {}

StartStep(p) ==
  \/ CheckMigration(p) \/ ApplyStatement(p) \/ RecordMigration(p)
  \/ SelectLegacy(p) \/ (\E row \in mark[p].rows : BackfillRow(p, row)) \/ EndBackfill(p)
  \/ CountUsers(p) \/ SeedAdmin(p) \/ LoadModel(p)

ServerStep(p) == CreateContract(p) \/ UpdateContract(p) \/ DeleteContract(p) \/ EditUser(p)

Next == \E p \in Procs : Start(p) \/ StartStep(p) \/ Crash(p) \/ ServerStep(p)

(* A start waits for nothing, so it goes on by itself.                     *)
Fairness == \A p \in Procs : WF_vars(StartStep(p))

Spec == Init /\ [][Next]_vars /\ Fairness
=============================================================================
