# ledgapi in TLA+

ledgapi is a registry of API contracts for agents: a Rust server (Axum) with an
MCP endpoint, a small web UI, an OAuth authorization server and one SQLite
database with the sqlite-vec extension. This directory holds a TLA+ model of its
core, the TLC runs that check it and theorems proved with TLAPS.

Paths below are relative to the repository (`src/domain/...` is
`src/src/domain/...` in PROJECT.json).

## Inventory

All state is in the database. `infra/db/pool.rs` wraps the one connection in a
mutex; a repository method holds it from start to end inside `spawn_blocking`
and never across an await. So **a repository call is an atomic step, and a use
case, which awaits between calls, is not**. No use case opens a transaction over
several calls. This is where everything hard in the program comes from.

| Part | State | Operations | What is hard | What makes it correct |
|---|---|---|---|---|
| contract use cases (`domain/use_cases/{create,update,delete}_contract.rs`) | locals between awaits | create, update, delete | interleavings; work lost half way; stale copies; two stores without a common transaction | unique keys, groups in their project, rows, vectors and log that agree |
| contract, group, embedding, audit repositories (`infra/repos/`) | `contracts`, `contract_examples`, `groups`, `contract_embeddings`, `audit_log` | insert, update, delete, resolve, KNN search, append | unique indexes decide races; KNN over all projects | one row per (project, method, path), one group per (project, name) |
| values and validation (`domain/contract.rs`) | none | validate, normalize_path, patch, legacy examples | same rules on create and on update; idempotence | an update accepts only what a create accepts |
| OAuth (`web/oauth.rs`, `oauth_repo_sqlite.rs`) | clients, codes, access and refresh tokens | register, authorize, consent, exchange code, refresh, revoke | concurrent exchange of one code; failure between consume and issue; expiry | a code or refresh token yields at most one pair; scopes never grow |
| users, sessions, admin (`web/{admin,auth}.rs`, user and session repositories) | `users`, `web_sessions` | login, logout, create, update, reset password | read-modify-write of whole rows; role changes under way | sessions end when they should; edits do not undo each other |
| start-up (`bootstrap.rs`, `infra/db/migrations.rs`, `bootstrap_admin.rs`) | `_migrations`, first admin | migrate, backfill, create admin | crash between statement and record; restart | a server serves only a complete schema with an account; a start adds and overwrites nothing; it ends |
| projects (`manage_project.rs`) | `projects` | create, find, list | none delete or rename one | unique slug, logged |
| read side (search, list, export, group tree) | none | hybrid search, OpenAPI document, project page | answers put together from several calls while writers work; limits; rank fusion | what is shown was there, what stays is shown, what is called missing was missing |
| MCP server (`mcp/`) | none | dispatch, call a tool | errors as results | every request has one reply |
| rest (configuration, telemetry, envelope, docs pages, embedding model) | none | conversions, I/O | | |

Interactions: MCP tools and web handlers call use cases; use cases call
repositories, the embedding model and `audit::record`; the bearer and session
checks run before and hand a principal on; nothing calls back.

## Plan

In the order of importance.

1. `Registry`, `Ledger`: the contract use cases, groups, vectors and audit (done).
2. `RegistryProofs`, `RegistryLog`, `RegistryVectors`: their theorems (done).
3. `OAuth`, `Grant`: clients, codes and tokens under concurrent exchanges, expiry,
   deactivation and failures, against an abstract grant that is one baton (done), and
   `OAuthProofs`, `OAuthGrants`: their theorems (done).
4. `Accounts`: users, sessions and projects; read-modify-write of user rows, roles
   at the time of a check and at the time of use (done); `AccountsProofs`: its theorems (done).
5. `Startup` over `Examples`: migrations, backfill and first admin with kills between
   statements and a second server (done); `StartupProofs`: its theorems (done).
6. `ReadSide`: search, listing, pages, export and the MCP dispatch beside writers (done);
   `ReadSideProofs`: its theorems (done).

## Modules

| Module | Models |
|---|---|
| `Registry` | the use cases create, update and delete contract and the create_group tool as concurrent tasks over the tables |
| `Ledger` | the abstract specification: rows come, change and go in single steps, each owes one log entry, save a change whose writer is told it is refused (`AmendRefused`) |
| `RegistryProperties` | invariants, action properties, liveness, and the mapping to `Ledger` |
| `MCRegistry` | the requests and the similarity of each TLC run |
| `RegistryProofs` | theorems: type correctness with the inductive invariant, unique keys, no resurrection, groups, patches |
| `RegistryLog` | theorems: the audit log and its completeness, answers of success and refusal, the registry implements `Ledger` |
| `RegistryVectors` | theorems: what is searchable, why a vector parts from its row, why a near duplicate slips in |
| `OAuth` | registration, consent, code and refresh exchanges and the bearer check as concurrent tasks over the tables, a clock, and edits of users beside them |
| `Grant` | the abstract specification: an approved authorization is a baton that is taken up, yields one access token and is laid down as a refresh token, or is dropped |
| `OAuthProperties` | invariants, action properties and the mapping to `Grant` |
| `MCOAuth` | the forms of the TLC run |
| `OAuthProofs` | theorems: type correctness with the inductive invariant, one holder, tokens keep their grant, requests within grant and role, answered pairs are stored |
| `OAuthGrants` | theorems: what is spent stays spent, the server implements `Grant` |
| `Accounts` | login, logout, the pages of the administration and the creation of projects as concurrent tasks over users, sessions, projects and log, and a clock |
| `AccountsProperties` | authority, edits, the last admin, the log |
| `MCAccounts` | the users and requests of the TLC run |
| `AccountsProofs` | theorems: types, authority, the last admin, edits, the log |
| `Examples` | the examples of a contract and their copy in two old columns: create, patch, backfill, as functions on rows |
| `Startup` | starts of server processes, SQL statement by statement, on what earlier starts left, beside a server that changes rows; composes `Examples` |
| `StartupProperties` | what a start guarantees, and that it ends |
| `MCStartup` | the databases, settings and inputs of the TLC run |
| `StartupProofs` | theorems: what serving stands on, why starts fail, what they leave alone |
| `ReadSide` | one reader (pages, tools, search, export) call by call, and the calls of writers between |
| `ReadSideProperties` | what an answer is worth |
| `MCReadSide` | the databases and requests of the TLC run |
| `ReadSideProofs` | theorems: the same properties, for any tables, requests and limits |

### Registry and the code

`contracts`, `embeddings`, `groups`, `audit` are the tables; `issued` counts what
`Id::new()` has handed out to contracts. `pc[t]` is the repository call that task
t makes next, `local[t]` the local variables of `execute_inner`, `reply[t]` the
last answer. Actions are repository calls together with what the use case does up
to the next one:

| Action | Code |
|---|---|
| `Begin` | a request arrives, `validate` / `is_empty`, `find_by_slug` (projects never change, so reading one is no step) |
| `LoadCurrent` | update: `contracts().find_by_id`, choice of the group |
| `ResolveGroup` | `groups().resolve[_with_created]` |
| `CheckSimilar`, `Hydrate` | create: `top_k_similar`, then `find_by_id` for each match |
| `InsertContract` | create: `contracts().create` |
| `UpdateContract` | update: `contracts().update`, then `validate_merged` |
| `StoreEmbedding`, `DeleteEmbedding` | `embeddings().upsert` / `delete`, failures only logged |
| `DeleteContract` | `contracts().delete` |
| `RecordContract`, `RecordGroup` | `audit::record` |
| `Abort` | the task is lost before its next call: client gone, process stopped, or a call failed |

A `spawn_blocking` closure runs to its end even if its task is dropped while
waiting for it; that is the step followed by `Abort`. A process crash is `Abort`
of every task: the tables stay, locals do not.

Abstracted: a key stands for (method, normalised path); a text for summary and
description; an embedding for the pair it is computed from, with `Similarity` a
constant function; tags, status, schemas and examples are not kept. Validation
splits texts into accepted and `RejectedTexts`. Scope checks and refusals before
the first call leave no trace and are not modelled. `INSERT OR REPLACE` on the
vec0 table is taken to replace; if the extension refuses it, that is the failure
fault "vector". The definitions named "Mutated form" are not part of the model:
each is a plausible mistake in the definition below it, kept to show that a
property notices it.

### OAuth and the code

`clients`, `users`, `codes`, `access`, `refresh` are the tables, `minted` counts the
calls of `token::generate()` and `now` is the clock. Tasks are as in `Registry`.

| Action | Code |
|---|---|
| `Register` | `POST /oauth/register`: `create_client`, one insert |
| `BeginConsent`, `ReadPrincipal`, `ReadClient`, `StoreCode` | `POST /oauth/authorize`: the session's user, `effective_scopes`, `validate_authorize_request`, `create_authorization_code` |
| `BeginExchange`, `RedeemCode` | `grant_type=authorization_code`: `consume_authorization_code`, then the comparison of client, redirect URI and PKCE verifier |
| `BeginRefresh`, `RedeemRefresh` | `grant_type=refresh_token`: `consume_refresh_token`, then the comparison of the client |
| `ReadOwner`, `StoreAccess`, `StoreRefresh` | `issue_tokens`: the user is active, then two inserts |
| `BeginCall`, `FindToken`, `ReadBearer`, `Serve` | `bearer_auth` in front of `/mcp`: token, user, scopes narrowed to the role |
| `ChangeUser` | an administrator changes role or active flag (one `users().update`; its handler, call by call, is in `Accounts`) |
| `Tick` | time passes |
| `Abort` | the task is lost, or its next call fails |

Consuming a code or refresh token is a SELECT and an UPDATE in one transaction under
the connection mutex, so it is checked and spent in one step. Each handler reads the clock before it calls
the repository; the value read travels in `local[t].at`, so time may pass between
reading and use. Codes and tokens are random and stored as hashes; they are the
numbers of the calls that made them, and no client presents one that was not handed
out. Challenges are related to verifiers by `Digest`. `grantOf` is a history variable:
the code that a token descends from, which the program does not store. A request
without session, with a wrong csrf token, response type or challenge method changes
nothing and is not modelled; nor is `revoke_access_token`, which has no caller.

### Accounts and the code

`users`, `sessions`, `projects`, `audit` are the tables and `now` the clock. A page of
the administration passes `require_web_auth` and then, in its handler,
`session_principal_for_cookie`: two times `sessions().find` and `users().find_by_id`,
told apart by `local[t].gate`. Only the second principal is used.

| Action | Code |
|---|---|
| `Begin` | a request arrives with a cookie of a session that exists, a form that serde accepts, or a bearer token |
| `LookUpUser`, `OpenSession` | `login`: `find_by_username` of the trimmed name, password and active flag, then `sessions().create` |
| `FindSession`, `ReadOwner` | both checks of a page; the second also compares role, csrf token and the fields refused before any call |
| `RevokeSession` | `logout` |
| `ReadPage` | the users page and the audit page: one call each |
| `ReadTarget`, `WriteUser` | `handle_update_user`, `handle_reset_password`: the row is read, the form's fields put in, `manage_user::update` writes the whole row |
| `InsertUser` | `manage_user::create` |
| `ReadBearer`, `InsertProject` | the create_project tool behind its bearer check (the token itself is in `OAuth`) |
| `Record` | `audit::record` |
| `Abort` | the request is lost, or its next call fails and `IfFailed` is what it is told: logout still clears the cookie (`web/auth.rs:128`), a failing write or audit call is `flash=invalid` (`admin.rs:145`, `:233`, `:283`), a failing find has found nothing |
| `Tick` | time passes |

`merits[t]` is a history variable: what of credentials, session, admin role and write
role has been true of the author at some instant since the request arrived, and whether
the row it is about to write has changed since it was read. It is what "authority was
held" is measured against. A password stands for its hash.

### Startup, Examples and the code

`made[m]` counts the statements of migration m that have been executed, `recorded` is
`_migrations`; `users` and `contracts` are the tables a start touches. `at[p]` is the
next statement of process p.

| Action | Code |
|---|---|
| `Start` | `bootstrap::run` with some settings |
| `CheckMigration`, `ApplyStatement`, `RecordMigration` | the loop of `migrations::run`; `execute_batch` opens no transaction, so each statement commits alone |
| `SelectLegacy`, `BackfillRow`, `EndBackfill` | `backfill_legacy_examples`: one SELECT, then one INSERT per row |
| `CountUsers`, `SeedAdmin` | `hash_password`, then `bootstrap_admin::ensure`: count, checks, insert |
| `LoadModel` | the embedding model is loaded and the port bound, or the start fails |
| `Crash` | the process is killed, or told to stop |
| `CreateContract`, `UpdateContract`, `DeleteContract`, `EditUser` | a serving process changes rows: `prepare_examples`, `update`, `delete`; users |

A statement that makes something (table, index, column) fails if it exists, unless the
migration is of IF NOT EXISTS statements only (`Repeatable`: the second). Pragmas
repeat without harm and are no steps. `cut` is a history variable: the migrations a
process was killed in with something made and nothing recorded. Kind and status code of
an example are left out, a JSON value is a model value.

### ReadSide and the code

`pc` is the next repository call of the reader. A read of several calls runs in no
transaction, so every call of the writers may fall between two of its own; `was[c]`
is the history: the states contract c has been in since the request arrived.

| Action | Code |
|---|---|
| `Arrive` | the MCP `handle` and `dispatch`, or a page: what is answered or refused before any call |
| `FindProject`, `FindProjectAgain` | `build_tool_context`, the use case (`create_contract::list` too, after list_contracts has found its group), and the second look of the project page |
| `FindGroup` | `groups().find_by_name` of search and list_contracts |
| `ListContracts`, `ListGroups`, `ListProjects`, `ReadContract`, `ReadAudit` | the lists and the pages |
| `ReadBody` | the export reads each listed contract and files it (`build_doc`) |
| `SearchExact`, `SearchSemantic`, `Hydrate` | the two searches, `rrf_merge`, and one `find_by_id` for each hit without a path |
| `CallFails` | a call returns an error; the project page, the contract page and search go on without it |
| `AddProject` ... `IndexContract` | the calls of the writers |

What a query matches, how far each vector is and which path is named exactly are
constants; scores are exact fractions. The status of a contract is not kept: a list by
status (`byStatus`) may leave any part of the rows. The orders that a sort leaves open (equal scores
come from a hash map, equal times from one second) are all allowed.

## Runs

| Run | Checks | Shows |
|---|---|---|
| `registry_concurrent` | `TypeOK`, `UniqueKeys`, `GroupsStayInProject`, `AtRestAllRecorded`, `LiveContractsAreSearchable`, `NoResurrection`, `PatchTouchesOnlyItsFields` | two tasks, no faults: every interleaving keeps the tables consistent and the log complete |
| `registry_faults` | `AuditTellsTheTruth`, `SuccessMeansRecorded`, `RefusalsChangeOnlyByLateValidation`, `VectorsPartOnlyForAReason`, `DuplicatesSlipInOnlyForAReason`, `ImplementsLedger`, `EveryRequestIsAnswered` | two tasks that can be lost anywhere, vector writes that fail, updates refused after their commit: the ways in which a refusal leaves a trace, a vector parts from its row or a near duplicate slips in are the listed ones |
| `registry_invalid_update` | `ContractsStayValid` | violated: the merged contract is validated after it is committed |
| `registry_orphan_vector` | `NoOrphanVectors` | violated: delete between a writer's row and its vector |
| `registry_crowded_knn` | `DuplicatesNeedForce` | violated: neighbours in other projects use up k |
| `registry_stale_group` | `UnmentionedGroupKept` | violated: a patch writes back the group it read before an await |
| `registry_unlogged_group` | `GroupsAreLogged` | violated: create_group, and a refused create, leave a group the log does not know |
| `oauth` | `TypeOK`, `OneHolder`, `TokensKeepTheirGrant`, `RunsWithinGrantAndRole`, `AnsweredPairIsStored`, `SpentStaysSpent`, `ImplementsGrant` | two tasks racing for codes and refresh tokens while time passes, the user is demoted or deactivated and tasks are lost |
| `accounts` | `TypeOK`, `AuthorityWasHeld`, `LogIsTruthful`, `LastAdminFallsOnlyToStaleAuthority`, `EditsKeepToTheirForm` | two tasks, logins and sessions that expire, edits of users that race: authority is always recent, and the two ways in which edits go wrong are the only ones |
| `startup` | `TypeOK`, `ServesOnlyWhatIsReady`, `BackfillIsComplete`, `ExampleNamesAreUnique`, `FailsOnlyForAReason`, `StartsOverwriteNothing`, `MirrorBreaksOnlyByStaleBackfill`, `EveryStartEnds` | two processes, three starts, kills between any two statements, databases of three versions |
| `startup_short_password` | `SettingsIgnoredOnceUsersExist` | violated: the password setting is hashed before the users are counted |
| `readside` | `TypeOK`, `SearchHitsWereThere`, `SearchFindsWhatStays`, `ExportKeepsWhatStays`, `PageShowsEachContractOnce`, `NotFoundIsTrue` | every read request with three calls of writers in between and failing calls |

**Bounds.** `Budget` bounds the requests of a run: 4 in the concurrent run, 3 with
faults. Every property relates at most two requests in flight and the requests
that made the rows they meet; two tasks at a time and three or four requests let a
third party create and another delete the row in between. Two projects are there
because the KNN query and group names cross projects; two keys and two texts
because an update can move a contract onto, and off, another's key. Task
symmetry is used only where no liveness is checked. `TopK` is 1 in
the crowded run and with faults, the smallest case of a table larger than k (the code's
default is 5), and three in the other runs. With one neighbour, three
requests reach each reason of `VectorsPartOnlyForAReason` and of
`DuplicatesSlipInOnlyForAReason`: without any one of them the run finds a violation.

The OAuth run has two tasks, one user, two clients, one redirect URI, life times of one
instant and a clock with two. Four requests and edits allow consent, exchange, refresh
and one more: a second exchange or refresh of the same token, a bearer request or a
change of the user. The token forms are one that matches, one of another client and one
with the wrong verifier. Life times of one make each token valid at the instant of its
issue and expired at the next, so that both sides of the comparison, and a time read
before and used after, occur. All OAuth properties are about one grant; a second user
would only add independent copies.

The accounts run has two tasks, two super admins and four requests: two logins and two
edits are the least that let two admins demote each other, or one form overtake
another, and three of the four requests may be of one session. Sessions live one instant
and the clock has two. A third user can be created; names include one with a space too
many and one that is refused.

The startup run has the five migrations with at most two creating statements each (one is
enough to be cut off before the record, two to be cut off inside), two processes and
three starts: one cut off, one beside it, one after. Databases are of no version, of the
second (no examples, no users) and of the fifth (with a user; an empty users table arises
from the others); rows of old contracts have a complete
pair of columns, half of one, or examples. One change by a client is enough to make a row
that a backfill has read stale or to leave a new complete pair for the next start. The
run allows deadlock (`CHECK_DEADLOCK FALSE`): when no starts are left and every process
has ended, the system has stopped.

The read side run has one reader with one request and three calls of writers, over two
projects, three contracts on four keys and two groups, on four databases: one project, to
which a second is added; a tree of groups with a neighbour of another project nearer; a
project that is missing; and a group name that only the other project has. The MCP door
sends most of the requests: the doors differ in what they check first and in what they
answer, which the pages, one search and the refusals of the web door exercise. Readers change
nothing, so a second one adds nothing; three calls move a contract away, bring another
into its place and delete a third. Each limit is two or three, so that each is reached;
the 60 of the rank fusion is the code's, and the assumption that the limits are less than
60 + 2 is the code's 50. The databases are such as the registry leaves them, which
`ReadSideAssumption` states and TLC evaluates: keys are unique and groups belong to their
project (`KeysAreUnique`, `GroupsBelong` prove it of the writers), and groups form a forest
(`Nested`), since a group is made with a parent that is there and no call moves one.

**Fairness.** `FairSpec` has weak fairness on the steps of each task: the async
runtime polls every ready task, `parking_lot`'s mutex is released at the end of
each call, and no call waits for another task. `Begin` and `Abort` are not fair.
`Startup` has weak fairness on the steps of a start: it is one sequential program that
waits for nobody (a database that another process has locked makes a statement fail or
go on, never wait for ever: the busy timeout). Starts, kills and clients are not fair.

## Proofs

Every property of the passing runs but the two liveness properties is a theorem. For the
registry they hold for any sets of tasks, projects and requests, any similarity, threshold,
`TopK`, faults and budget, from `ConstantsAssumption`. No theorem has a hypothesis beyond
the assumptions on the constants.

- `TypeCorrect` (`RegistryProofs`). `TypeOK` is not inductive: that a row inserted
  is well typed depends on the request having passed validation and on which use
  case has reached the call. `Control` says both for each value of `pc`; `IInv` is
  `TypeOK /\ Control`. One lemma per action; `AnswerInv` and `GotoInv` are the two
  ways an action can end, so each action only shows its tables' types and the
  control state of its own task.
- `KeysAreUnique`, `DeletedStaysDeleted` follow from `IInv`, the
  three actions that write the table and, for the second, `DOMAIN contracts \subseteq 1..issued`.
- `GroupsBelong`: strengthened by `ResolvedGroups`, the group a task holds is one of
  its project, which survives the other tasks because groups are only added.
- `PatchesKeepToTheirFields`: only `UpdateContract` changes a row that stays, and what it
  writes is the stored row, not a copy read earlier, with the fields of the request
  put in.
- `LogTellsTheTruth` (`RegistryLog`). What the log says depends on what tasks are
  about to append, so `LogInv` adds what is owed: a task past its commit holds an
  issued id, the contract a deleting task removed is gone, and an entry for a creation or
  deletion that is still owed is neither in the log yet nor owed by a second task.
  The step lemmas show who can owe what; without `PendingApart` two deletions of one
  row could be logged twice.
- `SuccessIsRecorded`: strengthened by `ContractFirst`, the entry of the contract
  precedes that of the group a task made.
- `Refinement`: every behaviour is one of `Ledger`, with the entries tasks owe as the
  mapped set `Owed`. Each action maps to a ledger step or a stutter. An update that is
  refused after its commit changes a row and owes nothing; the ledger names that step
  (`AmendRefused`), which asks that the new text be one that is refused
  (`registry_invalid_update` shows what the documentation says of it).
- `LogIsComplete`: "at rest" is not inductive. `AllEntered` says of every state that an
  entry is in the log or owed by some task (`OnItsWay`): an action that issues or
  deletes an id makes its task owe the entry, a debt ends only where it is paid, and at
  rest nobody owes. Losing a task loses its debt, so the property, and the proof by cases,
  speak of `Faults = {}`.
- `RefusalsLeaveOneTrace`: every answer of refusal comes from a call before the commit, or
  from the update whose merged contract does not validate (`WhoRefuses`), which has written
  its one row and nothing else.

`RegistryVectors`:

- `LiveIsSearchable`: a task that is about to store a vector stays there until it has
  (`StorersStay`), and one that drops a vector belongs to a contract already gone
  (`DeletedIsGone` of `LogInv`).
- `PartingsHaveReasons`, for any interleaving and any faults. A contract is `Settled` if its
  vector is that of its row and nobody has one to store, or exactly one task has, and that
  the right one; a contract that is gone, if it has no vector or one that a task is about to drop.
  One lemma per kind of call (`InsertParts`, `UpdateParts`, ...) shows that a settled contract
  stays settled or that the call is one of `Parts`: a write while another vector of the row is
  still to be stored, a write refused late, a vector stored for a row that is gone, a vector
  call that failed or was not reached. So two crossed updates, a lost task, a late refusal and
  a late upsert are the only ways in which search can come to see something else than the row.
- `SlipsHaveReasons`, for any interleaving, faults and `TopK`. A `Rival` is a contract of the
  project, as similar as the threshold, beside which a task is about to insert without
  `force`. `LetPass` says what it means that the check let the task pass: each rival's vector was
  missing or stale, or `TopK` other vectors were as near (`LeftOut`: what KNN leaves out is no
  nearer than what it returns). `SlipStep` covers the time after the check: only a write of
  that very contract makes it a rival.

For the authorization server, for any tasks, users, clients, forms and life times:

- `TypeCorrect` (`OAuthProofs`). `IInv` adds to `TypeOK` what the next call tells about
  a task's locals (`Control`), and `NumbersApart`: the numbers a task has drawn and not
  yet stored are in no table and no other task holds them. Without the last a second
  insert could overwrite a row.
- `HoldersAreOne`, `GrantsAreKept`. `SInv` adds that a code is its own
  grant and that a task that exchanges carries the client, user and scope of the
  consent. `OneHolder` is inductive with these: a task takes a grant up only from an
  unused code or a live refresh token, which by `OneHolder` has no other holder
  (`TakeUpSafe`), and lays it down under a fresh number (`StoreRefreshSafe`).
- `DemotionsReachTokens`, `AnswersAreStored` are action properties: one lemma each shows
  which action such a step is, the invariant does the rest.
- `SpentForGood` (`OAuthGrants`). `TablesAge` says how rows age: they keep their expiry,
  what is used up stays so, and a new refresh token descends from an exchange
  (`RefreshDescends`); `Descends` says the same of a task about to redeem or exchanging.
  So whatever makes a grant alive after a step made it alive before.
- `Refinement` (`OAuthGrants`). `OneHolder` turns who holds a grant into its stage
  (`StageOfTask`, `StageOfRefresh`), and a step about one grant leaves the stage of all others
  (`OtherStages`). Then each action maps to a step of `Grant` or a stutter.

For the administration of users, for any tasks, users, requests and life times
(`AccountsProofs`): `IInv` is `TypeOK` and, for each task, `Sound`: what its call tells
about its request (`Asked`), about the merits it has gathered (`Entitled`) and about the row
it is going to write (`Drafted`). Merits are never taken back while a request is at
work, which is why a check made calls ago still counts.

- `Typed`, `AuthorityHeld` are parts of `IInv`.
- `LastAdmin`: only `WriteUser` can take the role or the active flag from anyone, and a
  task whose author is still an admin then writes a row that is not its author's
  (`LocksOut`), so one admin remains.
- `EditsKept`: the row to write is the row read with the form's fields, and as long as
  the task is not overtaken the row read is the row stored.
- `LogTruthful`: `LogInv` says of the entries owed what it says of those made: their actor
  and subject exist (`Known`, which survives because users and projects are only added), and
  no two of them, made or owed, report one creation.

For start-up, for any processes, migrations, statements, users and contracts
(`StartupProofs`, from `StartupAssumption` and `ExamplesAssumption`): `IInv` is `TypeOK`,
`ExampleNamesAreUnique` and three parts.

- `AtWork(p)`: what the next statement of a process says about the tables, e.g. that the
  migrations before the one at hand are recorded. It survives the other processes because
  the tables only grow (`Grows`).
- `Bookkept`: a migration that is neither untouched nor recorded, and is not repeatable, has
  one owner or was cut off. Two processes that start at once meet in the first statement
  of a migration, and `OwnersStand` says that the one who made it is not overtaken. From
  it and `AtWork` follows `ServesReady`.
- `Undisturbed(p)`: what a process may rely on that was alone at its start and has been
  since, above all that every row it is to backfill is still as it was read (`Fresh`) and that no other
  row lacks its example. From it follow `BackfillComplete`, `FailsForItsReasons` (with
  `Bookkept`: a table that exists was left by a cut) and, with `WithDefaultIsRow`,
  `MirrorBreaksOnlyIfStale`.

The lemmas on examples (`MergedIsRow`, `WithDefaultIsRow` and others) say what the operators of
`Examples` return: lists stay lists of examples, names stay unique, columns stay mirrored.

For the readers, for any tables, requests, limits and calls of writers (`ReadSideProofs`, from
`ReadSideAssumption`): the properties speak of an answer, so `IInv` says what the reader holds
on its way to it. TLC checked `IInv` on the instance of the `readside` run (a million
states) before it was proved.

- `Tables`, `Ready`, `History`, `Control`: the tables are as the repositories leave them, the
  reader between two requests holds nothing, `was` contains what each contract is now, and
  each call has the locals it needs. `WritesGrow` says once what all writers leave alone:
  `was` only grows, groups are only added.
- `Searching`: `ExactFound` (the list of the exact half) and `HitsFound` (what was fused,
  and which hits still want a path) give `HitsWereThere` and `FindsWhatStays`. The algorithm
  behind them is `rrf_merge`: `MergeFacts` says that its result has no contract twice, is as long as
  the limit allows and is in the order of the scores, `BothOutweighOne` that a hit of both
  halves outweighs a hit of one, which is where the code's 60 and 50 come in.
- `Exporting`: `Written` says what of the list is in the document so far. A contract that stays
  keeps its place because whoever files there later would have its key, which two
  contracts never have at one time (`FiledFacts`). From it follows `ExportKeeps`.
- `Paging`: the groups of the page's contracts were there when it read them. That a
  contract is drawn once is a fact about forests: a group is drawn exactly if the chain
  of its parents reaches the top within the project (`ChainIsDrawn`, `DrawnHasChain`), by
  `Nested` instead of an induction. From it follows `PageShows`.
- `NotFoundIsTrue` is a part of `IInv` itself.

Only model-checked: the liveness properties `EveryRequestIsAnswered` and `EveryStartEnds`
(fairness and ENABLED are out of the prover's reach). The properties of the violation runs
are false of the code under the constants of those runs.

## What the model showed about the code

Six disagreements have a run each (table above). Others, read off the model or
the code and not given a run of their own:

- Two creates can both pass the similarity check and both be inserted: the check and the
  insert are two calls, and a contract created between them is the first reason of
  `DuplicatesSlipInOnlyForAReason`.
- The check counts a contract at the threshold itself as a duplicate (`>=`,
  `create_contract.rs:82`, and so says the design specification, `:249`); the PRD (`:349`)
  and `rag-and-duplicates.md:33` say *above* the threshold. The model follows the code.
- Two updates of one contract can store their vectors in the opposite order of their
  rows, the first reason of `VectorsPartOnlyForAReason`.
- A create leaves a vector without a contract as an update does (`create_contract.rs:87`,
  `:91`), if its contract is deleted between row and vector.
- A refused create has already created its group (`rag-and-duplicates.md:33` says
  the database is not touched).
- A near duplicate deleted between check and hydration turns the warning into
  `not_found`.
- The log's order is that of the `append` calls, not of the commits
  (`audit-log.md` gives the time "at the moment the transaction committed"), and a
  task lost between the two leaves its change unlogged.
- A form that does not match uses up its code, and a refresh by the wrong client or for
  an inactive user uses up the refresh token: both are consumed first and compared
  after (`oauth.rs:249-260`). `auth.md:36` gives the opposite order for PKCE, and
  `auth.md:38` says that a refresh token is invalidated when the new pair is issued; a
  request lost between the two leaves neither the old token nor a new one. This is why
  `Grant` may drop a baton at any stage.
- A user deactivated between `ReadOwner` and the inserts still gets a pair
  (`first-login.md:48` says inactive users cannot obtain tokens); the bearer check
  refuses it, which is what `RunsWithinGrantAndRole` says.
- An answered pair may already be expired: the life time starts before the inserts.
- `contract_repo_sqlite.rs:223-235` guards against a delete between load and
  update; under the connection mutex that cannot happen, so the branch is not in
  the model.

Users and sessions:

- No active super admin may be left: two admins demote each other at once, each with a
  principal read before (`LastAdminFallsOnlyToStaleAuthority` says that this is the only
  way). Only a change in the database brings one back, since `ensure` acts on an empty
  table only.
- A form writes the whole row it read (`admin.rs:181-285`): a password reset that
  overlaps a deactivation undoes it, without a trace in either log entry.
- `login` trims the name it is sent, `users().create` stores it as it is: an account
  whose name has a space around it can never log in.
- `first-login.md:14` says old cookies are invalidated; a login opens a new session and
  leaves the old ones alive until they expire or are logged out.
- `http-api.md:44` calls the audit page paginated and filterable, `audit-log.md:45` says 200
  rows; the code reads 100 and takes no parameter.

Start-up:

- A process killed between the first statement of a migration and its record makes every
  later start fail at the table that exists (the comment at `migrations.rs:19` says
  "Idempotent."). `ServesOnlyWhatIsReady` shows that no such database is ever served.
- Two processes started on one empty database may both see no user: with two names both
  are seeded, with one the second start fails.
- The backfill of a start beside a serving process may insert a row read before a patch;
  the old columns and the first example then differ until the next patch
  (`MirrorBreaksOnlyByStaleBackfill`). A patch of one old column may complete the pair; the
  example then appears at the next start only.

Reading:

- Search answers a hit of a contract deleted meanwhile with a blank path, and a hit that
  moved out of the group with its new path.
- An export of a project that is there is answered "not found" if a contract is deleted
  between the list and its read (`export_openapi.rs:28`); a contract that moves to a key
  already filed takes the other's place in the document.
- A group whose parent is of another project is not drawn, nor are its contracts
  (`groups().resolve` takes any parent id).
- The limit of search is clamped to 1..500 (`search_contract.rs:51`);
  `search-contract.md:17` and `:39` say 1..100 and an error outside. `group_name` of a hit
  is never filled.
- An operation of the export names its security requirement `as_str()`
  (`export_openapi.rs:184-188`), the scheme is declared under that name with "Auth" added
  (`:200-209`), so the reference leads nowhere. `export-openapi.md:3` says OpenAPI 3.1, the
  document says 3.0.3.
- The reading tools check no scope, though `list-contracts.md:33` and others say that a
  token without `ledgapi:read` is refused.

## Not modelled

- Characters: `normalize_path`, the parsing of slugs, ids, names and cookies, hashing. They
  are functions without state; what they accept and refuse is given by constants.
- Layout: what `build_operation` writes for a contract, templates, documentation pages,
  the JSON envelope and SSE framing, logging, health.
- The embedding model, and the approximation of KNN by sqlite-vec: constants.
- Errors of the disk, and `SQLITE_BUSY` between two processes, except where a run lets a
  call fail (`Abort`, `CallFails`, `LoadModel`).
- Configuration other than the settings for the first admin.
