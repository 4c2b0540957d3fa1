# A TLA+ verification of Lenni's transactional core

The program lets a small business describe its own workspace (Tables, Fields,
Views, Forms, Pages), change that description under review or directly, keep
records in it, ask an AI Builder for changes, and publish pages on which the
public books or orders.  Next.js servers hold no state of their own: what must
stay right is kept by PL/pgSQL functions in `supabase/migrations`, each called
in one READ COMMITTED transaction, by the orchestration code under `src/ai` and
`src/core` that calls them, and by the two editors in the browser, which hold
what their owner typed until the server has it.  The modules here model those
functions, in the form the last migration that redefines them gives them, and
the parts of the orchestration and of the editors that keep state.

Paths below are relative to the repository; migrations are named by their date
prefix and subject.

## 1. Inventory

| Component | State it keeps | Operations | What is hard | What makes it correct |
|---|---|---|---|---|
| Configuration lifecycle (`20260728180000` to `20260804100000`) | `configuration_versions`, `business_configuration_heads`, `configuration_change_sets`, the live projection (`object_definitions`, `field_definitions`, ...) | propose, prepare rollback, validate, apply, abandon | validation and application are separate transactions; rollback after rollback; several tables that move together | linear history, live = active version, stable identities, records always valid |
| Direct Table facades and Undo (`20260809100000`, `20260824130000`, `20260904123000`) | the same, in one transaction | create table, add, retype, archive a column; Undo | several statements between which records of others commit; FOR SHARE upgraded to FOR UPDATE | all or nothing; Undo loses no data |
| Graph records (`20260727200000`, `20260825100000`) | `records` | create, update, relate | written while the configuration changes | data fits the live fields |
| AI accounting (`20260729220000`, `src/ai/business-execution.ts`, `src/ai/execution.ts`) | `business_ai_settings`, `ai_execution_runs`, the executor's running totals | reserve, execute with attempts, settle with a retry, change settings | lost and late database answers, crash between reserve and settle, unreported usage, midnight, overflow | consumption is always covered, limits hold, one settlement |
| Public booking (`20260815100000`, `20260816110000`) | `booking_submissions`, `booking_slot_counters`, `booking_rate_limits`, booking records | submit | duplicates, racing submissions, exceptions that undo everything but the answer | capacity, one booking per token, honest answers |
| Public create form (`20260815100000`) | submissions, rate limits | submit | as booking | one record per token |
| Preorder (`20260728120000`, `20260728181000`, `src/app/api/preorder`) | submissions, slot counters, rate limits, orders, email status | submit, complete email | as booking, and an email after the commit | capacity, one order per token, email sent at most once |
| Anonymous builds (`20260811100000`, `20260815120000`, `20260815130000`, `20260817100000`, `src/core/acquisition`, `src/app/start`) | `anonymous_build_sessions`, `anonymous_build_daily_quotas`, the visitor's cookie | describe, answer, refine, accept, claim | generation takes seconds, and another tab, a reload or the clock moves the session meanwhile; claims race; quota and session counters differ | one business per session, made of what was accepted; refinements build on each other; nothing is kept of a session that is over |
| Tenancy (`20260727170000`) | businesses, memberships | create business, change roles | owners leave together | an Owner remains |
| Confirmed record operations (`20260805100000`, `20260806100000`, `20260901100000`, `src/ai/builder`) | `records`, signed confirmations | review; confirmed create and update, bulk update, beside plain edits | stale and repeated confirmations; locks on the head, the table's row and several records | what was reviewed is what is replaced, no lost update, no deadlock |
| Table workbench (`src/runtime/editor-kernel`, `20260901100000`) | loaded rows, shown rows, edits on their way or failed, the write queue, the loads in flight; records | edit, retry, discard, paste, open, load, load more, search, change setup; bulk update | each answer carries rows read at another moment; loads are dropped; answers are lost | no edit is lost, what is shown at rest is what is stored |
| Pages and the editor (`20260907100000` ..., `src/runtime/page-editor`, `src/core/configuration/direct-pages`) | the candidate and the acknowledged baseline, the save coordinator's status, the conflict, the version saves name; page versions | edit, autosave, flush before leaving, retry, keep mine, use latest, checklist | a payload of the route arrives during a save; saves are superseded; others publish | an unsaved draft stays, "Saved" is true, nothing is released unsaved, a stopped save waits for the owner |
| Builder orchestration (`src/ai/builder`, `planning`, `configuration-drafting`) | none | prompts to proposals | large pure functions | proposals compile to valid operations |

How they interact.  The Builder and the Changes screen call the lifecycle
functions; the Table workspace calls the direct facades, which call the same
functions within one transaction.  Records are validated against the live
projection that publication rewrites, and a retyped field is validated against
the records: each side locks the table's row.  Every Builder request passes
through the accounting orchestrator.  A claim of an anonymous build calls the
lifecycle in its own transaction.  Public pages write records through
narrow functions of their own.  The page editor publishes through a direct
facade that compares the head, and the Table workbench writes records and
publishes columns; both share the router of the page, which runs actions in the
order they were asked, each after the refresh that was asked before it.

## 2. Modules

| Module | What it is |
|---|---|
| `ConfigurationHistory` | The promise of the lifecycle: a history of snapshots that only grows, each offered against the one it replaces, no identity lost. |
| `ConfigurationLifecycle` | The lifecycle functions, direct facades, Undo and record writes of one business. |
| `ConfigurationLifecycle_proofs` | `IInv` is an inductive invariant; the safety theorems, the action properties, and the proof that the lifecycle implements `ConfigurationHistory`. |
| `AiAccounting` | Orchestrator, executor, provider and the two database functions between them, with the messages that pass. |
| `AiAccounting_proofs` | Accounting theorems, for any number of executions and days and any limits, budgets and usage. |
| `PublicBooking` | The statements of `submit_public_booking`, and its locks. |
| `PublicBooking_proofs` | Booking theorems, for any number of calls, tokens, slots and request hashes. |
| `Preorder` | The statements of `submit_public_preorder`, its locks, and the route's email work after it. |
| `Preorder_proofs` | Preorder theorems, for any number of requests, tokens, slots and request hashes. |
| `PageEditing` | One owner in the page editor: save coordinator, route payloads, conflicts, flushes and the checklist form, against the versions others publish too. |
| `PageEditing_proofs` | Page editor theorems, for any titles, layouts, versions and edits. |
| `TableEditing` | The rows of a Table in three layers (server, workspace, editor) under edits, failures and reloads. |
| `TableEditing_proofs` | Table workbench theorems, for any cells, edits and calls. |
| `Acquisition` | The requests of one visitor of `/start`, their session rows, the daily quota, and the claim. |
| `Acquisition_proofs` | Theorems about the journey, for any number of requests, sessions, attempts, refinements and days. |
| `RecordOperations` | The functions that write the records of one table, statement by statement with their row locks: edits, bulk updates, and what an owner confirms after a review. |
| `RecordOperations_proofs` | Theorems about record writes, for any number of calls, confirmations, records and fields. |
| `MC...` | Instances for TLC. |

### ConfigurationLifecycle

*State.* `versions` is `configuration_versions` in order of number; `head` the
business's row of `business_configuration_heads`; `live` the projection;
`changeSets` the rows of `configuration_change_sets`; `records` the operational
data; `txn` what a session's running transaction has done that nobody else can
see, with the lock it holds on the head.  A snapshot maps each table and each
column to its id, whether it is active, and its type.  An edit is a set of
entities and what they become; the ids a new entity gets are allocated with its
change set, as the code does when it proposes.

*Actions.*  `ProposeConfigurationChange`, `PrepareConfigurationRollback`,
`ValidateConfigurationChange`, `ApplyConfigurationChange` and
`AbandonConfigurationChangeSet` are the functions of these names, one
transaction each, with every early return: already out of date (conflicted),
replay mismatch or incompatible records (rejected), nothing changed, head moved
at the call.  `BeginDirect`, `ValidateInTxn`, `ApplyInTxn` are the statements of
`apply_lenni_direct_configuration_change`, `BeginUndo` is
`undo_direct_configuration_change` up to its last check of the records.
`AbortTxn` is any error or lost connection, `DetectDeadlock` PostgreSQL's
answer to two sessions that hold the head FOR SHARE and both want FOR UPDATE.
`CreateGraphRecord` and `UpdateGraphRecord` validate against `live`.

*Granularity.*  A record write holds FOR SHARE on its table's row until it
commits and a projection updates that row, so projecting and committing are one
step; the checks of a direct transaction that come before it are steps of their
own, because nothing they read is locked.

*Left out.*  Access checks, titles, descriptions, checksums and diffs;
relationships, views, forms, pages and locations of a snapshot (they are
projected by the same statements); field settings, defaults and JSON nulls;
`record_status`.

### AiAccounting

*State.*  `settings` and `runs` are the two tables, `rowLock` the reservation
that holds the settings row, `today` the date a statement that starts now
reads.  `reserve`, `settles` and `replies` are the calls in flight: a settle
call stays in flight after the client gave up on it, so the first call can
arrive after the second.  `pc`, `accounting`, `asked`, `try` and `answer` are
variables of the orchestrator and the executor.  `using`, `spent` and `lavish`
are what the provider's meter shows; no code sees them unless it is reported.

*Actions.*  `ReadSettings`, `CallReserve`, `ReserveAnswered`,
`ReserveUnanswered`, `AskSettlement`, `SettleAccepted` and `SettleFails` follow
`execute` and `settleWithRetry` in `business-execution.ts`; `Invoke`,
`EndAttempt` and `RefusePrepared` the loop of `executePrepared`; `CheckBudget`
and `InsertRun` the two halves of `reserve_business_ai_execution`, separate
because the day is fixed before the lock is waited for; `Settle` is
`settle_business_ai_execution`.  `Crash`, `LoseSettle`, `AbortReserve` and
`Midnight` are the environment.

One amount stands for input tokens, output tokens and cost, which the code sums
and compares in the same statements.

### PublicBooking

*State.*  `submissions`, `counters`, `attempts` and `bookings` hold what is
committed; `attemptLock`, `slotLock` and `tokenLock` the rows and the index
entry a transaction holds; `request`, `pc` and `answer` the call.

*Actions.*  `FindSubmission`, `CountAttempt`, `CheckSubmission`, `CountSlot`,
`InsertSubmission`, `InsertFails` and `Commit` are the function's statements in
order.  `ReturnRefusal` is an early return: the transaction commits, and with
it the counted attempt.  `Rescue` is an exception handler: everything the
function did is undone, and it answers.  `Abort` is a connection or server that
dies before the commit.

A committed counter can only be read by a transaction that waits for its row,
so writes to it are shown at `Commit`.  The checks of slot calendar, services
and fields read nothing that submissions write; they are one choice between
pass, refuse and raise.  Record writes also hold the rows of their tables in
share mode, which no other submission waits for.

### Preorder

*State.* `open` says that the page, experience, association and location are
active, `shares` which transactions hold those rows `FOR SHARE`.
`submissions`, `counters`, `attempts` and `orders` hold what is committed,
`email` the column `email_status`, `sent` who got a message out (no code sees
it); the three locks, `request`, `pc` and `answer` are as in a booking.

*Actions.*  `Call` is the outer function that takes the share locks.
`FindSubmission`, `CountAttempt`, `InsertToken`, `CountSlot` and `Commit` are the
statements of the inner one, `CheckFails` anything that raises between them.
`ClaimConfirmationEmail`, `SendConfirmation`, `NoteSent` and `NoteFailed` are the
steps of `processPreorderSubmission`, each database call its own transaction,
and `RouteFails` a server that dies, or a call that fails uncaught, between any
two of them.  `Archive` and `Restore` are publications that deactivate or
reactivate one of the shared rows.

*Unlike a booking*, the token is inserted before the slot is waited for, so
a duplicate waits for its original and is shown its order, never "sold out" by
itself (as a booking can be, section 4; proved as `SoldOutByOthers`); and a refusal
undoes the block but not the attempt, which was counted before it.  The branch
that answers `retry` is in the model and proved never to be taken.

*Left out.*  What the order snapshots of items and prices, the catalogue, the
checks of a preorder's configuration, and a change of `slot_capacity`: lowering
it would leave a counter above it.

### PageEditing

*State.* `pages` is the Page's content in each version of the configuration, so
its length is the head.  `candidate`, `acknowledged`, `base` and `loaded` are the
editor's refs of these purposes (`candidateRef`, `acknowledgedDraftRef`,
`currentnessRef`, `loadedCurrentness`) with the coordinator's copies of the first
two, which the editor sets in the same run of JavaScript.  `status`, `blocked`,
`timer`, `request` and `flushes` are `PageSaveCoordinator`; `asked` and `payload`
a refresh of the route that was asked for and one that was rendered; `conflict`
the version in the conflict panel; `place` whether the owner is leaving.

*Actions.*  `Edit` is `update()`, `AskFlush` the three callers of `flush()`
(Cmd-S, navigation, the checklist form), `TryAgain`, `KeepMine` and `UseLatest`
the panels' buttons, `TimerFires` the scheduled `#runSave`.  `ServeSave` is
`savePageLayoutAction` down to the publication, `SaveAnswered` all that runs when
its answer arrives: `performPageSave`'s continuation, `#runSave`'s and that of each
flush.  `Deliver` is the effect that compares a new payload with the draft, one
disjunct of `Considered` per branch.  `Render` and `SentNow` are the router's order.
`Publish` is anyone else.

*Left out.*  What a document holds, up to a title and a layout that can differ;
ProseMirror's history; assets; what a lifecycle action does after its flush; the
lengths of the quiet time and the longest wait.

### TableEditing

*State.* `stored` is the records, `loaded` what `ProductionTableWorkspace` last
loaded, `shown` what `EditorKernel` shows, `attempted`, `pending` and `failed` its
maps of unsaved edits, `writes` the `CellWriteQueue`, `router` the calls of the page
in their order.  `pendingWrites`, `timer` and `loading` are the workspace's.  A value
is the moment at which it was entered.  `current`, `accepted`, `wanted` and
`reloaded` are history.

*Actions.*  `Edit` and `Retry` are `commitCell`, `Discard` is "Discard edit",
`WriteAnswered` the rest of `commitCell` (`Saved`, `NotSaved`, or nothing for an
edit that has a newer one).  `Load` and `LoadAnswered` are the effect and `loadPage`,
`MoreAnswered` its append branch; `RouteRefreshed` is the workspace re-rendered with
the route, after which rows are loaded anew.  `Open`, `Paste` and
`ChangeStructure` are called by the adapter's callbacks; a paste does not wait in
`writes`.  `Serve` lets a call fail before it takes effect and lose its answer after.
`Elsewhere` is anyone else.

*Left out.*  Pages of rows beyond the first, grouping, previews, new rows, bulk
updates, Connections and the record panel's own edits.

### Acquisition

*State.* `sessions` are the rows, `quota` today's counter of the visitor's network,
`cookie` the token the browser would send, `requests` the form submissions as far as
they have come, with what each has read.  `reserved`, `acceptances` and `built` are
history.  A candidate is known by the request that made it and the refinements it
contains.

*Actions.*  `SendCreate`, `Send` and `AddressRefinement` are the reads of
`createOrRegenerateProposal`, `refineAcquisitionProposal`,
`answerAcquisitionQuestion`, `acceptAcquisitionSetup` and `claimWorkspaceAction`, and
`Refuse` their end when the session is not found or not as the form needs it;
`Reserve` is `reserve_anonymous_build_attempt` with its sweep of expired rows;
`Ask`, `Propose` and `Fail` are how generation ends (`writeClarificationState`,
`writeProposal` under its conditions, nothing); `Accept` and `Claim` write.
`Answer` sets or removes the cookie, `Lose` is a server that dies or an answer that
is lost, `Lapse` and `NewDay` are time.

*Left out.*  Generating and reconciling a candidate; the removal of rows after two
days; visitors of other networks; `create_business` and what the claim publishes.

### RecordOperations

*State.* `records` is the table's rows, of which only committed ones are shown, `head`
the revision of the configuration, `holds` the row locks of each transaction,
`calls` where it stands and the rows it has locked, as it read them.
`confirmations` is what an owner was shown: the signed token of the Builder's review,
or the rows and `updated_at` values a Table's bulk update starts from.  A field holds
who wrote it last, `updated` the transaction whose start is the record's `updated_at`.

*Actions.*  `ReadHead` and `ReadRecords` are the two reads of
`get_confirmed_graph_record_update_state` (and of its counterpart for creations) that
other commits can come between.  `Confirm`, `Edit`, `Add` and `Publish` begin
a call: `update_confirmed_graph_record`, `create_confirmed_graph_record` or
`bulk_update_table_records`; `update_graph_record` or `archive_graph_record`;
`create_graph_record`; `apply_configuration_change`.  `ShareHead`, `LockHead`,
`LockRecord`, `ShareObject` and `LockObject` are the locking statements with the
check that follows each, the same action for all functions that have it; a bulk
update comes back to `LockRecord` for each record in the order of ids.  `Commit` shows
what was written, `Abort` is an error or a connection that dies.

*Left out.*  How a selector finds its record, which tables and fields are eligible,
the location a created record is linked to, the fifteen minutes a token is valid,
and the read of the state by which the creating action repeats what its function
checks.

## 3. Runs

| Run | Instance | What it shows |
|---|---|---|
| `config_business` | one table, two columns, two types, five edits, three change sets, four versions, one record, two direct sessions; 172 485 states | `IdentityStable`, `OpenChangesReplay`, `RecordsFitLive`, `RollbackRestores`, `ChangeSetLifecycle`, `AllOrNothing`, the refinement of `ConfigurationHistory`, `DirectRequestEnds` |
| `config_undo_race` | one session, one record | finding 1 |
| `ai_attempts` | one execution, three attempts of at most 2, use up to 3, aggregate limit 8; 18 469 states | everything about one execution |
| `ai_budget` | two executions, two days, limits for one or for two; 2 513 550 states up to symmetry | `BudgetHeld` |
| `booking_safety` | three calls, two tokens, two slots of one place, two hashes of one attempt; about 466 000 states | booking invariants, `CallEnds` |
| `preorder_orders` | two calls, two of everything, one attempt; 51 818 states | preorder invariants, `OrdersWhileOpen`, `CallEnds` |
| `page_autosave` | one title, two layouts, three versions, three edits; 476 950 states | what happens to edits, `FlushEnds`, `EditsAreSaved` |
| `page_keep` | two titles | finding 2 |
| `table_edits` | one row of two cells, three values entered by anyone, one call besides edits and loads; 439 588 states | `EditsAreKept`, `RestShowsTheServer`, `CatchesUp` |
| `acquisition_journey` | four requests, two sessions of three attempts, two refinements, two attempts a day, two days; 632 576 states up to symmetry | `NothingIsKept`, `QuotaHeld`, `RefinementsAreKept`, `ClaimsAgree` |
| `acquisition_claim` | the same on one day | finding 3 |
| `record_writes` | three transactions, one confirmation, two records and room for a third, two fields, one publication; 256 030 states up to symmetry | `ReviewedIsReplaced`, `FieldsAreKept`, `NoDeadlock` |

Each module also has a `TypeOK`; all of them are proved, and no run repeats them.

*Why the bounds suffice.*  Four versions give a baseline, a change, a rollback
over it and something after the rollback; the fourth change set can then be
stale in every way.  A second table would add nothing that a second column does
not, since tables share no state.  One record is enough for a property of each
record, since validation looks at records one by one.  Three attempts give a
reported, an unreported and an oversized one in every order, and an aggregate of
8 is passed only by attempts that each stay in range, so the overflow branch is
taken.  Two executions and two days give every race on the settings row.  Three
submissions under two tokens let a duplicate race an original and a stranger for
the one place of a slot; two preorder requests of one token give every race for
its email.  In the page editor a save is superseded by a conflict or a checklist,
which needs one version of the owner's and one of someone else's, and a third lets
the conflict be resolved over; two layouts suffice since the editor only compares
contents, and `page_keep` adds the second title its finding is about.  In the Table
three values are an edit, a newer edit or a paste, and someone else's write, in
every order; two cells are needed because an answer carries its whole row.  Four
requests are a create, two refinements side by side and an accept or claim, or two
creates and a claim; two sessions and two days separate the two counters.  Three
transactions close any cycle of locks on a head, a table and two records, and let a
confirmation that is sent twice race a third writer; of three records two can be locked
in either order and one can be created.

*Bounds* are `MaxVersions`, `MaxEdits`, `MaxEntries`, `MaxCalls`, the sets of
change sets, records, sessions and requests, `LastDay`, `MaxUse`, and the numbers of
calls.  They limit how often the
environment acts, never what a transaction may do.  The code's own constants
(10 bookings a minute, 20 preorders in 15 minutes, 5 attempts of a policy) appear
as parameters.

*Symmetry* is declared only where no property is about liveness.  The model of
bookings, the lifecycle, the editors, the journey and the record writes stop when their
calls, change sets, edits or requests are used up; those configurations switch off the
deadlock check.  That record writes never stop
waiting for each other is `NoDeadlock`.  `AiAccounting` and
`Preorder` keep it: an administrator can always change the settings, or publish,
once more.

*Fairness.*  `config_business`: the database goes on with a running transaction
or its deadlock detector ends one (`WF` on `Continue(s)`; clients are not
assumed to begin anything).  `ai_attempts`: the orchestrator's process goes on,
each attempt being ended by its own timer and each database call by the HTTP
client's (`WF` on `Orchestrate(e)`).  `booking_safety`: PostgreSQL runs the
next statement of a call whose locks are free (`WF` on `Run(c)`); no strong
fairness is needed, since each call locks a row once and commits.
`preorder_orders`: the same for `Submit(c)`, and the route's process goes on
(`WF` on `ConfirmByEmail(c)`).  An error (`InsertFails`, `CheckFails`, `Abort`,
`RouteFails`) is never assumed to come, so no run ends a wait by failing it.
`page_autosave`: timers fire, the router runs what it was asked, and a server action
ends, if only with an error (`WF` on each of these steps); the owner is not assumed to
do anything.  `table_edits`: the same (`WF` on `Machinery`: its steps are never in
competition with each other for long, since calls are answered in order).
`acquisition_journey` and `record_writes` state no liveness.

## 4. Findings

1. **Undo can archive a table or column that has records** (`config_undo_race`).
   `undo_direct_configuration_change` checks the records at
   `20260824130000:701`, then prepares, validates and applies the rollback in
   later statements, without a lock that stops `create_graph_record`.
   `docs/configuration-mutation-boundary.md:571` says Undo is then unavailable.
   The record is kept, but its table is archived.
2. **"Keep my version" loses the owner's title** (`page_keep`).  The title travels
   with a save only when it differs from the title last acknowledged
   (`internal-page-editor.tsx:889`).  Someone else renames the Page, the owner keeps
   their version over it, the title does not travel, and the answer then replaces it
   in the editor.  `page-conflict-panel.tsx:117` says "Keeping your draft saves it over
   the latest Page as a new revision."
3. **A claim can build a candidate nobody accepted** (`acquisition_claim`).  The
   claim's transaction asks that something was accepted, not that it is the current
   candidate; that was checked in an earlier request (`src/app/start/actions.ts:283`).
   A candidate whose generation was already under way can be written in between.
   `20260815120000:13` calls the acceptance "The exact server-derived candidate selected
   by the owner for signup/claim".

Also worth a maintainer's look, although no run is kept for it:

* Accounting: a reservation whose server died stays `reserved` (no code sets
  `expired`) and counts against its day for good.
* Booking: the retry of an answered booking shows another reference than the first answer,
  since the stored confirmation (`20260815100000:1043`) and the row's column each draw one at
  random, and the first answer shows the column (`:1052`), every replay the stored one; an attempt that raises is not counted against its hash; a token sent again
  for another slot is answered `ok` with the first slot; a duplicate that is in flight
  with its original can be told `capacity_unavailable` for the place its original took,
  since the token is looked up before the transaction waits for the counter and not
  again (`20260815100000:785`).
* Record operations: a bulk update whose answer was lost after its commit tells its owner that
  "Nothing was changed" (`production-table-actions.ts:768`); the review of an update matches
  the selector and reads the record in two statements, so that it can show a record
  that no longer matches, though never one that is changed unseen.
* Undo of `add_column` looks for the key among the records of every table.
* Preorder: a server that dies after claiming an email leaves it `sending` for good,
  and every retry is answered `sending`; the route's `catch` around sending also
  catches a failure of the call that records the success, so a sent email is reported
  as failed (`route.ts:90`); an answer lost after the commit is reported as
  `invalid_submission` although the order exists (a retry with the token shows it).
* Page editor: when a save is superseded, edits made since then are not scheduled
  again until the next edit (`EditsAreSaved` excludes this); a payload that arrives
  during a save of a draft that was changed back is adopted silently as the base of the
  next save; an answer that was lost shows the owner a conflict with their own text; what
  is typed while a checklist is created is replaced by its answer.
* Table workbench: a paste or the Delete key does not wait for edits in the queue, so an
  older edit can overwrite it (ADR-051:71 says "Grid cell writes are serialized in
  entry order"); Retry can store an older value over a later paste; the answers of
  `openRecord`, a paste and a change of the setup replace edits that are not saved in what
  is shown, though they are kept and stored; "Load more" after a failed reload shows
  rows from before; Discard shows a previous value that was itself never stored until the
  rows are loaded.
* Anonymous builds: a claim that is sent again after its answer was lost is told that
  the workspace is no longer available (`src/app/start/actions.ts:273`, `Refuse`), because
  the action loads the session (`service.ts:222`) before it calls the function that would
  replay the claim; a claim whose transaction committed but was not answered tells its
  owner that "Nothing was created" (`actions.ts:91`, `EndClaim`).  `ClaimsAgree` is about
  neither, only about claims that found the session and that the function answered.  A
  candidate written between a refinement's read and its reservation is replaced when
  nothing was refined yet.

## 5. What is proved

`ConfigurationLifecycle_proofs`, from `ConfigurationAssumption` (edits and
baselines have their types, ids and `None` differ), for any sets of tables,
columns, types, edits, change sets, records and sessions:

* `Invariance`: `Spec => []IInv`.  The properties are not inductive alone.
  `HistoryLinear` needs that what is applied is based on the head, hence
  `OpenChangesBased` and, for what direct transactions hold, `TxnsIsolated`;
  `IdentityStable` needs that a candidate is the replay of its edit on its base,
  hence `OpenChangesReplay`; and `RecordsFitLive` needs `BlankRecords`, for a
  record that is created later.  `IInv` is their conjunction.
* The proof has one lemma for each kind of step: a change set moves
  (`ChangeSetStep`), a transaction moves (`TxnStep`), a record is written
  (`RecordStep`), a candidate is published (`PublishStep`).  Each action is then
  shown to be one of the four.
* `TypeCorrect`, `LinearHistory`, `StableIdentities`, `ReplayNeverFails`,
  `RecordsStayValid` and `RestoringRollback` (`RollbackRestores`) follow.
* From the same invariant come the action properties `LifecycleForward`
  (`ChangeSetLifecycle`) and `DirectIsAtomic` (`AllOrNothing`), and
  `Implementation` (`ImplementsHistory`): publishing by a reviewed change set is
  `Publish`, by a direct action `PublishAtOnce`, proposing is `Offer`, leaving
  review `Close`, and everything else stutters.

`AiAccounting_proofs`, from `NobodyAssumption`, `BoundsAssumption` and
`SettingsAssumption`, for any set of executions, any number of days, any limits and
any usage, up to the five attempts a policy may allow:

* `Invariance`: `Spec => []IInv`.  The invariant follows the money of one execution
  (`Kept`): a run stays open until the database settles it, so what the provider's
  meter shows is held (`ReservationMade`, `Metered`); a settlement on its way asks
  for what was metered (`AskedAsMetered`), a settled run is as it was asked
  (`SettledAsAsked`) although the call may arrive twice or late, and an answer is only
  given of what was then on record (`Told`).
* The day's budget needs `AdmittedFits`: a reservation that has passed the check and
  still holds the settings row fits.  The sums in it are capped at what each execution
  reserved, because another execution may settle with an overrun between the check and
  the insert; and the day is the one fixed before the row was waited for, so days may
  end meanwhile.
* The sums are of the community modules (`SumFunctionOnSet`), defined by recursion on a
  finite set.  `SumIsCount` shows by a smallest counterexample, where induction over an
  operator is not to be had, that such a sum is the number of its units, and
  `SumOfMore` and `SumOfLess` follow by cardinalities.  `DayShrinks` and `DayHolds`
  then say what a settlement and everything else do to a day's sum.
* `TypeCorrect`, `SpendIsHeld` (`SpendIsCovered`), `ExactUsage` (`UsageIsExact`),
  `HonestAnswers` (`AnswersAreHonest`) and `BudgetIsHeld` (`BudgetHeld`) follow.

`PublicBooking_proofs`, from `NobodyAssumption` and `LimitsAssumption`, for any
sets of calls, tokens, slots and request hashes, any capacity and any limit:

* `Invariance`: `Spec => []IInv`.  What makes the properties inductive is
  `HoldsWhatItRead` (past each statement a call holds the row it read, so the
  attempt it counted, the place it found free and the token it found unused are
  still so when it commits) and `BookingsWereAsked` (a booking belongs to a call
  that was answered, and each was counted as an attempt).
* A call either goes on (`MoveStep`), leaves without a booking (`LeaveStep`) or
  commits (`CommitStep`); every action is shown to be one of these.  The counts
  are finite-set cardinalities, by `FS_AddElement`.
* `TypeCorrect`, `CapacityHeld` (`SlotsAreHonest`), `TokenBooksOnce`
  (`OneBookingPerToken`), `AnswersMatch` (`AnswersAreHonest`) and `RateIsHeld`
  (`RateHeld`) follow.

`Preorder_proofs`, from the same two assumptions, for any sets of calls, tokens,
slots and request hashes, any capacity and any limit:

* `Invariance`: `Spec => []IInv`.  The strengthening is `HoldsWhatItRead` (past
  each statement a call holds the row it went through, and no row it shares is
  archived), `OrdersWereAsked` (an order is of a call that asked for it and is
  past its transaction; a slot that was sold out stays so), `AttemptsCover` (the
  counted attempts cover all orders and refusals) and `EmailFollowsOrder` (an
  email is claimed by one call, and only once its order is committed).
* A step moves a call (`MoveStep`), ends it without an order (`LeaveStep`),
  commits (`CommitStep`), works on an email (`MailStep`) or changes `open`
  (`OpenStep`); every action is shown to be one of these.
* `TypeCorrect`, `CapacityHeld`, `TokenOrdersOnce`, `AnswersMatch`, `RateIsHeld`,
  `SoldOutByOthers` and `EmailOnce` follow, and the action properties
  `OrdersStayOpen` (`OrdersWhileOpen`) and `EmailStays` (`EmailIsFinal`).

`Acquisition_proofs`, from `LimitsAssumption` (the limits are numbers, `Nothing` is no
token), for any sets of requests and tokens and any limits:

* `Invariance`: `Spec => []IInv`.  `RefinementsAreKept` is about a row at the moment it
  is written, so the invariant says of every refinement that could still be written
  that it has seen all refinements of the candidate that is there
  (`RefinementsCover`).  A refinement reserves an attempt long after it read, on a
  row that may be gone or another's by then; that it writes at all needs the attempt
  it was given to be the row's last and the row's count to be the one it read.  Hence
  `AttemptsDiffer` (two requests never write under the same attempt), `FreshTokens` (a
  token without a row is known to the request that drew it alone) and
  `RequestsInOrder`.  `BuiltIsClaimed` (a row is claimed if and only if its business was
  made) ties the claims to the row: it makes `ClaimsAgree` an equivalence between what
  a claim is told and what there is.
* Every step that leaves the requests' tokens and attempts alone is an instance of
  `RowStep`: a row keeps its candidate, loses it, gets one that starts afresh, or one
  by the refinement that counted on it.  Reserving an attempt (`GrantStep`) and
  sending a request (`SendingStep`) are the other two kinds.
* `TypeCorrect`, `NothingStays` (`NothingIsKept`) and the action properties
  `RefinementsBuild` (`RefinementsAreKept`) and `ClaimsAreOne` (`ClaimsAgree`) follow.
* `QuotaIsHeld` (`QuotaHeld`) has an invariant of its own, `QInv`.  The sessions'
  attempts are a set of pairs of a token and a number, the reservations a set of
  requests; each reservation adds one element to both sets, and only a request that
  has not reserved makes one (`ReservedOnce`).

`RecordOperations_proofs`, from `RecordsAssumption` (the rows of head and table are not
records, `Nobody` is no call), for any sets of calls, confirmations, records and fields:

* `Invariance`: `Spec => []IInv`.  `LocksAgree` (no two transactions hold locks that
  exclude each other) is what the others rest on.  `HoldsWhatItNeeds` says at each place
  of a call what it has locked, and that a locked record is as it was read
  (`KeepsRecord`) and as its review saw it, the head as it was reviewed, and, for a
  creation about to commit, the whole table.  A review is compared by `updated_at`
  only, so `UpdatedTells` (equal `updated_at`, equal record) is needed, and for it
  `Unwritten` (nobody has seen a row of a call that has not committed).
* Every statement before a commit is an instance of `CallStep`, which asks only that
  the locks it takes were free; `ReviewStep` and `CommitStep` are the other two kinds.
* `TypeCorrect` and the action properties `ReviewedReplaced` (`ReviewedIsReplaced`) and
  `FieldsKept` (`FieldsAreKept`) follow, with `WritesByCommit` (only its own commit
  makes a call the writer of a record).
* `NobodyDeadlocks`: `Spec => []NoDeadlock`, from a second invariant, `LInv`.
  `LocksInOrder` is the order of locking: the head before anything else, records by
  their identifiers, the table's row exclusively only as the last lock and never with a
  record.  `HasNext` says that a call about to lock a record has one left.  `Stage` and
  `Before` put the calls in one order (at the head, at the exclusive lock of the table,
  at a record and by the least one left, at the shared lock of the table, at the
  commit).  A call waits only for calls it is before (`WaitsAhead`), and of finitely many calls
  one is before none of the others (`SomeoneIsAhead`).  A call that does not commit next
  has a lock to ask for (`GoesOnWith`), so the one that waits for nobody goes on.

`TableEditing_proofs`, from the assumptions of the module, for any set of cells and any
number of edits and calls:

* `Invariance`: `Spec => []IInv`.  `EditsAreKept` rests on `NewestCounts` (of the edits
  of a cell that wait in the queue only the newest counts, and it is what the cell was
  last told) and `OneWrite` (the router has one write at a time, for the queue's first
  edit; once it has succeeded that value is stored).  `RestShowsTheServer` rests on
  `AnswersAreCurrent` (an answer's rows were read no earlier than this editor's last
  write), on `OneLoad` (one load is awaited, and none while an edit is not settled) and
  on `CaughtUp`: both layers are current unless edits are unsettled, a load is coming,
  or a paste is about to be told.
* A step is described by what it does to the router's queue: a call is added at the
  end, the first one is served or leaves, loads are dropped (`SamePasses`,
  `AppendPasses`, `TailPasses`, `SupersededPasses`), and one lemma for each conjunct
  says when it survives such a step (`AnswersStay`, `WriteStays`, `LoadsStay`, ...).
  Each action is then one of `QuietStep`, `CallStep`, `UserCallStep`, or has a step
  lemma of its own.
* `TypeCorrect`, `NoEditIsLost` (`EditsAreKept`) and `ShownIsCurrent`
  (`RestShowsTheServer`) follow.

`PageEditing_proofs`, from `BoundsAssumption` (the bounds are numbers), for any titles,
layouts and numbers of versions and edits:

* `Invariance`: `Spec => []IInv`.  `SavedIsAccepted` needs the baseline to be what some
  version holds (`BaselineAccepted`), an answered call to name a version that there is
  (`Told`), and that saving is not stopped while a save whose answer will count is in
  flight (`LiveIsFree`): whatever stops saving supersedes the save.
* The invariant is split by who changes what (`History`, `Baseline`, `Shown`, `Saving`,
  `Beside`), and each method of the coordinator has a lemma on what it leaves behind
  (`FinishPart`, `DrainPart`, `FlushPart`, `AcknowledgePart`, `BlockPart`, `RebasePart`),
  which the lemmas on the actions cite.
* `TypeCorrect`, `SavedIsTrue` (`SavedIsAccepted`) and the action properties
  `UnsavedStays` (`UnsavedIsKept`), `StoppedWaits` (`StoppedIsHeld`) and `FlushedBefore`
  (`FlushedFirst`) follow.

*Only model-checked.*  Liveness (`DirectRequestEnds`, `ExecutionEnds`, `CallEnds`,
`FlushEnds`, `EditsAreSaved`, `CatchesUp`), which is out of the prover's reach.
`NoDeadlock` is stated by who waits for whom and not with `ENABLED`, so that it can be
proved; that a commit finds room for the record it creates is a bound of the model
(`Room`) and no part of it.

## 6. Plan

1. Proofs: abstract specifications of a booking and of a settlement, and that the
   detailed modules implement them.
2. `Tenancy`: memberships under the deferred owner check.
3. The public create form, which is a booking without a slot, and a change of
   the slot capacity under preorders.
4. The Table's pages of rows, grouping and bulk edits, and the lifecycle actions of a
   Page (archive, restore, publish to the public).
5. The rows of a projection one by one, with the lock order of record writes; the
   claim as one publication of `ConfigurationHistory`.

Not planned: rendering and user interface, prompts, providers and evaluations
(no state, or outside the repository), authentication (Supabase), marketing.
