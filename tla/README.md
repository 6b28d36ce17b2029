# Vibe Payroll Time: a verification development

TLA+ modules that model Vibe Payroll Time, from the punch clock to the sessions,
links, kiosks, badges, totals and exports around it; the TLC configurations that
check them on small instances; and TLAPS proofs of the main safety properties for
every value of the constants.

    tlc -workers 2 -config PunchClock_locked.cfg MCPunchClock.tla
    tlapm PunchClock_proofs.tla

Source paths are relative to the repository. `PROJECT.json` lists the runs, the
lines each definition stands for, a mutant of the code for every checked
property, the hazards and the theorems.

## 1. The system

A Node / Express / Knex backend over Postgres (READ COMMITTED, no retries on
serialization failures), BullMQ workers for the scheduled jobs, a React web
client with an IndexedDB queue for punches made offline, and kiosk tablets.
Several server processes and several requests per process run at once: every
"read, decide, write" in a service is exposed to interleaving, and what protects
it is an advisory lock, a row lock, an index, or nothing.

### Inventory

| Component (source) | State it keeps | Operations | What is hard | What makes it correct |
|---|---|---|---|---|
| Punch service (`backend/src/services/punch.ts`, `routes/punch.ts`, `kiosk.ts`) | `time_entries` | clock in/out, lunch split, break in/out, job switch, edit, delete, create | two surfaces at once, offline replay with a claimed time, an edit in the middle of a punch | shifts without gaps; durations equal their spans; a close is final |
| Auto-clockout (`services/auto-clockout.ts`) | none of its own | sweep every 5 minutes | its scan is stale when it acts; it races the employee's own punch | an overdue shift ends, once |
| Manual entries (`services/manual-entries.ts`) | manual rows and the supersede links | create, update, delete, copy last week | approvals and punches between check and write; multi-row locks | links agree from both ends; no hours hidden by a dead row |
| Timesheet approval (`services/timesheets.ts`) | `approved_at` | approve, unapprove, edit under the edit matrix | read without locks, write by id | approved hours do not move |
| Correction requests (`services/correction-requests.ts`) | requests | submit, approve, reject | two reviewers; the target row changed since | a request is resolved once and as a whole |
| Own entries and time off (`services/own-entries.ts`, `time-off.ts`) | rows | self edit, time off | which switch governs which job | the employee changes nothing approved |
| Current-punch view (`services/time-entries.ts`) | none | read | | |
| Offline queue and client clock (`frontend/src/lib/offline-queue.ts`, `clock-skew.ts`) | IndexedDB queue | enqueue, drain, drop | lost answers, two tabs, a retry of what was done | taps are replayed in order, and twice only where nobody can tell |
| Sessions and refresh tokens (`services/tokens.ts`, `auth.ts`) | refresh token rows | issue, rotate, revoke, revoke all | a rotation racing a revoke-all; a rotation whose answer is lost | a sign-in has one live token; a person who is switched off gets none |
| Magic links (`services/magic-links.ts`) | one-use tokens | issue, consume | two consumers | used once |
| Kiosk pairing and lockouts (`services/kiosk-pairing.ts`, `kiosk-pin-lockout.ts`) | codes, devices, counters | issue, redeem, fail, reset | two tablets redeem one code; counters at the limit | one device per code |
| Badges (`services/badges.ts`) | a hash and a version per employee | issue, bulk issue, revoke, scan | re-issue racing a scan | only the last badge issued clocks in |
| Payroll export (`services/payroll-exports/`) | export rows | export, repeat | totals read over several statements | a period has one export in force, through failures |
| Time mathematics (`shared/src/time-math/`) | none | rounding, pay periods, overtime, DST | boundaries | each instant is in one period |
| Notifications, reminders, phone verification (`services/notifications/`) | sent marks, codes | send, verify, sweep | a worker dies between send and mark | one message per missed punch |
| Employees, PINs, jobs (`services/employees.ts`, `pin-generator.ts`, `jobs.ts`) | roster | create, terminate, set a PIN | PIN uniqueness under concurrency | a PIN names one employee (the index sees to it) |
| Memberships and access groups (`services/access-groups.ts`, ...) | memberships | reconcile | two reconciles of one user at once | the group-granted memberships are what the user's groups add up to |
| Updates, tunnel, setup (`services/update-manager.ts`, `scripts/appliance/update*.sh`, `backup.sh`) | request files; images, schema, dumps | request an update; back up, pull, bring up, roll back | one file, two writers; a kill, a reboot or a failed pull at any step | a click is served; the database from before the update is there or has a dump while dumps are kept |
| Kiosk page (`pages/kiosk/KioskPinPage.tsx`) | the screen, a session, timers, three requests | scan, type a PIN, punch, go home | late answers after the next person has come; requests held offline | back home, nothing of the last person is left |
| Weekly grid (`pages/WeeklyGridPage.tsx`, `components/CellEditPopover.tsx`, `services/grids.ts`) | the open editor, the last change | open, save, delete, undo | an answer finds another editor, another employee, a cell others have changed | Undo puts back what was there, and there only |
| Retention and workers (`workers/`) | schedules | delete old logs | | |
| Settings and record forms (`pages/ApplianceSettingsPage.tsx`, `CompanySettingsPage.tsx`, `EmployeesPage.tsx`, ...; `services/appliance-settings.ts`, `company-settings.ts`) | a draft per form, one row per owner | fill, edit, save, be answered | a draft is filled once; two people save; a late answer; a save in two halves | a save says what its author meant, and nothing else |
| The other pages and the client's cache (`frontend/src/pages/`, `lib/resources.ts`, `main.tsx`; `backend/src/http/routes/`) | the cached answers | open, change, refresh | an answer finds another page or selection, an older read under way | what one has changed is shown; what one is offered is granted (some of it is not: section 5) |
| Backup, reports, AI help, single sign-on, packaging | | views, outside services | | |

### How they interact

All writers of `time_entries` meet in the table. Punches and the sweep take
`pg_advisory_xact_lock(employeeId)`; edits, deletes, corrections and manual
entries take row locks; `createEntryForEmployee`, approvals and views take none.
The partial unique index `time_entries_open_unique_idx` and the checks of the
schema stand behind everyone. The phone's queue calls the punch endpoints with
`clientStartedAt`; the server clamps it and marks the row offline.

## 2. What is modelled

| Module | Models | Uses |
|---|---|---|
| `TimeEntries` | the columns of `time_entries` the control depends on, the constraints of the schema, `lastWorkJobForShift` | |
| `PunchClock` | punches, the sweep, the timesheet editors, roster changes | `TimeEntries`, `ShiftClock` |
| `ShiftClock` | abstract: each employee has one clock, off / working / on break | |
| `ManualEntries` | manual entries, copy last week, and the other writers of the same rows | |
| `OfflineQueue` | the phone's queue of punches, its session, and the server that answers | |
| `Corrections` | correction requests and the employee's own entries | |
| `TimesheetTotals`, `PayPeriods` | rounding, clipping and totals; the period of a day | |
| `PayrollExports` | exports of a pay period | |
| `Sessions` | refresh tokens, tabs, sign-out, switching a sign-in off | |
| `MagicLinks` | sign-in links and the pool of connections | |
| `AccessGroups` | the membership that a user's groups add up to | |
| `EmployeePins`, `Badges`, `Kiosk` | PINs, badge sheets, pairing and lockouts | |
| `PhoneCodes`, `Reminders` | verified phone numbers; reminders of missing time | |
| `FirstRun`, `UpdateControl` | the setup wizard; the update request and the host's script | |
| `ApplianceUpdate` | `update.sh` from the dump to the rollback, with migrations, crashes and reboots | |
| `KioskScreen` | the page of a tablet | |
| `WeeklyGrid` | the cell editor and the undo of the weekly grid | |
| `SettingsForms` | the forms on settings and records, from the draft to the row | |
| `Screens` | the API as roles, writes and reads; the pages as what they show, change and refresh | |
| `ScreenCache` | the client's cache under those pages | `Screens` |
| `MCPunchClock`, `MCManualEntries`, `MCPayPeriods` | instances for TLC | their modules |
| `MCManualGrid` | one run of manual entries, the page that makes most of them, the forms and the screens | `MCManualEntries`, `WeeklyGrid`, `SettingsForms`, `ScreenCache` |
| `MCAppliance` | one run of the components with no people in common, two of them (links, queue) with liveness | `MagicLinks`, `Kiosk`, `Badges`, `FirstRun`, `Reminders`, `PayrollExports`, `PayPeriods`, `UpdateControl`, `OfflineQueue` |
| `MCPeople` | one run of the others | `Sessions`, `AccessGroups`, `EmployeePins`, `Corrections`, `TimesheetTotals`, `PhoneCodes`, `KioskScreen`, `ApplianceUpdate` |
| `PunchClock_proofs`, `PunchShifts_proofs` | theorems about `PunchClock` (section 4) | `PunchClock`, `ShiftClock` |
| `ManualEntries_proofs`, `OfflineQueue_proofs` | theorems about those modules | their modules |
| `People_proofs` | theorems about what several people edit, about the restore point of updates, and the types of run `people` | `MCPeople`, `Sessions_proofs` |
| `Sessions_proofs` | theorems about getting in | `Sessions`, `MagicLinks`, `Kiosk`, `KioskScreen` |
| `Appliance_proofs` | theorems about what runs by itself and about badges, and the types of run `appliance` | `MCAppliance`, `OfflineQueue_proofs`, `Sessions_proofs` |
| `Pages_proofs` | theorems about the web client's pages, and the types of run `manual_entries` | `MCManualGrid`, `ManualEntries_proofs` |

### PunchClock

A transaction of a punch is two steps, because at READ COMMITTED others see its
writes at the commit and what it has read may be stale by then:

- `Request`: the checks made before the lock (only `clockIn` asks whether the
  employee is active). `Jobs` are the jobs `ensurePunchableJob` lets through.
- `LockAndRead`: the advisory lock, the resolved instant, `findOpenEntry`, and
  the checks on what it found. `Refuse` is its 400 or 409. No step of another
  actor that matters fits between the lock and the read, so they are one. The
  step uses up a tick of the clock: two online punches of one employee never
  resolve to the same instant, as the comment at `punch.ts:437-443` says. A replay claims
  the instant of its tap, which may be that of a row there is: a replay after a lost answer
  claims exactly the start of the row that it made (`Claims`; a job switch is never replayed).
- `ReadAgain`: `clockOutWithLunch` calls `closeOpen`, which reads the open entry
  a second time. The duration and the position of the lunch come from different
  reads. Whether a clock-out takes the lunch path (the company's setting and the
  prompt's answer) is the choice between the operations `clockOut` and `lunchOut`.
- `Commit`, `Rollback`: the writes, or the constraint that refuses them. `Closed`
  updates the row *as it has become* with the duration from the start *that was
  read*, as `UPDATE ... WHERE id` does.
- `Disconnect`: the process or the connection dies. Postgres rolls back and frees
  the lock; a sweep that dies forgets its candidates.
- `SweepScan` reads without locks; `AutoRead` locks one candidate's employee and
  checks again; the sweep's write is `Commit(Cron)`.
- `EditEntry` holds the row (`FOR UPDATE`) from read to commit, so it is one step.
  `DeleteEntry` reads the row without a lock and deletes it by id; it decides nothing by the
  columns that others change, so it is one step too. Neither takes the advisory lock.
  `CheckNewEntry` and `InsertNewEntry` are `createEntryForEmployee`, which locks nothing.
- `Terminate` leaves open entries alone, as `updateEmployee` does.

`Employees` are (company, employee) rows. A shift id (a uuid) is the id of the
row that began the shift: unique, and never reused. Geolocation, sources, audit
rows, reasons and notes are left out. So is the check the route makes for a user
with an employee row in more than one company.

### ManualEntries

One employee. A cell is a company-local day and a job (or none): the local-day
arithmetic and the durations are abstracted, so an update to another non-zero
duration changes nothing here and an update to zero is `DeleteManual`.

- `Create`: authorization by the mode of the job (`ModeFor`) and the day's
  approval, and, under `override_only`, the first look for punches, which already
  locks them. `LockPunches`: the punches to supersede, `FOR UPDATE`. `Insert`:
  the insert and the marks; `Conflict`: the unique index refuses (23505). The index is keyed
  by the date *in UTC* of the local midnight, which two local days may share where a zone
  changes its offset (`UtcDay`, `Holders`). The runs give each day a date of its own
  (`OwnDay`); the theorems hold for any `UtcDay`. An edit in the timesheet review does not
  move a row over midnight here.
- `req[w].held` are the row locks. A wait and its grant are one step. A row
  inserted during the wait is not seen by Postgres' blocked statement; an insert
  after the grant leads to the same states. Two multi-row lockers that deadlock
  are resolved by Postgres killing one: `Disconnect`.
- `Copy`, `CopyCell`, `SkipCell`: `copyLastWeek` runs one `createManualEntry`
  after another, each in its own transaction, and swallows their errors (`After`).
- `DeleteManual` restores the punches of the entry. Deletes and edits from the
  timesheet review (`DeleteEntry`, `EditEntry`) do not. `TimesheetRows` says
  which rows they are used on.
- `ReviewRead`, `ReviewWrite`: `approvePeriod` and `unapprovePeriod`.

`ensureActive` is left out: no property tells an inactive employee apart.

### OfflineQueue

One tab of the web client. JavaScript runs one callback at a time, so everything
between two awaits is one step; the awaits are where other things happen.

- `req[c]` is what a caller's `apiFetch` has reached, for the punch page (`Page`)
  and for each call of `drainQueue` (`Drains`; there are two slots so that a missing
  guard could show). `Sent`: the bearer token is the one of the session at the
  moment of sending. `Decide` and `Unauthorized` are the server's answers, `Lose` is
  a `TypeError` of `fetch` or a 5xx, before or after the server has acted.
- `refresh` is `inFlightRefresh`, shared by all callers. `RefreshOk` stores the
  fresh session; `RefreshFail`, for any reason, drops it. Both go through
  `authStore.set`, whose subscriber is `Tick`: it clears the queue when the user
  changes and starts a drain. `SignIn`, `SignOut` tick too; `GoOnline` and `Reload`
  find the user unchanged.
- `Tap`, `PageAnswered`, `Enqueue`: the page posts one punch at a time
  (`isPending`), shows a 4xx and saves a transient failure.
- `ListQueue`, `SendNext`, `Settle`, `Remove`, `GiveUp`, `Finish`: one pass of the drain over
  the list it read at its start. The list goes on being sent after the queue was
  cleared, as in the code. `drain[d].pc # "idle"` is `drainInFlight`. The answer (`Settle`)
  and the removal of the row (`Remove`) are two awaits: a `Reload` between them, or a delete
  that IndexedDB rejects (`RemoveFails`, which also ends the drain), leaves a punch that was
  answered in the queue, and it is sent again.
- The queue is a set of ids: a later tap has a higher id and a later `queuedAt`.
  The clamp, the clock skew and the age limit are reasons among others for which
  the server may refuse (`Decide`'s second disjunct).
- `applied`, `lost` and `kept` of a tap are histories; nothing reads them but properties.
  `kept`: an answer arrived, but the punch was not removed after it.

A database that refuses to store or to list, a second tab, and the punch's location are left
out.

### Conventions of the smaller modules

Each has one group of rows and several people at them. A transaction is as many
steps as it has reads that another writer can make stale; a row lock is a guard
on the step that takes it, and a wait with its grant is one step. An action whose
name ends in `Fails`, `Stops`, `Dies` or `Restarts` is a crash, a lost connection
or a refused statement, and is possible at every step. Variables described as
history are read by properties only.

### Sessions

The refresh tokens of one person, who has several tabs open. `held[t]` is what
`authStore` of a tab has in memory, `disk` what localStorage has: tabs share the
second, not the first. `call[c]` is the request that a caller has under way.

- `RotateLock`, `RotateCommit`: `rotateRefreshToken`, the only transaction with a
  row lock. `CheckUser`: the route looks at the user after that commit, in another
  statement, so a rotation that will be refused has happened already.
- `FindTokens`, `UpdateTokens`: an UPDATE of many rows has a snapshot and waits for
  locked ones. A token inserted between the two is not touched.
- `SignOutFrom`, `RevokeOne`: the token in the body is the one held when the button
  was pressed, also when the call is answered 401 first and is sent again after a
  rotation. Single sign-on sessions then have their chain revoked.
- `SwitchOff`: `users.disabled_at`, or every company's switch. `BackChannelLogout`
  comes from the identity provider.
- Access tokens are not kept: one may be refused at any request (`Refresh`).
  `barred` is a history: the sign-in has been off ever since the request was made.

Signing out with a token that its own retry has rotated leaves the successor live,
and a rotation that commits after the snapshot of a change of password survives it.
Both are reachable here. `docs/sso.md` speaks of the chain of single sign-on
sessions, which is revoked; nothing is promised of the others.

### MagicLinks

`AskForLinks` reads the accounts on a number and the links of the last hour;
`IssueLink` inserts one link after another, with no transaction. `OpenLink` ..
`AnswerLink` are `consumeMagicLink`: one transaction on one connection, which runs
`authorize`, `findUserById` and the putting together of the answer on *another*
connection of the pool. `AcquireTimesOut` is Knex's. `AuthorizeLink` needs the
second connection only when single sign-on is compulsory. A link that is locked
does not expire: `expires_at` was looked at when the row was read.

### AccessGroups

One user and one company. An edit is `BeginEdit` (its own change of a group),
`ReadDesired`, `ReadCurrent`, and the write: `reconcileGroupAccess` reads without
locks what the groups grant and what the user has. A direct membership is left
alone. `overlapped` says that two edits have run at the same time and none alone
since: then the membership may be wrong, and the next edit that runs alone repairs it.

### EmployeePins

`RegeneratePin` and `SetPinManually` read the PINs in use; `WritePin` writes a row by
id. The partial unique index, over active employees with a PIN, stands behind both
and behind `Reactivate`. bcrypt and the fingerprint are one and the same PIN here. That the
index keeps PINs apart holds by its own guard, so no property says it. Reachable: a clerk who
has found the employee active sets a PIN that is written after a termination has taken it.

### Corrections

`ReadPending`, `CheckChange`, `ApplyChange`, `MarkRequest` are the parts of
`approveCorrectionRequest`: the request is read without a lock, the change is a
transaction of its own with its own check, and the mark is written by id. A
reviewer's server stops between any two. `AddOwnTime` and `InsertOwnTime` are the
employee's own entry, or the request it becomes when the day is approved or the
switch is off. A slot stands for a span of time: entries of one slot overlap.

### TimesheetTotals and PayPeriods

`TimesheetTotals`: shifts of work, breaks and time off are recorded one after
another; `Rounded` is `roundTimestamp` with its tie rule and grace, `Counted` and
`Total` are `buildTimesheetSummary` with entries clipped to the period. Its
states are every rounding rule with every sequence of shifts within the bounds. `PayPeriods`:
day after day, `ResolvePayPeriod` for every calendar, in a zone
with summer time; a day of four units makes the change of the clock a quarter of a
day, which is as good as an hour, since only "a whole number of days" matters.

### PayrollExports

`RunExport` is the preflight (every entry approved), `FindPrior` the export to be
replaced and the need to acknowledge it, `CollectTotals` the second read,
`RecordExport` the transaction at the end.

### Kiosk

`BeginPairing`, `CommitPairing`: the row lock on the code, and the device with its
token. Two screens are two tabs of one tablet, which share the token in
localStorage. `EnterPin` looks at the lockout, `AcceptPin` and `RefusePin` change it
after the hash has been compared. The lockout lives in the process
(`KioskRestarts`). An employee of `PinOwners`, or `Nobody`, owns the PIN typed.

### Badges

`PrintSheet` is the unlocked read of `bulkIssueBadges`; `IssueNext` locks the next
row and writes its version; all is committed at the end. `DeadlockAborts` is Postgres
ending one of two transactions that wait for each other. That a sheet names nobody twice is
an assumption: the page sends the members of a set (`EmployeesPage.tsx`), but
`bulkIssueBadges` itself removes no duplicates.

### PhoneCodes

The employee's number is verified by `StartPhoneVerification` (number, code and
sending in one transaction) and edited by the administrator, whose edit reads the
number first (`BeginNumberEdit`) and drops the verification if the new one differs
from what was read. The user's own number is the same with other columns. A code
confirms whatever number the row holds by then, and an administrator's edit leaves the code
alive (finding 7). `ConfirmWrongCode` changes nothing: the attempt is counted in the
transaction that the refusal undoes.

### Reminders

`sweepCompany`: `StartSweep` reads who is due, `ClaimReminder` inserts the claim
(unique per employee and day), `RemindEmployee` sends, or fails and leaves the claim.
Two workers may sweep; a job that died is run again.

### FirstRun and UpdateControl

`FirstRun`: `BeginSetup` is the first look, `StampInstallation` the UPDATE with the
sentinel in its WHERE, `CreateSuperAdmin` the rest. `CleanUpInstallation` stands for
the operator's procedures that clear the installation id. `UpdateControl`: the server
writes a temporary file, whose name all requests share, and renames it; a systemd
path unit notices, and `update-from-request.sh` runs the update, reports, removes the
request. `UpdateEnds` says that systemd may or may not remember a change it saw while
the service was active; `HostStops` that a reboot forgets it. systemd and its units
are modelled as the script relies on them.

### ApplianceUpdate

`update.sh`, step by step, beside the containers it moves. `CaptureRollbackState` notes the
commit, the image that has the *tag* (not the one the container runs), or none, and the number
of migrations, or `"?"`. `RunBackup` makes a dump of the schema there is and deletes the dumps
of over 14 days ago; `SkipBackup` is `SKIP_BACKUP`; `FetchSource` and
`PullImages` move the checkout and the tag, `BringUp` may replace the container,
`WaitForHealth` looks for health, `DecideRollback` compares the counts. `Migrate` and
`BecomeHealthy` are the api's own boot, one migration per transaction, and go on while the
script waits, rolls back or is dead. `PullFails` moves the checkout back but may leave the
tag where a half-done pull has put it. `UpdateKilled`, `ApiCrashes` and `HostRestarts`
happen at any time, `ApplyTunnel` and `Restore` are the two other things that bring
containers up. A schema is a number of migrations and a dump is the schema it holds;
`SchemaAt` says which one a release's code is for. `NightlyBackup` is cron's, with the same
pruning; `DumpAges` is the two weeks going by, after which the next backup deletes the dump (`old`). Histories:
`begun`, the schema that the last update began with, if it began from a working api;
`rotated`, the schemas whose last dump was deleted for its age; `waived`, that an update since
was run with `SKIP_BACKUP`.

A rerun of the installer is left out. Reachable: a migration that commits after
`DecideRollback` has read the count leaves the old code on a moved schema, against the comment
at `update.sh:262`; a migrated appliance that is left alone for two weeks has no dump of
before; after a pull that failed half-way the next restart starts the new image, with no dump
of its own (promised nowhere).

### KioskScreen

The page of a tablet and whoever stands before it (`Patrons`). Its three mutations
(`verify`, `scan`, `punch`) have one request each (`asked`): TanStack Query holds a request
made while the browser is offline and sends it on reconnection (`GoesOnline`), and runs
`onSuccess` and `onError` with the page as it is by then. The timers are actions: the idle
timer that a touch re-arms, and the countdown of the confirmation. `ResetToPin` is the one
way home, and what it forgets is what the property is about.

Reachable beside `HomeIsClean`: a scan, or an answer that comes late, opens a menu without
arming the idle timer, so it stays open, where the comment at `KioskPinPage.tsx:78-80` promises
that whoever walks away leaves no session; the answer to a punch of one person confirms over
the next one's menu, or shows its error on a page without buttons; a punch that was held
offline goes out for whoever is identified at reconnection.

### WeeklyGrid

A cell of the grid, an employee and a week in the URL (`person`), the fetched weeks (`grid`),
the editor (`editor`), the toast (`undo`) and one request of each (`saving`, `undoing`).

- `Press` is the editor's Save and Delete, disabled while a request is pending; whether it
  is an update or a creation depends on the id that the cell had when it was *fetched*.
- `SaveApplied` is the server's transaction. An answer may be lost (`NoCall`), which the
  page cannot tell from a refusal (`SaveRefused`).
- `SaveAnswered` runs `onSuccess`, which asks the page as it is by now: `editing` of the
  latest render. `UndoChange` is what the toast's button sends: it has the id of the
  entry, except that a deleted one is made anew for the employee the page shows.
- `CloseEditor` is Cancel, Escape (which does not wait for the answer) and the entry list's
  changes. `GoTo` is the picker or the browser's history, which closes no editor.
- `OthersChange` stands for every other change of the same cell: another browser, a punch,
  the entry list, the removal of punches, the copy of last week.
- A cell's punches are a number of hours and an entry remembers how many it superseded;
  `ManualEntries` has the rows and the locks. The cells are those of one day. `Takes` says
  whose punches an entry of a cell supersedes: its own, and, of an entry without a job, those
  of every job of the day (`TakePunches`), for `findOverlappingPunches` has no job to ask for.
- `subject`, and `of` in a request, are histories: the hours of the whole day that an undo
  should bring back, until the editor was closed, the page moved on or somebody else changed
  the day. `mixed` in it says that punches stood beside the entry when Save was pressed: the
  toast then remembers the total of both, and Undo makes it the hours of the entry.

Reasons and their validation, time off, the lock of approved days, the entry forms and the
filters of rows are left out.

### SettingsForms

One form, a person who edits it and others who store the same fields (`form` is one of
`Forms`). A form is described by how it fills its draft, what it sends, and what its answer
does; a field has one of `Values`, and secrets are sent only when typed.

- `Filled` copies the row into the draft, `Edit` changes one field of it, `PressSave` is the
  button, disabled while a save runs and while nothing is dirty; `Send` is what goes out:
  the fields the form compares or flags, or the whole draft.
- `ToConfirm`, `Confirm`, `Decline`: the company form asks before it changes the pay period.
- `Store`, `StoreHalf` are the server's updates (a group is saved by up to three calls).
  `OthersSave` is somebody else's. `Answered`, `Failed` are the answers, `Leave` closes.

Reachable beside `SavesSpeakForTheirAuthor`, and promised nowhere: a confirmed change of the
pay period sends `payPeriodType` alone, and the other edits stay in the draft
(`CompanySettingsPage.tsx:104-110`, `:160-165`); a company section does not fill its draft
again, so later saves resend what others have replaced since; what is typed while the
appliance's or the assistant's save is under way is dropped by the answer
(`ApplianceSettingsPage.tsx:214-220`); the answer to a save whose drawer was closed closes the
drawer that is open by then; clearing a job's description sends nothing, so it stays.

### Screens and ScreenCache

`Screens` is a table and has no state. For each section of the client's `resources.ts` there
are its calls, with the roles that the server's route lets through and the records they
write, and its reads, with the roles and the records they are put together from. A page, or a
modal or drawer open on a page, is a record: who is led to it (`CompanyTabs`, `TopBar`, the
routes of `App.tsx`), the queries it shows, and its changes, each with the calls it makes, the
queries its answer invalidates (`refreshes`) and those that are given the answer as data
(`adopts`). A query is named after its key; its parameters (employee, week, filter) are
`chosen`: on screen is the one that is followed, or another.

`ScreenCache` follows one query of one person's tab through the screens that show it or change
it. The cache is TanStack Query's, modelled from how `src/` uses it: `Mount` reads what is
missing or old; `Invalidate` begins a read anew, unless it is the first one or nobody is shown
its answer; `Adopt` lets a read that is under way go on. `SendChange`, `StoreChange`, `Answer`
and `LoseAnswer` are a mutation; `Open` and `Select` may come at any moment, so an answer finds
the page as it is by then: `aimed` says whether its invalidation names the selection that was
changed (four pages compute the key when the answer comes: `RefreshesSelection`). `Age` is
`staleTime`, `Forget` the five minutes after which a cache entry that is not shown is dropped.
`owed` is a history: the changes whose answers obliged the screen.

What the tables show; no document promises otherwise but where it is said:

- Not refreshed (`MissingRefresh` and what `Followed` leaves out): the record made by a request
  whose second half failed (`EmployeesPage.tsx:350-358`, `TeamPage.tsx:192-205`), an import
  until "Done", the appliance's name in the bar for five minutes, the assistant's button for
  one, an entry's history opened again within 30 seconds of an edit.
- Another page may show what was before the change for 30 seconds (`staleTime`); only the page
  the change was made on refreshes, and only its own queries.
- An invalidation while the query is not shown and an older read of it is under way is undone
  by that read's answer (`Overtaken`).
- Offered and refused: every member has the tabs Employees and Jobs, with
  buttons only administrators may use, and an employee not even the roster; "Delete" on the
  review page is shown to supervisors (`TimesheetsReviewPage.tsx:269-273`) and refused
  (`services/timesheets.ts:343-346`). "Submit for approval" on an employee's own grid is a
  supervisor's call too, and that one a document promises (section 5).
- The cache is not cleared at sign-out (`TopBar.tsx:43-59`).

The layout of pages, the texts, the pages for signing in and setting up, and queries that only
feed a choice of a form are left out.

## 3. Runs

States and times are those of two workers on a small machine.

| Run | Module, bounds | Checks | Shows |
|---|---|---|---|
| `punch_clock` | 1 employee, a kiosk and a phone that replays, sweep, job `j1` or none, 5 instants, 3 rows; 670 000 states | `TypeOK`, `SnapshotCurrent`, `DurationMatches`, `ShiftContiguous`, `NoDoubleCounting`, `ClosedIsFinal`, `ImplementsShiftClock` | the advisory lock alone makes each punch act on current data; the table implements one clock per employee |
| `punch_review` | a kiosk, a sweep, a supervisor who moves a start, reopens a row, turns work into a break, deletes, adds an hour; 3 instants, 2 rows; 170 000 states | `NoShiftStaysOverdue` (under fairness) | with unlocked writers a punch made illegal by an edit rolls back and frees its lock, and the sweep still ends every overdue shift |
| `manual_entries` | a supervisor, the employee, one day, one job or none, `override_only`, 3 rows; on the page two employees, a day of two cells (no job, and a job), two entries and three changes; a form with two fields and two values; every screen with two changes; 4 690 000 states | `TypeOK`, `SupersedeLinks`, `NoTakeover`, `UndoRestoresEntries`, `SavesSpeakForTheirAuthor`, `YourChangesShow` | row locks keep both ends of the links in step, no hours are hidden without a manual entry in force; an undo of an entry that stood alone puts the day back; a save says what its author meant; a change is shown |
| `people` | two tabs, administrators of two groups, clerks, reviewers, three shifts, a number and its edits, a tablet with two people, three releases; 3 480 000 states | `TypeOK`, `OneLiveToken`, `SwitchedOffStaysOut`, `AccessFollowsGroups`, `AddedOnce`, `NothingCountedTwice`, `HomeIsClean`, `RestorePoint` | what people do to the same rows at the same moment leaves one live token, the right access, and time that is added once and counted once; updates that fail anywhere leave a way back |
| `appliance` | three browsers and three connections, two tablets, printers, wizards, workers, exporters, operators, a year of 110 days, a phone with two taps and two calls of `drainQueue`; 190 000 states | `ApplianceTypeOK`, `ReplayedInTurn`, `LinkUsedBySession`, `OneDevicePerCode`, `BadPinsBounded`, `CardsAreNew`, `SetUpOnce`, `RemindersBounded`, `OneExportInForce`, `UpdateServed`, `PeriodsTile`; `OpeningAnswered` and `DrainsEnd` under fairness | what must happen once happens once, through failures at any step, replays keep their order, and nobody waits for ever |
| `punch_edit_race`, `manual_timesheet_delete`, `manual_after_approval`, `manual_copy`, `offline_expiry`, `biweekly_dst`, `phone_number_change` | see section 5 | one property each, violated | the findings |

What the less obvious properties say:

- `SnapshotCurrent`: between the read under the lock and the commit, the open
  entry a transaction acts on is still the employee's open entry, unchanged.
  This is the whole use of the lock; the other properties of the run follow.
- `ShiftContiguous`: every row of a shift but the first starts at the instant
  an earlier row of it ended. A lunch split adds two such rows in one commit.
- `NoDoubleCounting`: two rows overlap only when one of their shifts was begun by
  a replayed offline punch. A replay may name an instant inside a closed entry,
  and the code accepts it; nothing else overlaps.
- `ImplementsShiftClock`: `ClockOf` reads an employee's clock off the table (the
  open row's type, and the job of the latest work row, which a break returns to),
  and every commit is a step of `ShiftClock` or none.
- `SupersedeLinks`: a punch and the manual entry that hides it name each other, and hours
  are hidden by an entry in force only (`LinksAgree`, `HiddenByLiveEntry`).
- `NoTakeover`: a superseded punch never passes from one manual entry to another
  without being given back first.
- `ReplayedInTurn` (`AppliedOnce`, `OldestFirst`): replays keep their order. The server does
  not recognise a punch it has seen, so it carries one out twice when its answer was lost, or
  when the phone did not remove it after the answer: a reload or a failing delete between the
  two. Nothing else can: not two drains, not a refresh, not a session that comes and goes.
- `DrainsEnd`: once the tab is not reloaded any more, a drain that has begun ends, so
  `drainInFlight` locks no later one out. That a later one begins is not said: nothing but the
  `online` event, a sign-in, a reload or the button begins one (section 5).

- `OneLiveToken`: of two tabs that rotate the same token, one is refused, so a
  sign-in never has two live refresh tokens.
- `SwitchedOffStaysOut`: the user is looked at after the rotation; a request made
  while the sign-in was off gets no tokens unless it was switched on meanwhile.
- `AccessFollowsGroups`, `OneExportInForce`, `AddedOnce` have a
  history variable for the one interleaving the code does not exclude
  (`overlapped`, `crossed`, `raced`) and say what holds without it,
  through failures at every step: an edit that runs alone repairs what others left;
  a run that stopped anywhere leaves one export in force; a request that was applied
  but not marked is not applied twice. The last two interleavings are findings (section 5).
- `LinkUsedBySession`: used up *exactly when* it has opened a session. A refusal, a
  time-out or a crash after the row was locked leaves the link usable.
- `OpeningAnswered`: with all connections held by openings that each want a second one,
  nobody can go on; the time-out lets everybody go, refused.
- `CardsAreNew`: a card that is being printed has the version after the employee's
  badge, so of two sheets that share an employee the later one is valid.
- `UpdateServed`: when the request file is gone and nothing runs, an update has begun
  after every click that was not answered with an error. A request that a reboot
  left behind is still there, so it is not lost, though nothing starts it.
- `NothingCountedTwice`: the work of a period is at most the rounded span from the
  first clock-in to the last clock-out, however entries touch and are rounded.
- `PeriodsTile`: as days go by, the next period begins where the last one ended.
- `RestorePoint`: once the schema is no longer the one that an update found on a working
  appliance, there is a dump of that one, through any number of further updates that fail
  at any step: a rerun from a broken appliance must not count as a new beginning. It is
  excepted that the dump is gone for its age (`rotated`: two weeks, and a backup after them)
  and that the operator waived it (`waived`: `SKIP_BACKUP`).
- `HomeIsClean`: on the first page there is no session that a tap could punch for, and a
  paused scanner has an answer to come that releases it, however late answers are.
- `SavesSpeakForTheirAuthor`: a save of a form that sends what was edited (`SendOwnEdits`)
  changes no field that its author has not edited since his last answered save; and a draft
  loses an edit only to its author, to the answer of the save that carried it, or, typed while
  a save was under way, to that save's answer.
- `YourChangesShow`: once nothing is being read and no read has failed, a shown query holds
  every change that the person was answered for and whose answer refreshes it.
- `UndoRestoresEntries`: an accepted undo of an entry beside which no punches stood
  (`~mixed`) makes all cells of its employee's day show what they showed when Save was pressed,
  those, too, whose punches an entry without a job had taken, and changes nobody else's. It says
  what that takes: the grid was true when the button was
  pressed, the editor stayed open until the answer, the page shows the same employee, and
  nobody else has changed the day. Without any one of these the code can do otherwise.

### Bounds and why they are enough

`appliance`, `people` and `manual_entries` check components that share no state, in one run: a
behaviour chooses its component at the start (`part`), so the states add up and do
not multiply, and every bound is the component's own. `appliance` has the two that
need liveness (links and the queue) and is small; `people` is for safety only, and symmetric
in its people.
Where two actors race, two are enough to break each lock or index that was taken
away (every property has such a mutant); `MagicLinks` has three, since two that hold
two connections can never finish both, lock or no lock, and three connections, so
that all of them can be held at once. `MaxTokens = 3` is a sign-in and two
rotations. Three employees and three PINs leave a PIN free, taken, and taken since.
Three releases, of which the second adds two migrations and the third none
(`MCSchemaAt`), hold a migration cut off half-way and an update after a failed one. On
the grid, an employee's day has the cell without a job, whose entry takes the punches of both,
and the cell of a job, whose entry takes its own (`MCTakes`); two entries are one that was
deleted and its successor, or one in each cell, and three changes are a save, what comes
between, and an undo. A form has two fields, one edited
and one not, and two values. On the screens, two changes are one whose answer is late and one
made meanwhile; every role, every refreshed query and every screen that concerns it are
tried. A change that neither refreshes nor shows the query followed is not made: nobody was
promised to see it.
`LastDay = 110` of `PayPeriods` passes both changes of the clock and four months.
`Horizon = 7` with intervals of 2 and 4 holds ties, graces and an entry over the end
of the period.

One employee: operations on different employees share no row, no lock and no
index entry, and the proofs cover any number. Two sessions and the sweep: the
races are between two transactions, a third that holds the lock adds waiting.
Three rows hold every row a single operation writes (a lunch split leaves three),
and a shift with its successor and one more; two rows are enough for a reopened
row beside an open one, and for a manual entry over a punch. Five instants let a
shift pass `AutoAfter = 2` with a punch before, at and after the limit, and hold a
lunch of 1 in a stretch of 2 (the threshold `LunchPrompt`). `OfflineMaxAge = 2` is
below the horizon, so replays are also refused. `CHECK_DEADLOCK FALSE`: the clock
and the table are bounded, so the model stops at its bounds.

For the offline queue: an order needs two taps, two overlapping drains need two
slots, and one user is enough for the punches' fate under a session that comes and
goes. The page's button is `clockIn` alone; every other change of the employee's
clock comes from `Elsewhere`, which ranges over all operations. `MaxTaps` stands in
the guard of `Tap`, and `applied` stops counting at two.

`MaxTime` and `MaxRows` stand in guards (`Tick`, `LockAndRead`, `Acceptable`,
inserts). A transaction that would pass `MaxRows` rolls back, which the code can do
at any time for other reasons.

### Fairness

`FairSpec` assumes: the clock advances; a request that reached the server is
carried through unless its process dies (weak fairness of `Serve(s)`; Express
handlers are not abandoned and the lock wait is a Postgres queue); the sweep runs
for ever (weak fairness of `SweepScan`: a BullMQ repeatable job every 5 minutes);
a candidate that lost its lock to a punch, or whose commit was cut off by a crash,
is tried again on a later sweep and gets through some time (strong fairness of
`AutoRead` and `Commit(Cron)`). `Disconnect` is never fair, and nobody is assumed
ever to punch. `NoShiftStaysOverdue` needs all of these.

`LinkFairness` (`MagicLinks`): Postgres grants a row to its waiters in order (strong
fairness of `LockLink`: the row is free again and again), and a transaction that has
the row goes on or its wait for a connection times out (weak fairness of `OpenStep`).
Nobody is assumed to open a link.

`OfflineQueue`'s `Fairness` assumes that the client runs: a stage of a drain that can go on
goes on, a request ends with an answer or without one, a refresh succeeds or fails, and
IndexedDB settles a delete (weak fairness of each). Nobody is assumed to press "Sync now", to
come online or to sign in, and which way a request or a delete ends is left open. A reload
forgets the drain and begins another, so `DrainsEnd` itself assumes that reloads end
(`<>[][~Reload]_vars`). In the other components of the run no drain begins and nobody opens a
link, so the fairness asks nothing of them.

## 4. Proofs

Every theorem holds for every value of its module's constants, from the named
`ASSUME` of that module only, which TLC evaluates in the runs.

| Theorem | Module | Needs | Says |
|---|---|---|---|
| `TypeCorrect` | `PunchClock_proofs` | | `Spec => []TypeOK` |
| `LockSuffices` | | `Editors = {}` | `SnapshotCurrent` |
| `ClosesAreFinal` | | `Editors = {}` | no step rewrites a closed row |
| `DurationsMatch` | | `Editors = {}` | a closed row's duration is its span |
| `ShiftsHaveNoGap` | `PunchShifts_proofs` | `Editors = {}` | `ShiftContiguous` |
| `TimeCountsOnce` | | `Editors = {}` | `NoDoubleCounting` |
| `ServiceIsShiftClock` | | `Editors = {}` | the table implements `ShiftClock`, one clock per employee |
| `ManualTypeCorrect`, `NoTakeoverEver` | `ManualEntries_proofs` | | `ManualTypeOK`; `NoTakeover` |
| `SupersedeLinksAlways` | | `"manual" \notin TimesheetRows` | `SupersedeLinks` |
| `QueueTypeCorrect`, `ReplaysInTurn` | `OfflineQueue_proofs` | | `TypeOK`; `ReplayedInTurn`, both halves |
| `AddedOnceAlways` | `People_proofs` | | `AddedOnce` |
| `AccessFollows` | | | `AccessFollowsGroups` |
| `RoundedStretchesApart` | | | rounded stretches of an employee do not overlap |
| `NothingIsCountedTwice` | | | `NothingCountedTwice` of `TimesheetTotals`, for any number of shifts |
| `RestorePointAlways` | | | `RestorePoint` of `ApplianceUpdate`, for any releases |
| `PeopleTypeCorrect` | | | `TypeOK` of `MCPeople`, its eight components |
| `OneLiveTokenAlways`, `SwitchedOffStaysOutAlways` | `Sessions_proofs` | | `OneLiveToken`; `SwitchedOffStaysOut` |
| `LinkUsedBySessionAlways` | | | `LinkUsedBySession`; uses no fairness |
| `OneDevicePerCodeAlways`, `BadPinsBoundedAlways` | | | `OneDevicePerCode`; `BadPinsBounded` |
| `HomeIsCleanAlways` | | | `HomeIsClean` of `KioskScreen` |
| `UpdateServedAlways` | `Appliance_proofs` | | `UpdateServed` |
| `SetUpOnceAlways` | | | `SetUpOnce` |
| `LastExportInForce` | | | `OneExportInForce` |
| `RemindersStayBounded` | | | `RemindersBounded` |
| `PeriodsTileAlways` | | | `PeriodsTile` |
| `CardsAlwaysNew` | | | `CardsAreNew` |
| `ApplianceTypeCorrect` | | | `ApplianceTypeOK` of `MCAppliance`, its nine components |
| `CalendarPeriodsHoldTheDay` | | | `PeriodContainsDate` for every calendar but a bi-weekly one, where finding 6 refutes it |
| `SavesSpeakAlways` | `Pages_proofs` | | `SavesSpeakForTheirAuthor` |
| `UndoRestoresEntriesAlways` | | | `UndoRestoresEntries`, for any cells and any `Takes` |
| `YourChangesShowAlways` | | | `YourChangesShow` |
| `PagesTypeCorrect` | | | `TypeOK` of `MCManualGrid`: manual entries, grid, forms and screens |

The assumptions of the modules say what a constant is: a finite set of screens or roles, a
positive limit, a stage that is not a value. `MonthsAssumption` (`PayPeriods`) says that every
day lies in a month of 28 to 31 days, which is what a calendar is. Of the fixed tables of
`Screens` nothing is assumed.

### PunchClock

- `TypeOK` is not inductive: a commit indexes `entries` by the id the transaction
  read. `TypeInv` adds that this id is a row of the table (`PointsAtRow`; rows are
  never removed) and that a lunch fits in the stretch it splits (`LunchFits`, from
  the threshold), so that no start or end is negative.
- `OpenInv` adds the index itself: one open row per employee. It is a lemma for what follows,
  not a result, since the index guards every write. Each step that changes the table either commits
  a legal table (`Acceptable`), edits to a legal one, deletes, or appends a closed row.
- `SafeInv` adds, for each transaction, `SafeAt`: it holds its employee's lock,
  what it read is current, and its row was open. A step of another transaction on
  the same employee needs the lock, so it cannot move; on another employee it
  changes other rows; editors are absent by assumption. `ClosesAreFinal` and
  `DurationsMatch` follow, since then a commit closes the row it read, at the start
  it read.

The assumption `Editors = {}` is necessary, not a convenience: with an editor
`DurationMatches` fails (finding 1), and a reopening edit is a rewrite of a closed
row by design. An editor may also move a row off its neighbours or over another,
which is why the three theorems that follow need it too.

### Shifts and the abstract clock

`PunchShifts_proofs` goes on from `SafeInv`.

- `TimeInv` adds the times. No row begins or ends in the future, and a shift is named by an
  earlier row of the same employee, or by its own first one (`RowSound`). A transaction that
  has the lock (`Fresh`) has an instant in the past, not before the start that it read. A job
  switch finds no row of its employee begun at its instant, which is what the tick that
  `LockAndRead` uses up is for; a replay may claim the instant of a row there is, and is never
  a job switch. An online clock-in finds every row of its employee ended. With `TimeInv`,
  `ShiftContiguous` is inductive,
  because a commit that adds a row to a shift ends another at that instant.
- `TimeCountsOnce` needs besides that of two rows in shifts that were not replayed, the earlier
  has ended when the later begins (`Ordered`), and that no row ends before it begins.
- `ClockInv` adds that an open row is the last of its shift and that the shift has *one* job
  to go back to, so that `ClockOf`, which chooses one, is determined. The refinement is then
  proved step by step: a commit of an operation is the step of `ShiftClock` of that name for
  its employee, and every other step leaves every employee's clock where it was.

### ManualEntries

`LinkInv` is the types with three facts. `RequestsSound`: what a request has decided and
locked so far is what its stage says. `LocksExclude`: no two requests hold a row. `RowsLinked`:
a mark on a punch names a row that lists it, and a manual row in force has all its punches.
A request inserts and marks in one step, and what it marks it has held since it last looked,
unsuperseded; everything else that would change such a row has to wait for it. `NoTakeover`
needs no more. `SupersedeLinks` needs also that what hides a punch is in force
(`HoursInForce`), which the timesheet review breaks when it may delete manual rows: that is
finding 2, and the assumption names exactly it.

### OfflineQueue

Neither half of `ReplayedInTurn` is inductive: whether a punch may be sent depends on what
a drain has still on its list, saved or not, and on what the server has made of it.
`QueueInv` says which part of the queue a drain has (`Turn`: the older part, and it asks for
the oldest of it), that there is one drain (`OneDrain`), that the page's own punch is the last
one and not saved yet (`PageFirst`), and for each punch that is asked for (`HasAnswer`) or
waits (`Untried`) that it has been carried out at most when its answer is on the way, was lost,
or came and the punch was kept. A reload, a failing removal, a second `tick`, a refresh in
between or a change of user keeps all of these, so
`drainInFlight` and the order of the list are enough.

### The other modules

The inductive invariants have one shape: who holds a row holds it alone, and what it
read is still so.

- `SessionInv`: `LockedIsLive` (a token that is being rotated is live),
  `OneRotation` (one rotation of a token at a time), and who refers to which ids. A
  rotation revokes the one live token of its sign-in and appends the next. `BarredInv`:
  a request made while the sign-in is off is in no state that grants, as long as it stays off.
- `LinkInv`: `HeldIsOpen` and `OneHolder`. A visitor that has the row of a link finds
  it open until it commits, because a second one waits and expiry was looked at already.
- `PairingInv`: `UsedIsOpen`, `OneUser`, `PairedIsOver`: the code of a device is over, a
  code that is being used is open.
- `LockoutInv`: without a lockout, the count of failures is that of the tries there were;
  with one, the tries and the bad PINs that are still being compared fit the bound together.
- `BadgeInv`: `RowHeldOnce`. Nobody else's commit changes the badge under a card.
- `PhoneInv`: the types and `CodeWasSent`, a live code was sent to a number. That it was sent to
  the number on the record is what finding 7 refutes.
- `CorrectionInv`: `RowsWhereAsked` (a row of a request lies in the slot it asked for) and
  `NothingStandsYet` (a reviewer who is about to add has found nothing that stands for the
  request, and it is still so, unless two are at it).
- `AccessInv`: `AloneIsAlone`, `DesiredStands`, `CurrentStands`: beside a transaction that runs
  alone there is no other, and what it has read of the groups and of the membership still
  holds, but for its own change and a direct membership that came in between.
- `ExportInv`: `OneRun` and `PriorStands`: short of an overlap one run is under way, and
  the export that it found and will replace is still the last one.
- `ReminderInv`: who was found due has room for another claim or has today's already, and a
  claim that was not sent belongs to one worker. The unique index is its base; that a worker
  stops between claim and message loses the message and never doubles it.
- `FormInv`: a form that sends edits has drafted and sent nothing else (`OwnEditsOnly`), and an
  edit is in the save that is under way or came after it (`EditsAreCarried`).
- `GridInv`: `TableInv` (the server's entries, one live one per cell, and what they took was their
  own to take), the types of the page (`GridTypeInv`), and, while
  nobody else has come to the day, `SubjectFits`, `UndoingFits`, `SavingFits`: the editor, the
  toast and the two requests name the entry, the employee and the hours that the server needs
  to bring the day back (`Undoes`: what a change leaves in each cell and what it enters add up
  to the hours remembered). Each action of the page moves the claim from one of them to the next.
- `ScreenInv`: data without an owed change is stale (`OldIsRead`: and, when shown, being read
  or failed), a read that the server has answered brings what is owed (`ReadBrings`), and an
  answer that is given to the cache as data has the change in it (`AnswersTell`). That a change
  which is owed refreshes the query, or is its data, is a fact about the tables of `Screens`
  (`ScreenTables`), proved from the records that calls store (`StoredBy`) and queries are put
  together from (`PutTogether`), screen by screen (`Telling`).
- `PeriodInv`: the period is the one of today. The rest are lemmas about the calendar: midnights
  grow whatever the clock does, so a civil day is determined by its midnight and `AddDays`
  counts civil days (`AddedDays`); and the day after has the same week, fortnight, half or
  month, or the next. The fortnight is the hard one: elapsed time rounded down grows by 0, 1
  or 2 days at once, and so by no more than one fortnight.
- `ShiftsFollow` (`TimesheetTotals`): recorded shifts follow each other; `RoundingKeepsOrder`
  is the lemma that an instant rounded as an end never passes a later one rounded as a
  start, ties and the grace included. `NothingCountedTwice` bounds the result of a loop over the
  entries, `Tally`. The library's induction cannot be used on it (it takes an operator), so the
  least counterexample is taken instead (`WFMin`): `LoopRuns` says that such a loop can be run,
  `TallyIsLoop` that the tally is its last value, and if the work up to some entry passed the
  rounded span, there would be a first such entry, and the one before it would refute it.
- `SetupInv`: `StampedFresh` (a wizard that goes on has found the appliance untouched and
  no wizard through) and `SentinelSpent` (once one is through, the sentinel is gone, and
  the operator's procedures do not bring it back).
- `UpdateInv`: `ClickOnItsWay` (an unserved click is still to be renamed, or the request
  file is there) and `ServedWhileUpdating` (while an update runs, every click is served).
- `ReleaseInv`: `HealthyFits` (a healthy api has the schema of its release) and
  `NothingMoves`: unless it is `Covered` (there is a dump of it, or one was rotated away, or the
  operator waived it), the database is as it was when the update began, no
  newer release has reached the tag or the container, and the script is before its dump.
- `TabletInv`: `HomeIsClean` itself with the types: every way home passes `ResetToPin`, and
  every answer that can find the page at home releases the scanner or leaves it.

### The types of the composed runs

`PeopleTypeCorrect`, `ApplianceTypeCorrect` and `PagesTypeCorrect` are about the composed
specifications: in a behaviour of one component the others do not move. Most components' types
are conjuncts of the invariants above. Some need more than a property does:

- `Sessions`: what replaces a token is a later token of the same sign-in. `PayrollExports`: what
  replaces an export is a later one, and a run has found one of them. `Kiosk`: a tablet's token
  is that of a device that there is.
- `AccessGroups`: ids are given out in order, and the role that groups add up to is the highest
  of finitely many (`IsFiniteSet(Roles)` is assumed: `ROLE_RANK` has three).
- `PayPeriods`: no period is empty.
- `WeeklyGrid`: `PunchesFit`: punched hours are a cell's, or those that its entry superseded, so
  that deleting an entry gives back no more hours than there were; and the page remembers only
  entries that were made.

### What is only model-checked

- Liveness: `NoShiftStaysOverdue`, `DrainsEnd`, `OpeningAnswered`. Arguments
  from fairness need `ENABLED`, which is beyond the prover.
- The findings' properties, which are refuted.

Every other property of a passing run is stated by a theorem.

## 5. Findings

1. **An edit in the middle of a clock-out** (`punch_edit_race`). `editEntry` locks
   the row but not the employee, so it can commit between `closeOpen`'s read and
   its update. The update then closes the moved row with a duration measured from
   the old start. `punch.ts:244` says the lock serializes every mutation.
2. **A manual row deleted from the timesheet** (`manual_timesheet_delete`).
   `deleteEntry` does not give superseded punches back: they stay hidden by a
   deleted row and leave every total.
3. **An approval in the middle of an employee's manual entry**
   (`manual_after_approval`). The approval is read before the row locks are
   granted, and not again: an approved punch is superseded by the employee.
4. **A second job on a day** (`manual_copy`). `copyLastWeek` skips a day that has an
   entry of any job, the one it has just copied included.
5. **A session that expires with punches queued** (`offline_expiry`). A failed
   refresh sets the session to null, which `tick` takes for a change of user: it
   clears the queue. `offline-queue.ts:199-200` promises that a fresh login sends
   what was queued against an expired token.

6. **A bi-weekly period across a change of the clock** (`biweekly_dst`).
   `resolveBiWeekly` divides elapsed milliseconds by 24 hours and rounds down. With an
   anchor before summer time, the first day of every period in summer time is one hour
   short and resolves to the period before. `pay-period.ts:31` promises the period that
   contains the date. The periods still tile (`PeriodsTile`): they are found a day late.

7. **A number changed while its code is out** (`phone_number_change`). A code verifies whatever
   number the row holds when it is typed, and an administrator's edit leaves the code alive: the
   code sent to the old number verifies the new one. `employees.ts:259-261` promises that a
   change of the number invalidates "any prior verification", lest an edit bypass the proof.

Five more disagreements with a document were met where a property holds short of them. The
property says what is left. In all but 9 a history variable marks the exception, and the
passing run shows that there is no other:

8. **An answered punch is sent again** (`appliance`, `ReplayedInTurn`). The answer and the
   removal of the row are two awaits (`offline-queue.ts:169`, `:173`, `:178`), and what comes
   between leaves an acknowledged punch in the queue. `offline-queue.ts:18-19` says that the
   queue retries "until the server acknowledges or explicitly rejects".
9. **The queue does not flush by itself** (`appliance`, `DrainsEnd`). A drain that gives up
   (`offline-queue.ts:183`) is followed by another only on the `online` event, a sign-in, a
   reload or a press of "Sync now". When the appliance was down, the phone never went offline.
   `docs/admin-guide.md:297` and `:301-302` promise an automatic flush and that employees need
   do nothing.
10. **Two exports that overlap** (`appliance`, `OneExportInForce`, `crossed`) find the same prior
   export and are both in force, the earlier unlinked and unacknowledged.
   `docs/exports/README.md:33-36` and `engine.ts:78-81` make no such exception.
11. **A correction is not one transaction** (`people`, `AddedOnce`, `raced`). The change is a
   transaction of the punch service, the mark another, and no lock keeps two reviewers apart,
   who may add the time twice. `correction-requests.ts:102-107` says "All-or-nothing in a single
   transaction" and "serialized via advisory lock".
12. **Undo of an edit beside punches** (`manual_entries`, `UndoRestoresEntries`, `mixed`). The
   toast remembers the total of the cell and writes it back as the hours of the entry
   (`WeeklyGridPage.tsx:183`, `:381-385`), so the punches count twice.
   `ADDENDUM_TABULAR_ENTRY.md:179` says that edits can be reverted.

At odds with a document as well, and shown by no run of its own:

- "Submit for approval" on the grid is there for an employee, as `ADDENDUM_TABULAR_ENTRY.md:181`
  asks, and its call is refused to employees (`WeeklyGridPage.tsx:672`,
  `routes/timesheets.ts:211`). That is one row of a table in `Screens`.
- Migration 028 (`:81-82`) takes the UTC date of a local midnight for its local day. They agree
  in most zones; a zone whose midnights are 00:00 UTC in winter and 23:00 UTC in summer (London)
  has two local days with one date when summer time begins (`UtcDay`), and the index (`:85`)
  then allows one of them an entry of a job.
- `update.sh:262` rolls back only when "sure migrations didn't move forward", but the api it
  has started may commit one after the count was read.
- A scan or a late answer opens a menu of the kiosk without its idle timer
  (`KioskPinPage.tsx:78-80`).
- The sweep closes a row at its start plus the limit (`auto-clockout.ts:44-55`). It re-checks
  after the lock that the row is open, not that it is still overdue (`BUILD_PLAN.md:181`): a row
  whose start a supervisor has moved on since the scan is closed in the future.
- A PIN set by a clerk who found the employee active is written after the termination
  that cleared it (`employees.ts:278-279`, `:345`): the comment says that terminating frees the
  fingerprint for others.

What the models reach and no document promises otherwise, so that it is noted and not
a finding: the successor of a rotated token outlives a sign-out or a change of
password (`Sessions`); an own entry or an administrator's overlaps one inserted
between its check and its insert, also on a day approved meanwhile (`Corrections`,
`PunchClock`); an approval and a rejection overwrite each other; two
overlapping edits of groups leave a wrong membership until the next one; a
request for an update that a reboot interrupted blocks later ones until the file is
removed; and what the sections on `ApplianceUpdate`, `KioskScreen`, `WeeklyGrid`, `SettingsForms`
and `Screens` name.

## 6. Not modelled

- **Views, reports, schemas and texts.** A large part of the repository parses requests, queries
  rows for views and reports, lays out pages and writes messages. They keep no state, or are one
  statement over rows modelled here. About a third of the implementation's lines is mapped.
- **Outside protocols**: OIDC, mail, SMS, the tunnel, AI providers; cryptography; packaging.
- **The badge-scan lockout**: the shape of the PIN lockout with a sliding window of times.
- **Tunnel changes**: the request file without the look that updates make first; a second
  request replaces the first one.
- **The log of an update** (`readLogChunk`): reads by offset.
- **Overtime and the split by day** (`summary.ts`): sums over a work week whose shape is data.
- **Reminders of missed punches** (`missed-punch-cron.ts`): no claim, only a look at the log;
  two sweeps that overlap send two.
- **Users with employee rows in two companies** (`routes/punch.ts:86-104`): the check is
  outside the lock, see the hazards.
- **A second user on one phone, or a second tab, in `OfflineQueue`**: the steps are there,
  with one user and one `drainInFlight`.
- **Which fields an edit of an approved row may change** (the matrix of `timesheets.ts`): it
  narrows the edits that `PunchClock` and `ManualEntries` allow.
- **Expiry of refresh tokens**: an expired token is refused like a revoked one.
- **Retention, backup**: single statements and exports of data.
- **The sign-in, setup and password pages, the service worker**: one request each; static files.
