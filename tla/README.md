# Filmate: TLA+ models of its queue, its ledger, its sessions and its files

Filmate turns scripts into images, audio and video. Requests become rows of a
task queue; one worker inside the server process hands them to paid providers,
survives restarts without submitting again, and every provider call is charged to a
user's credits. Next to it an agent writes the scripts in long-lived sessions,
jobs edit the files of a project under file locks and copy them to an object
store, and open pages follow a project's changes over event streams. All of it
is concurrent (asyncio coroutines and threads around one database, on SQLite by
default and on PostgreSQL in deployments), is cancelled, restarted and
reconfigured while it runs, and its mistakes cost money or work. That is what
these modules are about.

Paths are those of the repository. Line numbers of every definition are in
`PROJECT.json` ("map").

## 1. Inventory

| component | state | operations | talks to | what is hard | correct when |
|---|---|---|---|---|---|
| task table (`lib/db/repositories/task_repo.py`) | `tasks`, `task_events` | enqueue, claim, succeed, fail with cascade, cancel with cascade, cancel all, requeue | queue facade, worker, SSE readers | reads without locks before writes; cascades; dedupe by a partial unique index | one active task per key, dependency order, complete cascades, truthful log, ADR 0006 life cycle |
| queue facade (`lib/generation_queue.py`) | the worker's cancel callback | one session per operation, then the callback for each cancelling task | table, worker | the signal follows the commit | every signal reaches a live coroutine or the row is settled otherwise |
| worker (`lib/generation_worker.py`) | main loop, SlotTable, CapacityTable, dispatcher, stop event, lease flags | drain, scan orphans once, claim per media type, dispatch, cancel, reload, stop | facade, providers | cancellation at any await, crash between submission and persisting, two admission gates, reload | no task submitted by two calls, no row without an owner, capacity kept, cancellations end, waiting tasks are served |
| worker lease (`task_repo.py`, table `worker_lease`) | owner, expiry | acquire or renew, release | worker, queue client | renewal only between cycles; flapping and rescans | a process never takes its own work for an orphan, and leaves none |
| queue client (`lib/generation_queue_client.py`) | none | batch enqueue, wait with timeout and offline grace | facade | gives up while the task is alive; a dependency that failed before its dependent was enqueued | a waiter hears of the outcome, and every wait ends |
| task stream (`server/routers/tasks.py`) | a cursor per reader | snapshot, then events after the cursor | table | ids drawn before commit; reconnect | no reader is left with a wrong status |
| usage and credits (`usage_repo.py`, `usage_tracker.py`) | `api_calls`, `transactions`, `users.credits` | start with preflight, finish, finalize after resume, deduct | generators, recharge | balance read, awaited, written; success and charge in two transactions | books balance, nobody pays twice, charges match calls |
| recharge (`server/routers/transactions.py`) | `transactions` | create order, notification | WeChat Pay | repeated and concurrent notifications | a paid order is credited, once |
| administrator (`server/routers/users.py`) | `users.credits` | adjust, overwrite | ledger | unlocked read-modify-write, no transaction row | rows and adjustments together account for the balance |
| media generator (`lib/media_generator.py`) | files, versions | generate, resume | usage tracker, versions, backends | order of accounting, submission, persisting; submissions retried after a lost answer or a 413 | a resumed job is accounted for like a first one; only one call submits |
| versions (`lib/version_manager.py`) | `versions.json`, media files | track, add, restore | media generator, uploads | the file is written outside the lock of the index; index written in place | a version stands once it is recorded; file and index agree |
| agent sessions (`server/agent_runtime/session_actor.py`, `session_manager.py`, `service.py`) | actors and their queues, status, registry | send, interrupt, disconnect, finalize, clean-up | agent SDK, event log | commands racing a running turn, a turn that breaks, retries | no command is lost or run twice; turns follow one another |
| session event log (`event_log.py`, `entry_pipeline.py`) | rows with sequence numbers, live subscribers | append, delete, subscribe with replay | sessions, UI | live entries against replay, full queues, rollback of an entry | a message is delivered once; a reader has no gap |
| project files (`lib/project_manager.py`, `lib/media_storage/service.py`) | project.json, scripts, lock files, remote copies | update, locked edit of a script, generation, edit of an episode's script, upload with retry and rollback, reconciliation on first access | executors, agent tools, UI, object store | two locks, a binding read without them, uploads after the lock, remote copies put back under no lock by each new manager | no lost update; the remote copy catches up; no deadlock |
| change events (`server/services/project_events.py`, `server/sse_channel.py`, `useProjectEventsSSE.ts`) | a channel per project: queues, snapshot, watch task | subscribe, scan, batch rebuild, script_saved, deletion, shutdown | project files, pages | readings applied in any order, readers that come and break off, a project made again under its name | what changes is shown in the end |
| the rest | | script generation and validation, grids, episode ledger, archives, configuration, pricing, backends, auth, frontends, migrations | | sequential text, file or UI code | listed in `PROJECT.json` with the reason each is left out |

`PROJECT.json` "hazards" lists, line by line, what a test hardly reaches, with the
properties that cover it or the reason none does.

## 2. Modules

| module | models | built on |
|---|---|---|
| `TaskLifecycle` | abstract: which statuses may follow which | |
| `TaskTable` | the repository's transactions, any caller in any order | refines `TaskLifecycle` |
| `GenerationWorker` | the server process around the table | extends and refines `TaskTable` |
| `WorkerLease` | the lease, time, database errors, a second process | extends `TaskTable` |
| `QueueClient` | callers that enqueue batches and wait | extends `TaskTable` |
| `CreditLedger` | one user's balance, calls, recharges and an administrator's adjustments | |
| `SessionTurns` | abstract: what a session promises its callers | |
| `SessionActor` | the task that owns one session's SDK client | refines `SessionTurns` |
| `SessionTimeline` | posts, event log, status and one reader of a session | refines `SessionTurns` (`TakesTurns`) |
| `ProjectFiles` | jobs that edit one project's files, locks and uploads | |
| `ResourceVersions` | one resource, its file and its `versions.json` | |
| `ProjectEvents` | channel, watch task, rebuilds, readers and pages of one project | |
| `MC...` | small instances | |
| `...Proofs` | theorems about the module of that name; `TableUsersProofs` about `QueueClient` and `WorkerLease`, `SessionProofs` about `SessionActor` and `SessionTimeline` | |

### TaskTable

A task's identity stands for what INSERT fixes: key, project, dependency.
`status` is the column; `event` the status of the task's last `task_events` row;
`order` the rows by `queued_at`. Each method of the repository is one action,
since it either starts with a guarded UPDATE or rereads under one, with two
exceptions that decide on a SELECT which locks nothing: `cancel_task` is
`CancelRead` and `CancelDispatch` (`seen` is what it read) and
`cancel_all_queued` is `CancelAllRead` and `CancelAllWrite` (`listed`). Cascades
recurse in the code; here `Cascade(t)` is the least set closed under "queued and
depends on a member", which needs no recursion. `claim_next`'s SELECT and UPDATE
are one action: a loss of that race rolls back and returns nothing.

Left out: `cancelled_by`, results and messages, per-user scoping (folded into
the project), deletion of users. The cascade's branch for running dependents is
modelled (`Stirred`) although `RunsAfterDependency` shows that it never has any.
On PostgreSQL the statements of one cascade may interleave with other
transactions; the model takes them as one.

### GenerationWorker

An action is the code from one await to the next. `loop`, `cursor` and `held`
are the main loop's place, its media type and the task it has claimed but not
placed; `co` is where each coroutine stands, `resume` which of them are resume
sub-tasks; `slot` is the SlotTable, `cap` the CapacityTable, `permits` the
dispatcher's semaphores, `ring` the cancel signals on their way, `orphan` what
the start-up scan has listed; `job` is the `provider_job_id` column, `submits` how
often the provider has accepted the task, over crashes, and `tries` how many of
these times are of the latest call of the backend. `Submit` is the first of them.
`Resend` is one more within the same call: `_create_task` sits under
`with_retry_async` (`video_backends/ark.py:120` and four others), which takes a lost
answer for a transient error, and `media_generator.py:183-227` submits again, with
smaller references, after a 413. `Resends` are the tasks whose backend does this,
`MostSubmits` the most it can come to (three attempts on each of the ladder's
rungs); the others use `submit_post` and give up (`AmbiguousSubmitError`). `Signal` models
`asyncio.Task.cancel()` by the place it hits: a coroutine that has not entered
its `try` ends there, as does one in the failure write of `_process_task`, which
no handler encloses; everywhere else the handler writes the cancellation.
`Crash` keeps rows and jobs and loses the rest; `StopRequested` and `Exit` are the
orderly shutdown.

Left out: the lease (see `WorkerLease`); database errors, but for that of
persisting the job id; the yield between the main loop's scan and the
dispatcher's first step, which comes before the next claim returns;
`requeue_running`, which no code calls any more (it is in `TaskTable`).

### WorkerLease

The cycle of `_run_loop` once more, around the lease row: a coroutine is one step
long here and capacity is left out, but there is time (in ticks, as far as
anything compares it: the row's remaining life, and for how long the process has
missed it), calls to the database raise (`fallen` is a main loop that has ended
that way), and with `Overlap` another process competes for the lease. The rescan
after the lease came back lists the running rows (`found`), then excludes its
own coroutines, in two steps. Several server processes for good are excluded by
`CONTEXT.md` and ADR 0007; a restart that overlaps with its predecessor is not.

### QueueClient

`batch_enqueue_and_wait` on top of the table, whoever works on it: each spec is
asked for, gets a new row or the active one that has its key, and is then polled
for. `alarm` is the offline clock, `verdict` what each wait returned or raised. The
client's clocks are its own; the model lets the timeout pass at any poll.

### CreditLedger

`caller` and `notice` are the places of the coroutine that makes a call and of the
handler of a notification; `read` and `lock` are their database sessions. With
`Locks = TRUE` a session that has read the balance FOR UPDATE holds the row until
it commits (PostgreSQL); with `FALSE` it holds nothing (SQLite does not emit the
clause, and a SELECT opens no transaction). Costs are credits already; what a
call turns out to cost is any member of `Costs`. `Crash` leaves finished rows and
turns a call under way into one that may be resumed. The preflight's read and
its refusal are one step. `admin` is the place of a request that adjusts the
credits by `By`: it reads them without a lock and writes what it computes from
that (`AdjustReads`, `AdjustWrites`); `adjusted` sums up what it changed, and
`overwritten` is history: an adjustment was written over a change of others.

Left out: more than one user (a ledger is per user), `update_user`, which sets the
balance to any value, floating point.

### SessionTurns and SessionActor

`SessionTurns` says what callers are promised: one turn at a time, ended by the
SDK, answers that are final, a closed session that only refuses. `SessionActor` is
the code: `at` is where the task is suspended, `queue` its `_cmd_queue`, `pending`
the queries that arrived during a turn, `held` what the helper task `cmd_task` has
fetched, `stream` what `msg_task` has to report. Cancellation may hit at every
await. The refinement maps `turn` to `current` and `open` to the task's place.
Messages that change nothing for a command are no steps.

### SessionTimeline

One live session as its users see it: posts with a client key and their retries,
the append, the query, the rollback of an entry whose delivery failed, the inbox
task that finalizes turns, the status in memory and in the row, and one reader
that subscribes, lists the log and then goes live over a bounded queue with its
eviction policy. `reused`, `retracted` and `top` are history.

`ending` says what has ended the actor. When its turn breaks (`ActorFails`) or it is
cancelled (`ActorCancelled`), the queries it had put aside and those in its queue are
told; the one that `cmd_task` had already fetched is in neither place
(`session_actor.py:174-203`) and is dropped: its caller hangs, its entry stays, and a
retry is answered with that entry. `Leave` chooses which query, if any, had been
fetched. Those that a cancelled actor answers get its `CancelledError`, which the
`except Exception` of `send_message` (`session_manager.py:931`) lets through: `Escape`
ends such a post with its entry left in the log. A session that is cancelled closes
(`PersistClosed`); its revival and the server's restarts are not in the module.

### ProjectFiles

A job is one call that edits the project: `update_project`, `locked_script`,
`save_script` or `locked_episode_script`. `at` is its step; each lock, read, write,
upload attempt and rollback is one. The content of a file is the set of edits it
carries; project.json also has the episode's binding and the title copied from
its script. `Send` and `Landed` bracket an upload, so that uploads of one file
overlap and arrive in any order; after `Attempts` failures the remote copy
replaces the file. `Crash` ends everything but the disks.

Every job comes through a `ProjectManager` (`via`), of which each router has its own
and some functions make one per call (`script_generator.py:363`,
`episode_planner.py:546`, `usage_tracker.py:44`). `warm` are those that have the project
(`_cloud_reconciled_projects`). Through another one the job begins with
`GetProjectPath`: it lists the remote copies (`todo`) and, file by file, asks for the
copy's hash (`Stat`), compares (`Compare`), fetches (`Download`) and replaces the file
(`Put`), each a step of its own, under the lock of the object's download only. A
crash leaves no manager warm. The promises of this module hold of files on which
nothing of that kind has gone wrong: `raced` (history) are the jobs whose comparison
of a file some write of that file, or its upload, overlaps, `undone` (history) the
files such a job has replaced by something else. A comparison that nothing overlaps
is no exception: that it does no harm is part of what is checked and proved.

The server's disk is assumed to outlive the server (every file that has a remote
copy is on it). Left out: the schema and encoding migrations that a first access may
run, a hash the store does not report, other files than project.json and scripts.

### ResourceVersions

One canonical file and its index. A `produce` call is a generation or an upload
(track what is there, write the file, add a version, upload), a `restore` call
copies a version back. `SaveBegins` and `SaveEnds` bracket the write of
`versions.json`, which a crash leaves torn.

Left out: the reconciliation of a first access (see `ProjectFiles`), which compares
`versions.json` too and may put an older remote copy of it back; so the versions of
this module are safe from everything but that. A file that is only in the object
store when a call begins is excluded by `VersionsInit`.

### ProjectEvents

`current` is the registered channel, `subs` and `queue` its subscribers, `snapshot`
what the next scan is compared with, `ready` its `ready_event`, `watch` and `seen`
where its task stands and what its thread has read, `rebuild` the same for each
batch. `pc` and `at` are a reader's place and channel, `told` is
`lastFingerprintRef`, `view`, `fetch`, `got` and `again` the page and its request. A
reading of the files (in a thread) and its application (on the event loop) are
two actions, so that they come back in any order. Files are two counters: `doc`
stands for all that `_diff_snapshots` shows, `media` for what only the
fingerprint shows: the times of the media files, but also an episode that is removed
(`_diff_episodes` reports none, `project_events.py:1028`), the products, the title and
the content mode of a script. What the properties promise of changes, they promise of
`doc`. `loose` is a script that
project.json does not list yet; whoever reads the project adds it.

Channels are numbered; a number nobody refers to any more stands for the next
new object. `robbed` is history: channels that the cancel path of `_subscribe`
has unregistered although they were another reader's (section 5). Hints only
shorten a wait, and the model has no time; `pending_sources` only words the
notification; a watch task is assumed to reach its first step; the second look
at a missing directory and what follows are one step; an item goes from queue to
page in one step; only the readers in `Page` have a page that is followed.

## 3. Runs

| run | instance | states | asks |
|---|---|---|---|
| `task_table` | chain t1, t2, t3 and t4 that wants t1's resource; 2 cancel sessions open at a time | 257,550 | do the table's transactions keep its promises, whoever calls them? |
| `worker` | two resumable videos of one lane, whose backend resends once; 2 process lives; capacity 1 or 0, reloaded at will | 1,926,430 (up to symmetry) | do all submissions come from one call, is anything forgotten, is capacity kept, is it a correct user of the table? |
| `worker_live` | from a database with v1 orphaned while polled; n bounces off the one slot; 1 life | 97,482 | do cancellations end and waiting tasks get served? |
| `worker_two_writers` | two tasks of one resource | violation | may two coroutines write one output? (section 5) |
| `worker_lease` | two tasks, a lease of 2 ticks, a second process that may run at any time | 895,341 | does a process that lost its lease and got it back end its own work, or leave an orphan? |
| `queue_client` | a batch of an image and a video that depends on it, and a second caller for the image | 158,846 | do callers hear what became of their tasks, and does every wait end? |
| `ledger` | balance 2, costs 0 or 2, one order of 2 notified twice, one adjustment of -1, 1 crash, row locks | 557,688 | do the books balance, does everybody pay once? |
| `session_actor` | three queries, an interrupt and a disconnect in any order | 19,124 | is a command lost or run twice on its way, and is each answered? |
| `session_timeline` | two users, one of whom posts twice; a reader with a queue of 2, connected once | 2,131,415 (up to symmetry) | is a message delivered once, does the reader keep up, does the status settle? |
| `project_files` | three plans of three jobs on two scripts and project.json, through a warm and a cold manager; 2 attempts, 1 crash | 368,430 | is an edit lost, is the remote copy stale, is a binding or a title wrong, does every call return? |
| `resource_versions` | three calls on one resource, 1 crash | 346,251 | do versions stand, do file and index agree? |
| `project_events` | one reader with its page, one batch, a queue of 1, two channel numbers, 1 edit, 2 faults | 159,751 | does a page hear of every change, and of the project's end? |

Bounds, and why they suffice:

- `MaxStarts` counts process lives; two are one crash with everything the second
  life does to what the first left, and the state a third would find differs in
  nothing but `submits`, which is checked. `MostSubmits = 2` is a submission and one
  more: a third differs in nothing. `MaxCrashes` is one in the other modules
  for the same reason. `MaxOpen` bounds cancel requests between their read and
  their write; two let one overtake the other. `Swept` names the projects whose
  queue may be cancelled as a whole, empty where that only multiplies states.
- Two tasks contend for one slot; four in the table are a chain longer than a
  direct dependency, and a duplicate. Costs 0 and 2 against a balance of 2
  reach "free", "covered" and, after the other charge or the adjustment, "not
  covered"; the estimates 1 and 2 let preflight admit both calls.
- `TTL = 2` gives a lease that is fresh, half gone and expired; the code compares
  nothing finer, and three times the TTL is the threshold of a rescan.
- Three queries are one in its turn, one that waits and one that overtakes it
  when it is put back. The three jobs on files are two that contend, for the
  binding, for project.json, or for a file with the reconciliation of a cold manager,
  and one that comes or goes; after the crash all managers are cold. Two upload
  attempts are a failure that is retried and one that is final.
  `ProjectFilesContended.cfg` checks the safety properties where all three jobs contend
  (3,574,201 states, about as long as a run; it passes). Three calls on a resource are
  two that overlap and one that restores what the first recorded.
- `QueueSize` is 1 or 2 instead of 100: what matters is that a queue can be full
  while an event is on its way. In `project_events` one edit is enough for an
  older reading to be applied over a newer one, two faults for a connection that
  breaks after another thing has gone wrong. `ProjectEventsPair.cfg` checks the
  safety properties with two readers and three channel numbers (980,000 states;
  it takes some minutes and is not among the runs).

In each run but `task_table` and those of the lease and the queue client the
system may really stop (no life, call, edit or notification left), so deadlock is
not an error there. `SYMMETRY` (`worker`, `session_timeline`) exchanges two tasks or two
posts that the constants do not tell apart; no liveness is checked there.

Every property of a passing run has a mutant of the code's model that it
rejects (the cut, the dropped guard, the old index, named in `PROJECT.json`).

Fairness, and why the code justifies it:

- Worker: weak for the main loop and for all coroutines and signals together
  (asyncio's loop runs whatever is ready; a provider call ends because every
  backend polls with a `max_wait`, ADR 0006). Per-task fairness is not needed: a
  task takes finitely many steps between two starts. Nothing is assumed of
  users, crashes, reloads or shutdown.
- Ledger: a handler that has begun is served, and WeChat repeats a notification
  until it is acknowledged: a failed one is `"sent"` again.
- Queue client (`Patience`): a client that waits goes on polling, and its own clock
  reaches its timeout. Nothing is assumed of the worker, which may be gone.
- Session actor: the loop runs the task, and a turn that stays silent is cancelled
  in the end (the watchdog, `session_manager.py:1295`).
- Project files: as long as some job can go on, one of them does (the threads of a
  live process run); an upload succeeds or fails. Nothing is assumed of which job
  gets a free lock: a job has finitely many steps, so the others come to an end.
- Project events: the loop and its threads run what is ready, the `script_saved`
  callback included; a page reconnects after an error and its requests are
  answered, with an error perhaps. Nothing is assumed of edits, faults or new
  batches.

## 4. Theorems

Proved with TLAPS for all values of the constants that the named ASSUMEs allow.

- **Table.** All steps of the table are, per task, one of a few moves
  (`StepsAreMoves`); that single lemma, with facts about `Cascade`
  (`CascadeMembers`, `CascadeIsClosed`), carries `Typing`, `Deduplication`,
  `DependencyOrder`, `EventLog`, `NoStranding` and `Refinement`. Type correctness
  strengthens each; `DependencyOrder` uses that success is final.
- **Worker.** `QueueStep`: each step of the server is a step of the table or leaves
  it alone. Only `RequeueSingle` and the failure of `held` need an invariant for
  that (`held` is a task exactly while the loop holds one). So `UsesTheTable` holds
  and the table's theorems carry over, to the whole server with its crashes and
  restarts (`ServerKeepsThePromises`). `NoThirdWayToGetStuck`: every coroutine,
  drain, scan and refusal that lets go of a cancelling row settles it, but for the
  two of section 5, items 2 and 3; the proof goes through each way a row can be let
  go of (`OutcomesEnd`, `LettingGo`). `OneCallPays` is not inductive: it needs
  `PaidInv`, that a task which is absent, queued or held has never been submitted
  and has no coroutine, that one about to submit has not been submitted, that only
  the call which has submitted submits again, and that whoever resumes has a
  persisted job; a backend that does not resend is then charged for once. It does
  not say that a task is paid for once, which is false (section 5, item 12).
  `ReturnSettles` rests on
  `TerminalIsFinal`. `NoRunningRowIsForgotten` strengthens its property to one that
  every step keeps (`OwnerInv`). `CapacityIsAlwaysKept` counts: a resume sub-task
  works only while it holds a permit, a claimed one only while it holds a slot
  that was free when it was taken, and nothing is claimed before the scan has
  ended (`CapInv`); it assumes that the tasks are finitely many, as cardinalities
  of the others mean nothing.
- **Ledger.** `BooksAlwaysBalance` (for `Locks = TRUE`) needs that whoever is
  between reading and writing holds the lock and has read the present balance;
  it ends where an adjustment has overwritten another change. `SuccessIsAlwaysBilled`
  follows a call from its recorded success to its charge (`BillInv`).
  `PaidOnlyOnce` and `ChargesAreJust` need `ChargeInv`, which ties a call's place to
  its row and to what is recorded; they hold without locks as well.
- **Queue client.** `CallersUseTheTable`: callers only take steps of the table.
  `CallersHearTheTruth` (with `WaitInv`: a batch's ids and verdicts grow together)
  then rests on the table's moves, which never leave a final status;
  `BatchesKeepOrder` on `DependencyOrder`.
- **Worker lease.** A row once claimed is never queued again, and only such rows
  have a coroutine or are found by a scan; past its scan a lone process has a
  coroutine for each running row, during it at least has found it (`ScanInv`). From
  that follow `RescanSparesItsOwn` and `NoOrphanIsLeft`. `OverlapUsesTheTable`: two
  processes, even while both believe that they hold the lease, only take steps of
  the table.
- **Sessions.** `NothingIsDropped` needs where each command is at each place of the
  task (`PlaceInv`) and that only a broken turn has lost one (`LostInv`), from which
  `EndingAnswersEverybody` follows: a task that ends without an exception leaves
  nobody waiting, one that breaks off at most one caller (section 5, item 7);
  `TurnsFollowOneAnother` is the refinement of `SessionTurns`. `MessagesAreTakenOnce`
  pairs each user entry of the log with the one post that holds it (`HolderInv`), which
  after the actor's end may be the post whose query was dropped, or one that a
  cancellation cut off (`EndInv`: at most one is dropped, and only by an end); that
  an append's seq is new needs the greatest element of a bounded set, which the
  library's well-founded order of the naturals provides. `StatusSettles` needs
  `SettleInv`: whatever still says running, the session or its row, has somebody who
  will say otherwise (a turn, a command in the inbox, a step in hand, or the owed
  write of the row); the row of a session closed over a cancelled actor is its one
  exception. It is about one connection of the session, without restarts.
  `ReaderMissesNothing` needs `LetterInv`, what a letter in the channel may say, and
  `ReadInv`: an agent's entry above the cursor is in the log as it was read, or in
  the queue ahead of all that would move the cursor past it.
  `PostsTakeTurns` is the refinement of `SessionTurns` by the posts.
- **Versions.** `VersionsStand` (with `StandInv`), `FileAndIndexAgree` (`AgreeInv`) and
  `TheOriginalIsKept`, which splits on whether a file was there to begin with.
  `LostInOneWay` says that item 9 of section 5 is the only way to lose an output:
  before the call that wrote it has copied it; afterwards it is a version in the
  index or in what the holder of the lock will save (`HeldInv`, `OutputInv`). The
  calls hold one lock around the index but write the file outside of it; the
  invariants say what each call in between knows of the file. They assume
  `TornAssumption`.
- **Project files.** One invariant, `IInv`, carries four of the theorems: a job between
  its read and its write holds the file's lock, and what it has read has every edit
  acknowledged so far (`NoEditIsLost`); a remote copy that is not the file has an
  upload on its way that will notice, because its hash check comes after its landing
  (`RemoteCatchesUp`); a job on an episode that has passed the re-check of the
  binding holds project.json's lock, without which no job changes the binding
  (`EditsFollowTheBinding`); and whoever has written a script without its title
  still holds the script's lock (`MirrorIsTrue`). The reconciliation of a new manager
  heeds none of these locks. Against it stands `Looks`: as long as no write of the
  file overlaps a comparison, the copy stays what was compared, so that it can
  differ only from a file that one of the exceptions has hit already (`failed`,
  `undone`); and where it replaces a script after a failed upload, the copy has every
  acknowledged edit (`KeptInScripts`, `StoredEdits`). `NoDeadlock` adds who may hold
  project.json's lock (`ProjectHeld`): a job that works, for the script's lock always
  comes first.
- **Project events.** `LastWord` is not inductive. `IInv` adds, for each subscriber,
  `HasWord`: the last fingerprint in its queue, or the one it was told if there is
  none, is that of its channel's snapshot, or it is still to be given a snapshot
  when it wakes. Whoever writes a snapshot (a scan, a rebuild) broadcasts in the
  same step unless the diff shows nothing, so order does not matter
  (`NothingIsDiffedAway`). For `ReadersAreServed` it adds that a channel loses its
  watch task only with its last subscriber, with its place in the registry, or
  together with a deletion put into every queue (`NobodyWaitsInVain`).

What stays with TLC: the liveness properties (`CancellationEnds`,
`WaitingTasksAreServed`, `PaidOrdersAreCredited`, `EveryWaitEnds`,
`EveryCommandIsAnswered`, `EveryEditEnds`, `ChangesAreShown`, `DeletionIsHeard`:
liveness under fairness and ENABLED are out of the prover's reach). Every safety
property of the runs that pass is proved.

Four more statements are proved that no run lists, after TLC had agreed with them
on the instance named: `StuckInTwoWays` (`worker`), `WaitingEndsAtAWorker`
(`project_files`), `LostBeforeItsCopy` (`resource_versions`) and `TakesTurns`
(`session_timeline`). And where a run is small, the theorem is not: `session_timeline`
has one connection of one reader, while `ReaderMissesNothing` is about any number of
connections, overflows and reconnections.

## 5. Where the code and its documents disagree

In the runs:

1. `worker_two_writers`: `cancel_task`'s unlocked read lets a claimed task go straight
   to `cancelled` with no signal (`task_repo.py:501`): two coroutines may then write
   one output, which the migration of the unique index set out to prevent.

Kept as configurations beside the runs (each checks one property, and TLC finds
it violated):

2. `WorkerStuckCancel.cfg`: a task cancelled between its claim and its placement stays
   `cancelling` until a restart; `_claim_tasks` ignores that its writes changed
   nothing (`generation_worker.py:539`; ADR 0006:15 forbids it).
3. `WorkerLeak.cfg`: a resume sub-task cancelled before its first step leaks its slot
   and leaves its row `cancelling` (`:1044`); the comment at `:1021` claims all three
   ways are covered. The liveness properties name this exception (`Leaked`).
4. `WorkerHeadOfLine.cfg`: putting a task back leaves the media type's loop (`:564`),
   which blocks other providers (CONTEXT.md:65 says it does not).
5. `LedgerLostUpdate.cfg`: on SQLite the row lock of the deduction does not exist
   (`usage_repo.py:442`, against the comment before it).
6. `LedgerCrashWindow.cfg`: a crash between recording a success and charging it makes
   the call free, since the resumed call finds its row finished (`usage_repo.py:621`,
   `media_generator.py:861`).
7. `SessionActorHang.cfg`: a command that `cmd_task` had fetched when the turn broke is
   never answered; `session_actor.py:88` says that no caller hangs.
8. `ProjectFilesRollback.cfg`: `update_project` lets go of its lock before the upload;
   when that fails for good the remote copy is forced over project.json
   (`media_storage/service.py:381`), and an edit acknowledged in between is gone
   (`project_manager.py:1715`: no lost updates).
9. `ResourceVersionsLost.cfg`: of two overlapping outputs one may end with no version
   (`shot_uploads.py:93` and `upload_finalize.py:134` say its bytes must not be lost).
10. `ProjectEventsMedia.cfg`: a media file overwritten in place changes the fingerprint
    but no line of the diff, so `_apply_scan_result` broadcasts nothing
    (`project_events.py:525`); the comment at `:700` says that it triggers `changes`.
11. `LedgerAdjusted.cfg`: an administrator's adjustment changes the balance and writes no
    transaction row (`users.py:329`); `transaction.py:3` says that every change of
    credits has one.
12. `WorkerPaidTwice.cfg`: a job is accepted, its answer is lost, and `with_retry_async`
    around `_create_task` submits it again (`ark.py:120`, `lib/retry.py:63-70`; likewise
    `gemini.py:149`, `openai.py:203`, `grok.py:104`, `runningHub.py:211`): both are paid for.
    `video_backends/base.py:191` says of just this case that it is not retried.
13. `SessionTimelineLost.cfg`: the query of item 7 leaves its entry in the log, which
    answers every retry of the message, although it was never delivered;
    `session_manager.py:910` says that an entry means a delivery.
14. `ProjectFilesReconcile.cfg`: the first access through a new `ProjectManager` puts a
    remote copy that it fetched before an edit over the edited file, under no lock
    (`project_manager.py:592`, `media_storage/service.py:745`): the edit's call returns
    without an error, and the edit is gone (`project_manager.py:1715`, `:886`: no lost
    updates).

Properties of passing runs that say less than one would wish, because the code
does:

- `EventsTellTheStatus` allows a put-back task to look running and one swept up
  between the two statements of `cancel_all_queued` to look alive; `BooksBalance`
  holds until an adjustment is written over a charge or a recharge that it has
  not read (`overwritten`, `users.py:329`); `SuccessIsBilled` holds until the first
  crash; `RunningRowsHaveAnOwner` is about running rows only, the cancelling ones are
  item 2; `WaitingTasksAreServed` excepts the leaked slots of item 3 and promises nothing
  of the fairness among providers that item 4 denies.
- `SubmittedByOneCall` leaves it open how often that call submits (item 12).
- `ReaderKeepsUp` excepts users' messages: one that waits for its turn is announced
  late, below the reader's cursor, and skipped until the next reload
  (`SessionTimeline`, `NoGaps`; `session_manager.py:1779`, `service.py:549`). A reader may
  take an earlier turn's completion for its own (`misled`), and a retry may be
  answered with an entry that is withdrawn afterwards.
- `AcceptedOnce` allows, after the actor's end, an entry whose query was dropped (item
  13) or cut off by a cancellation; `EveryCommandIsAnswered` counts the actor's end as
  an answer, so the hang of item 7 is not in it.
- The properties of `ProjectFiles` except the files in `undone` (item 14), and those of
  project.json also an upload that failed for good or was cut off (item 8).
- `TurnsInTurn` promises no order: commands put back behind others break the FIFO of
  `session_actor.py:118` and `:144`. `_finalize_turn` of one turn may overwrite the
  running status of the query behind it, and clears its pending echoes
  (`session_manager.py:996`).
- `EveryVersionStands` holds while the index can be read: a crash during its write
  leaves it torn; an output whose `finish_call` fails stays without a version.
- `ReadersAreServed` excepts the readers of a channel that was unregistered by
  mistake: the cancel path of `_subscribe` (`project_events.py:216-224`) pops the
  registry by name and may hit another channel. `ChangesAreShown` is about a page
  that has said nothing of a failed request, whose place was not lost to a full
  queue (ADR 0005:11 accepts that), and whose first snapshot the change came after:
  a first snapshot triggers no refresh. A failed first scan gives an empty
  fingerprint, with the same effect.

## 6. Not modelled, and why

- Agent sessions: the registry (`get_or_connect`, `_evict_one`, `_ensure_capacity`,
  patrol). `_evict_one` takes a session out of the registry by its id, while a
  request that found it disconnecting may have put a new one there
  (`session_manager.py:1175`); capacity is checked before awaits. Also the watchdogs,
  backfill of the log, and the idempotency of new sessions (`service.py:325`).
- `users.py:285` (`update_user`): an administrator may set the credits to any value, and
  the same overwrites happen as with an adjustment, so there is nothing left that
  a property could say.
- `generation_worker.py:685`: the last write of a coroutine fails. Its row stays running
  without a coroutine until the next start, as after a crash.
- `transactions.py:265`: truncation of a binary fraction; floating point is out of
  TLC's reach.
- The task stream's ids on PostgreSQL (`task_repo.py:941`), deletion of users,
  keyed locks for new sessions, the migration a `load_project` may write, uploads
  that land after their timeout, files the agent writes past the project manager
  (but for scripts, `loose`).
- Archives, configuration, pricing, status calculation, validation, grids, the
  episode ledger's text work, authentication and migrations are sequential
  transformations of data, checked well by the repository's tests. Generation
  executors are long straight-line recipes around calls that are modelled.
