# A formal model of cfgov

TLA+ models of the parts of `cfgov` whose correctness depends on the order in
which processes, backends and file operations act, with TLC configurations that
check them on small instances and TLAPS proofs that hold for any instance.

`cfgov` is a command line tool: every invocation is a process of its own and no
server coordinates them. What they share is a backend (etcd, Consul, Kubernetes,
Nacos, Apollo) and a few files in the operator's home: the audit log and its
outcome spool, the backup store, and the context store. The hard behaviours are
those of processes that share files and blobs without knowing of each other:
a plan that is stale when it is applied, a write that took effect although its
answer was an error, a death between two file operations, a batch that stops in
the middle, a queue that must drain.

## 1. The system

### Components

| component | code | state | operations | modelled in |
|---|---|---|---|---|
| audit journal | `cmd/mutation_audit.go`, `cmd/read_audit.go`, `cmd/backend_mutation.go` | audit log, spool directory, spool lock | begin (intent), finish (outcome), ordinary record, replay, quarantine | `MutationAudit` |
| rule set writes | `cmd/rule_write.go`, `internal/rule` | one blob per rule type, backups | create, update, delete, import, rollback | `RuleWrites` |
| config commands | `cmd/config.go`, `cmd/config_bulk.go` | one blob per key, backups | push, delete, import, promote, rollback, reconcile | `ConfigWrites` |
| backup store | `internal/backup/backup.go`, `cmd/backup.go` | data files, `index.jsonl`, index lock | write, list, clean (preview, apply), lookup by id | `BackupStore` |
| etcd, Consul, Kubernetes backends | `internal/backend/{etcd,consul,k8s}` | revisions of keys or objects | preconditioned put and delete, watch | their writes in `RuleWrites`, `ConfigWrites`, `FlagWrites`, their watches in `Listener` |
| Nacos backend | `internal/backend/nacos`, `internal/api` | login token | put, delete, namespaces, instances, retries, long poll | `NacosWrites`, `Listener` |
| Apollo backend | `internal/backend/apollo` | release state | item change, release | not modelled (section 6) |
| feature flag writes | `cmd/flag_write.go`, `internal/flag` | one blob per app, backups | create, update, delete, import, rollback | `FlagWrites`, `FlagSet` |
| listener | `cmd/config.go` (433-573) | known revision, events, backoff | watch, wait, collect | `Listener` |
| contexts and credentials | `cmd/context.go`, `internal/cfgovctx` | context file, credential stores | set, use, delete, import, migrate, role, compensate, reconcile | `Contexts` |
| authorization, classification | `cmd/root.go`, `internal/cfgclass` | none | policy of contexts; risk tiers, allow flags | the policy in `Contexts`; elsewhere a command is past its gates, or refused |
| namespaces, services | `cmd/namespace.go`, `cmd/service.go` | a namespace, an instance | create, update, delete; register, deregister | `NacosWrites` |
| audit query, verify, repair, prune, rotation | `cmd/audit.go`, `cmd/audit_rotation.go` | log segments, checkpoint | verify, repair, prune, rotate | not modelled (section 6) |
| rule and flag validation, config diff, export | `internal/rule/validate.go`, ... | none | pure functions | not modelled: table tests cover them |
| diagnostics, installation | `cmd/doctor.go`, `cmd/install.go`, ... | none | output, copying of files | not modelled |

The audit library, the lock file and the credential stores are those of
`opskit-core`, which is not in this repository: they are modelled as its code
uses them (what an append may report, what a lock excludes) and marked external.

### How the parts interact

Every governed mutation runs inside the journal: `beginMutationAudit` appends the
intent, the command does its writes, `finishMutationAudit` (or
`finishBatchMutationAudit`, with counts) appends the outcome. Inside that
bracket a rule, flag or config command reads the blobs, plans, passes its gates
(`--plan`, `--diff`, authorization, backup policy) and then goes through its
plan blob by blob: skip, back up into the store, write under a precondition. On
Nacos nothing takes a precondition, and the HTTP client may send a write twice.
`rollback --backup-id` reads the store back. `backup clean` is a governed
mutation of the store itself. No lock is held from a plan to its writes: only
revisions protect other writers of a blob, and only the index lock and the
second look of `ApplyCleanPlan` protect other users of the store. A `ctx` command
writes credentials into a store of their own and then, under one lock, the context
file, which decides who may change what the next command wants to change.
`config listen` only reads, by long polls whose end means different things on
different backends.

### What is hard, and what must hold

* **Journal.** Two files cannot be written atomically, an append can end in four
  states, and a process can die anywhere. Must hold: nothing is touched before
  its intent is logged; a returned result has its outcome in the log; a promised
  outcome is never lost; a doubtful one is never replayed; replay keeps the order;
  in the end the queue drains.
* **Writers.** Plans are stale, backups are reads of their own, answers get lost,
  batches stop half way, and on Kubernetes several keys share one revision and a
  write is a Get and an Update. Must hold: no update of another writer is lost;
  what is destroyed was saved; the recorded counts cover what happened; order;
  a command that nobody disturbs does not conflict.
* **Backup store.** A data file and its line are written one after the other,
  the index is rewritten in place, readers take no lock. Must hold: a reported
  backup can be restored until somebody deliberately deletes it; a clean deletes
  what was previewed and never the newest n.
* **Flags.** A flag set is planned, backed up and written with three calls and no
  lock. Must hold: all of that amounts to one atomic edit that is reported truly.
* **Nacos.** No compare-and-swap, lost and late answers, retries, a token that
  expires between two of them. Must hold: nothing is created twice, a command
  that finds its own earlier request says so truly, flags mean what they say.
* **Contexts.** The secret and the file that names it are two stores, the lock is
  free between a failure and its compensation, and an error may hide a success.
  Must hold: a migration never changes what a context logs in with, reports are
  true, no undo destroys what another command has saved, nobody gets around the
  policy of the moment.
* **Listener.** Successes, failures and expired polls mix, and a signal can arrive
  anywhere. Must hold: events are real and in order, it gives up exactly after a
  streak of failures, no failure is passed off as "no change".

`PROJECT.json` lists each hazard with the line where it bites and the properties
that watch it.

## 2. The modules

| module | what it is |
|---|---|
| `AuditContract` | abstract specification of the journal: a growing set of records, a set of outcomes kept safe, and what each caller is told |
| `MutationAudit` | the journal: log, spool files with sequence numbers and suffixes, lock, one process per operation |
| `MutationAudit_proofs` | its invariants, and that it implements `AuditContract` |
| `RuleWrites`, `RuleWrites_proofs` | rule commands over one blob per type |
| `ConfigWrites`, `ConfigWrites_proofs` | config commands over keys that may share an object |
| `FlagSet` | abstract specification of flag commands: one atomic, backed up and truly reported edit |
| `FlagWrites`, `FlagWrites_proofs` | flag commands over one blob, and that they implement `FlagSet` |
| `NacosWrites`, `NacosWrites_proofs` | one command of any kind against Nacos, its requests and their answers |
| `BackupStore`, `BackupStore_proofs` | savers, cleaners and readers of the store |
| `Contexts`, `Contexts_proofs` | context commands over the context file and the credential backends |
| `Listener`, `Listener_proofs` | one `config listen` on each backend that can watch |
| `MC...` | instances for TLC: symmetry and the values of structured constants |

Definitions keep the names of the code where they can, and the comment above a
definition names the function it models. Some definitions are followed or
preceded by a deliberately wrong twin (`CanReplayAnyFile`, `UpdateAnyVersion`,
`AppendUnlocked`, ...), a plausible bug that nothing uses: `PROJECT.json` pairs
each property with one that must break it, which shows that the property depends
on the code.

### MutationAudit

State: `log`, the intents and outcomes in order; `spool`, a set of files, each
with its sequence number, operation and suffix (`temp`, `pending`,
`quarantined`); `lock`; and for every process its position `pc`, the `verdict`
its caller gets, and the `result` of the operation. One step is one file
operation, so that a crash can fall between any two.

| code | actions |
|---|---|
| `withMutationSpoolLock`, `withMutationAuditQueue` | `Acquire`, `AcquireFails`, `Unlock`, `UnlockFails` |
| `replayMutationAuditSpoolLocked` | `ReplayCommitted`, `ReplayCommittedLate`, `ReplayIndeterminate`, `ReplayFails`, `Remove`, `Quarantine`, `FileStays`, `ReplayDone`, `GiveUpReplay` |
| `beginMutationAudit`, `finishMutationAudit`, ordinary records | `AppendCommitted`, `AppendNotCommitted`, `AppendUncertain` |
| `writeMutationSpoolRecord` | `Spool`, `Rename`, `SpoolFails`, `RenameFails` |
| the operation itself | `Operate` |

### RuleWrites

State: `blob` and `rev` (the backend), `backups`, and for each command its
`request`, `plan`, position, counts and `outcome`. A rule set maps each rule to
the writer of its text, so that a lost update is visible as the loss of another
writer's rule.

| code | actions |
|---|---|
| the `rule` verbs and their flags | `AskSingle` (create, create --force, update), `AskDelete`, `AskClear`, `AskImport`, `AskRollback` |
| `runRuleWritePreflight`, one `Get` for each type; the gates | `PlanRead`, `PlanFails`, `Authorize` |
| `applyRuleWrites`, one type after the other | `Skip`, `BackUp`, `WriteKey` (etcd, Consul) or `Inspect` and `Update` (Kubernetes), `Answered`, `Fail`, `Succeed` |
| any other client; death of the process | `OtherWrite`; `Crash` |

Each backend call is a step of its own, and the answer of a write arrives in a
later step than its effect.

### ConfigWrites

The same for the config commands. `backend` is chosen at the start. `Obj` places keys
in objects: each key its own (etcd, Consul), or as the constant `ObjectOf` says,
which may put several data keys in one ConfigMap that share a
`resourceVersion`. `AskPush`, `AskDelete`, `AskBatch` (import, promote,
reconcile) and `AskRollback` are the commands; `PlanRead`, `PlanPrune`,
`Planned`, `PlanFails` and `Authorize` read, plan and pass the gates; the loop
has the steps of `RuleWrites`, and `Refuse` for a precondition that fails.
`push` and `delete` carry the precondition that the operator asked for, `rollback` carries none, a batch carries the revision or the absence
that its plan read. Creating an object that does not exist is a step of its own
of `putConfigMap`. `disturbed` and `refused` are history: whether somebody else
wrote while a command ran, and whether it ended in a conflict.

### BackupStore

State: `files` (none, partial, whole), `index` (the lines), `torn` (a part of a
line, with which `readIndex` rejects the whole index), `lock`, and for each
cleaner its `preview`, what it read under the lock (`current`), and what it
reports. `Create`, `Fill`, `AppendLine` are `backup.Write`; `Preview` is
`PlanClean`; `Approve` is the policy lock, the authorization and the intent;
`Apply`, `Delete`, `Truncate`, `Rewrite`, `Finish` are `ApplyCleanPlan` down to
the lines of `writeIndex`; `Find` and `ReadFile` are a rollback by id, which
reads the index without the lock. `Vanish` removes a file behind the store's
back: the code has a status for it. `broken` is history: an append that left a
part of a line, or a rewriting that was not finished.

### FlagWrites and FlagSet

State as in `RuleWrites`, over the one blob of an app, on every backend: "kv",
"object", or "plain", which takes no precondition and where only a plan without a
change gets past the gate.

| code | actions |
|---|---|
| the `flag` verbs and their flags | `Ask` |
| `runFlagWritePreflight`; the gates | `PlanRead`, `Refuse`, `Authorize` |
| `applyFlagWrites`, `backupFlagCurrent` | `Skip`, `BackUp`, `WriteKey`, `Inspect`, `Update`, `Succeed`, `Fail` |
| any other client; death of the process | `OtherWrite`; `Crash` |

`FlagSet` has the steps `Keep`, `Match`, `Change`, `Tell` and those of others; in
`AtomicEdits == FS!Spec` the step that takes effect is `Change`, a backup is
`Keep`, a plan that finds its edit done is `Match`, and the rest stutters.

### NacosWrites

State: what Nacos has (`store`), the requests on their way that nobody waits for
(`late`), and the command: its position, what its reads and its backup found,
how often its request was sent (`phase`, `attempt`), the `reply` and the `result`.
History: how often its write took effect and what it replaced (`ran`, `was`), and
which of its reads somebody else has written after (`outdated`).

| code | actions |
|---|---|
| preflight, gates and backup of the commands | `Look`, `RefuseMode`, `Authorize`, `BackUp`, `FailEarly` |
| `do` of `internal/api/client.go` and its helpers | `Login`, `Unsupported`, `Send`, `Refresh`, `Retry`, `GiveUp` |
| the reading of answers | `Succeed`, `Told`, `Question`, `Probe`, `ProbeFails` |
| Nacos and the network | `Carry`, `TurnAway`, `Drop`, `Arrive` |
| any other client; death of the process | `Other`; `Crash` |

### Contexts

State: `config` and `current` (the file), `secret` (the credential backends),
`lock`, and for each command what it read under the lock (`base`, `prior`), the
secrets it has still to put or to undo (`todo`), those it has tried, and what it
`report`s.

| code | actions |
|---|---|
| the checks before the lock | `Ask`, `Refuse` |
| reading, checking and authorizing again under the lock, the intent | `Enter` |
| the secrets, then the file | `Put`, `PutFails`, `Save`, `SaveFails` |
| `reconcileContextTargetState`, `reconcileCredentialMigrationState` | `Conclude`, `Restore` |
| compensation | `Undo`, `UndoFails`, `EndUndo` |
| death of the process; another machine in the vault | `Crash`; `Outsider` |

### Listener

State: `log`, what the key has been; the revision `known`, the `events` collected,
`errors` and `backoff`; and two histories that the code does not keep: `streak`, the
failures in a row, and `began`, what was there when the command began. `Begin`,
`BeginFails` are the first read; `Notify`, or `Notice` and `Fetch` on
Nacos, a change; `Unchanged`, `Interrupted`, `Expire` the three ways in which a
poll ends without one; `AuthFails`, `Fail`, `Wait`, `GiveUp` the handling of errors
(`handleListenPollError`). `Write` and `Cancel` are other processes and the user.

## 3. Modelling decisions

* **What is one step.** One file operation in `MutationAudit` and `BackupStore`,
  one backend call in the writers, one access of a store in `Contexts`, one poll in
  `Listener`, one message in `NacosWrites`. What a process computes
  between two of them is part of the earlier or the later step. A write and the
  arrival of its answer are two steps, so that it can take effect and still be
  reported as an error.
* **Errors.** `Fail` stands for any error of a call; it does not depend on the
  state of the backend, which includes every case in which the code gets an
  error. Refused preconditions of the config commands are a step of their own
  (`Refuse`), because a property is about them.
* **Data.** Contents, rules, names and operations are opaque. A rule set is a
  function from rules to the command that wrote them. Revisions are counters of
  changes: the code only compares them, and the backends do not repeat them. The
  empty revision is 0.
* **What is external.** The append of the audit library is modelled by the commit
  states that its callers distinguish; the lock file by mutual exclusion and
  by the operating system freeing the lock of a dead process; the revision checks
  of etcd, Consul and Kubernetes by the comparison that the requests of
  `internal/backend` ask for; Nacos by which requests it can carry out and which
  answers the client tells apart.
* **Simplifications.** In `MutationAudit`, ordinary records are not kept in `log`, and
  `verifyMutationSpoolDirectory` shows as `AcquireFails`: either ends the access
  before it does anything. In `RuleWrites` and `ConfigWrites`, an operator
  passes `--expected-revision` only with a revision that the object has had. An
  `import` is planned and applied in the order of its keys (the code applies in the
  order of the manifest), a manifest does not repeat a key, a Secret behaves as
  a ConfigMap, and `promote` reads any contents. In `BackupStore` the index is a
  set of lines, ids are fresh, and stamps are whole seconds; lines without an id,
  written by old versions, are left out, as are the commands that change nothing. In
  `NacosWrites` a read is one step, whatever its retries; one command acts among
  others that may write anything. In `Contexts` the operator of a command is the
  command, and a role below admin is one value. The module headers list the rest.

## 4. What TLC checks

| run | instance | what it shows |
|---|---|---|
| `safety` | 2 operations, 1 source of ordinary records, spool numbers up to 2, 1 crash, 1 failing removal or rename | the safety properties of the journal, and that it implements `AuditContract` |
| `live` | the same, no crash and no failing removal | every journal access ends; the spool drains or leaves a quarantined file |
| `set` | 2 commands and other writers, 1 rule set of 2 rules, etcd or Consul, others write up to revision 2 | no lost update, saved before replaced |
| `batch` | 2 commands and other writers, 2 rule sets of 1 rule, Kubernetes, others write up to revision 1 | no lost update where `Get` and `Update` are apart; order and counts of imports |
| `config` | 1 command and other writers, 2 keys with 2 contents, on etcd or Consul or as data keys of one Kubernetes object, others write up to revision 2 | every config command: no lost update, saved before replaced, deletes last, honest counts, no conflict without interference, one update in an object |
| `backups` | 1 saver, 2 cleaners, 1 reader, 2 old backups and 1 new one, 2 names, 2 seconds, 1 fault | what `BackupStore` promises |
| `contexts` | 3 commands (two with any of 11 requests, one that deletes), 2 contexts, a keychain and a vault, 4 initial states | migrations keep logins, true reports, no escalation, no undo of another's success; the inductive invariant |
| `listen` | 4 backends, 2 contents, 2 events asked for, the key changes 3 times, the code's abort limit of 20 | real events in order, abort exactly after a streak, no false calm, a signal ends it |
| `nacos` | every verb and flag, 2 contents, 2 retries on each side of a refreshed token | nothing created twice, true answers, honoured flags, an end |
| `flags` | 1 command of any kind among other writers, 2 flags, every backend, others write up to revision 4 | `FlagWrites` implements `FlagSet` |
| `tempfile`, `listen_canceled` | as small as shows it | disagreements of the code with its documentation: section 7 |

The properties say:

* **Journal.** `IntentBeforeEffect`: nothing is touched before its intent is logged.
  `ReturnedMeansLogged`: a command that returns a result without an error has
  its outcome in the log. `RepeatsNeedFaults`: an outcome is there twice only after
  a crash or a failing removal. `PromiseKept`: an outcome that was promised durable
  is in the log or the spool ever after. `LostIsReported`: an operation without a
  durable outcome says so. `NoOvertaking`, `StuckFilesBlock`: replay goes in the
  order of the spool, ahead of every new record, and a file that no replay gets past
  (quarantined, half written, or first and unreadable) stays and stops all appends. `EveryOperationEnds`, `DurableOutcomesDrain`: liveness.
* **Writers.** `NoLostUpdate`: a write under a precondition replaces exactly what its
  plan was made from. `SavedBeforeReplaced`: what it destroys is already in the
  backup store, although the backup was a read of its own. `OutcomeHonest`: the
  counts add up, and cover what took effect with at most the one write in
  doubt. `CommittedInOrder`, `DeletesComeLast`: nothing follows a failure, and
  a reconcile deletes only when all else is in place. `ConflictMeansInterference`: on
  etcd and Consul, a command is refused a write only if somebody else has written.
  `OneUpdateInAnObject`: once a batch has written into a Kubernetes object, it updates
  and deletes no other key of it.
  `AtomicEdits`: a flag command edits its set in one step, as it is at that moment,
  with a copy of it in the backup store, or not at all, and says which.
* **Nacos.** `CreatedOnce`: one command creates a namespace, or registers an
  instance, at most once. `AnswersTrue`: success means that the write took effect,
  "already exists" that it was not this command's own doing, and while nobody else
  writes the reported state is the state, late requests included.
  `ReplacesWhatItSaw`: what a write destroys without having shown or saved it, or creates
  in spite of `--update-only`, is due to somebody else who wrote after the read in
  question; who wrote before it does not matter. `EveryCommandEnds`: liveness.
* **Backup store.** `SavedStaysListed`: a backup that was reported stays whole and
  listed until a cleaner deletes it, unless the index is broken half way.
  `PreviewedOnly`: a cleaner deletes only candidates that were shown before.
  `ReportHonest`: its report agrees with the store. `NewestKept`: `--keep-last n`
  never deletes one of the newest n that are there. `MissedForAReason`: a rollback never
  reads half a reported backup, and misses it only if it was deleted or lost, the
  index is broken, or a cleaner is rewriting the index and will list it again.
* **Contexts.** `MigrationPreserves`: no step of a migration, its failure, its
  compensation or its death changes what any context logs in with. `ReportHonest`:
  what is recorded of the file and the secrets is true when it is recorded.
  `NoEscalation`: every change of the file satisfies the policy that the file
  holds at that moment. `SuccessKept`: a secret that a successful command stored is
  replaced only by a write under the lock, never by another command's undoing.
* **Listener.** `EventsFollowTheLog`: the first event is a change later than what was
  there when the command began, each other one later than the one before; on
  Kubernetes not one is left out, not even before the first, and on Nacos the content
  had become another. `AbortsOnlyAfterAStreak`: it gives up exactly after
  `AbortAfter` failures in a row, a poll that only expired not being one.
  `EndsUpToDate`: on Consul and Nacos, success with too few events means up to date.
  `CancelEnds`: a signal ends it.

**Bounds.** `MaxSeq`, `MaxCrashes` and `MaxSlips` (journal), `MaxRev` (writers),
`Asked`, `Old`, `MaxTime` and `MaxFaults` (backup store), `Requests` and `Initial`
(contexts), `MaxLog` (listener) and `MaxRetries` (Nacos) are the only bounds. The
sequence number also ends in the code, at 2^64 - 1, and the same error path is
taken at `MaxSeq`. Two processes are enough for every race of the journal,
since the lock lets one at a time in and a third only repeats what the second did;
one crash leaves each kind of half-done work, and a second would need the first
to have been repaired. For the writers the danger is an
interfering write between a read and a write of one command, and another that changes
the blob back: `MaxRev` leaves other writers two of them, and in `batch`, where
they have one, a second command writes too. `MaxRev` stops only other
writers, the commands write as often as they please. `config` and `flags` have one
command and the other writers, who do whatever a second command could do to the
blobs. `contexts` has two commands that may collide in every way and a third that
deletes what one of them is about to reconcile; each has a secret of its own, so
that a secret tells who wrote it. `listen` has the code's own limit, since an
off-by-one would hide in a smaller one, and changes enough for two events and one
that comes too late. `nacos` cuts the code's 3 retries to 2, which still
leaves a first, a middle and a last one. One
cleaner that races another and a saver gives every order of two index
updates; three ids are the least with which `--keep-last 1` deletes one backup,
keeps one and meets a new one. `CHECK_DEADLOCK FALSE` is set where commands end and
nothing begins again; in the journal some process can always step, and
deadlock is checked in all of its runs.

**Fairness.** `MutationAudit`: a process that runs takes its next
step (weak fairness of `Step`), as the scheduler of the system guarantees.
The lock is granted in the end to a process that keeps asking (strong fairness
of `Acquire`): the code polls it, and a process holds it only for the length of a
few file operations. Audit storage recovers: a source of ordinary records that
tries a replay again and again is not refused forever (strong fairness of
`ReplayCommitted` and `Remove`), as the advice of the code's own error takes for granted
("a later mutation replays durable outcomes automatically"). Nothing makes a process crash or an operation begin, and
an event source can always come, so the drain does not rely on a new
mutation. `Listener`: weak fairness of the listener's own steps, as every poll has a
deadline (`context.WithTimeout`) and every wait a timer. `NacosWrites`: weak
fairness of the command and its answers together, as its HTTP client has a timeout
and a request without an answer counts as lost. Neither grants that a poll or a
request succeeds, nor that the key changes.

## 5. What is proved

Each theorem holds for every value of the constants that satisfies `ConstantsOK`
of its module: disjoint sets of processes, distinguished values outside the
sets they are told from, natural bounds, finite sets of types, keys or ids
numbered in their order, and well-formed requests of the context commands. The
backend, the placement of keys and the numbers of processes, rules, flags, contents,
contexts and backups are arbitrary. Every safety proof has the same shape: `IInv`, which TLC
agrees with on the instances of the runs, holds initially and is kept by every action
(`Inductive`), and the
property follows from it, or, for an action property, from it and the one step.

| module | theorems | the idea of the invariant |
|---|---|---|
| `MutationAudit_proofs` | `TypeCorrect`, `Inductive`, `IntentFirst`, `ResultsAreLogged`, `NoOrphans`, `PromisesAreKept`, `LossIsReported`, `UncertainIsNotReplayed`, `NamesAreUnique`, `ReplayInOrder`, `StuckFilesStopTheJournal`, `RepeatsArePaid`, `NoAccessGoesRound`, `ImplementsContract` | the position of a process determines whether it holds the lock, whether its intent and its outcome are in the log, and whether a spool file is its own; a process past replay has a spool without pending files; each repeated record and each file that will be written again is paid for by a fault (`RepeatInv`); what is being handled is readable, and what is about to be put in place is last (`QueueInv`) |
| `RuleWrites_proofs` | `TypeCorrect`, `Inductive`, `NoUpdateIsLost`, `BackupsComeFirst`, `OrderIsKept`, `OutcomesAreHonest`, `NoRollbackByIdOnKubernetes` | a revision held by a plan or by an `Update` is past or present, and if it is present, the blob is the one that was read; once saved, what is there stays saved until a change, and a change takes away the revision or the absence that the write needs; what is not left is written or skipped, and comes before what is left; the count is of the writes that are not left, and only the one whose answer is awaited is left and written (`TallyInv`) |
| `ConfigWrites_proofs` | `TypeCorrect`, `Inductive`, `NoUpdateIsLost`, `BackupsComeFirst`, `NoGap`, `NoSelfConflict`, `AttemptsAreReported`, `OutcomesAreHonest`, `PaddedKeysAreDropped`, `OneUpdatePerObject`, `TwoUpdatesNeverSucceed` | the same over objects that hold several keys; what is left of a plan is closed under its order; where each key is an object, what an undisturbed batch has still to write is as it planned it; after a write into an object every other revision planned there is past |
| `BackupStore_proofs` | `TypeCorrect`, `Inductive`, `BackupsStay`, `BackupsAreComplete`, `DeletionsWerePreviewed`, `ReportsAreTrue`, `NewestStay`, `ReadersAreServed` | the holder of the index lock has read what the index says, less what it has deleted; a reported backup is whole and listed; for `NewestStay`, the newest n of a set stay the newest n when others outside it go (a counting argument over finite sets) |
| `FlagWrites_proofs` | `Inductive`, `EditsAreAtomic` | a planned revision is past or present, and if present the blob is what the plan was made from and, past the backup, is saved |
| `NacosWrites_proofs` | `Inductive`, `NeverTwice`, `ReportsTrue`, `FlagsHonoured`, `CommandsRunDown` | a write that is not repeated has one request, which is carried out, under way or lost; what was read is what is there until somebody else writes or the first request takes effect |
| `Contexts_proofs` | `Inductive`, `CredentialsPreserved`, `ReportsHonest`, `Governed`, `SuccessIsKept` | what the holder of the lock has read is still true; its secrets are the old ones where it has not put, the new ones where it has; who undoes has found the file unchanged, under the lock; a literal in the file was there at the start or was saved by a command that will not save again, and a literal that a migration has replaced is gone for good (`SecretInv`) |
| `Listener_proofs` | `Inductive`, `EventsAreReal`, `AbortsHonestly`, `NoFalseCalm`, `CanceledRunsOut`, `NoFalseSuccess` | the count and the wait are functions of the failures since the last poll that did not fail; the known revision is the last event, or what the command began with |

`NoLostUpdate` cannot do without the invariant: that the revision matches says
nothing unless a revision determines the content, which holds only for revisions
that were read together with it. `SavedBeforeReplaced` needs more: the backup is
read after the plan and before the write, so it is the precondition of the write,
and not the plan, that makes the saved content the destroyed one.

`ImplementsContract` is a refinement: `log` and `spool` map to the records and the
kept outcomes of `AuditContract`, and each file operation is a step of the
contract or a stutter. `EditsAreAtomic` is another: it needs the inductive
invariant at the one step that takes effect, where `FlagSet` asks that the edit fits
the set of that moment and that the set was saved. Some invariants are proved and
no longer run, because a stronger property runs in their place: `OutcomeAfterIntent`,
`UncertainNotQueued`, `SpoolNamesUnique` of the journal, `NeverCorrupt` of the backup
store, type correctness, and every `IInv` but that of `Contexts`.

The counts take more than the order. `TallyInv` says which writes a command may have
made without knowing it: the one whose answer is out, and no other. The sums of an
outcome are then facts about the cardinalities of three disjoint parts of the plan.
`RepeatsArePaid` is bookkeeping of the same kind: `Cardinality(Repeats) +
Cardinality(Stale)` is bounded by the faults so far, where `Stale` are the pending files
whose outcome is in the log already; an append of such a file turns one unit of the
second set into one of the first, and nothing but a crash or a failing removal adds one.

Three theorems carry a hypothesis. `OutcomesAreHonest` of the config commands is about
sources without padded keys (`Padded = {}`); for any keys, `AttemptsAreReported` says what
the counts still mean and `PaddedKeysAreDropped` what they hide. `SuccessIsKept` asks that
a secret tells which command it came from (`SecretsApart`, which `MCContexts` assumes and
TLC evaluates): two operators who type the same password cannot be told apart by any
state, and then an undo of one is an undo of the other. The theorems of `Listener`
assume `ConstantsOK` by name.

**Towards liveness.** What a proof can say of termination without fairness is proved:
`CommandsRunDown`, `CanceledRunsOut` and `NoAccessGoesRound` give a number for each state
that every step of the command, of the canceled listener, or of the holder of the spool
lock makes smaller, and that no other process makes larger. For any number of
retries, events and spooled files nothing goes round in circles; fairness has only to
keep the steps coming.

**Only model-checked.** `EveryOperationEnds`, `DurableOutcomesDrain`, `CancelEnds`,
`EveryCommandEnds`: liveness under fairness, like ENABLED, is out of the prover's reach.
Every other property of a run is the statement of a theorem. `ConflictMeansInterference`
is restricted to etcd and Consul, because it is false where keys share an object
(section 7). Induction over data is out of reach too; no definition is RECURSIVE, and no
theorem relies on it.

The runs have no unreadable outcome and no padded key, so that the properties that fail
with one can be checked at all; the theorems are about any.

One error of an earlier version of the models came to light in a proof and is
corrected: the tally of an outcome was a CASE whose guards overlap, and TLA+ lets a CASE
choose any guard that holds. TLC takes the first, so that no run could show it.

## 6. What is not modelled

* **Apollo.** A write is a change of the item and then a release of the namespace
  (`apollo.go:186-237`); governed rule, flag and batch writes refuse Apollo, and what
  remains (`push`, `delete`, `rollback`) takes no precondition. Reading the code: after a
  release that failed the item is changed but not live, a second push finds the
  item as wanted and reports it unchanged, and a second delete is answered 404 and
  reports success. What a release contains is decided by the Apollo server, which
  is not in this repository, so a model would mostly be of that.
* **Audit prune, repair, rotation.** `cmd/audit.go` previews, confirms and calls; the
  scan, the repair and the rotation are the audit library's, which is not in this
  repository.
* **Pure functions.** Risk tiers and allow flags, validation of rules and flags,
  diffs, rendering, parsing: table tests cover them. A command whose input does not
  validate, or whose risk is not allowed, is one that `PlanFails` or is `Refuse`d.
* **Diagnostics, installation**: output and copying of files.
* **Reads**: `get`, `list`, `history`, `audit query` keep no state. A mandatory audit of
  a read is in `MutationAudit`.

Weaknesses that the models show and no property forbids:

* A rollback and a push without `--expected-revision` overwrite whatever is there
  (`NoLostUpdate` is about commands that promise otherwise).
* A clean that fails while it rewrites the index leaves a part of it (`broken`), and
  counts one backup more than it planned; a rollback that reads the index during a
  rewriting may not find its backup. An append that stops half way leaves an index that
  `readIndex` rejects, and nothing repairs it: every backup in it is out of reach.
* On Nacos, what another writer has put there after the command's reads is overwritten
  unseen and unsaved, and a blob that it has deleted since is created anew even with
  `--update-only`. A namespace deletion whose first answer was lost is sent again
  and reports "not found" of what it has itself deleted.
* On Nacos a request that was given up can still arrive, after the command has
  reported a failure, and overwrite what another writer has put there since. A
  namespace created by a request whose answer was lost is reported as failed.
* A Nacos key that is deleted makes every later poll of a listener fail, so it ends
  in "aborted" after 20 of them. On etcd, Consul and Kubernetes a refused
  authentication is retried like any other error, though `CHANGELOG.md:229` says
  that authentication failures return immediately. A server that stays silent keeps
  the listener polling forever (`Expire`).
* A context command that dies between the secrets and the file leaves the secrets
  where they are. `context.go` recognizes its own save by content, so that a change
  there and back by others looks like no change; `ReportHonest` is therefore about
  the state, not about who made it.

## 7. Where code and documentation disagree

Two runs show a statement of the documentation that the code does not keep, each
with its place in `PROJECT.json`:

* `tempfile`: a process that dies between creating a `.tmp` spool file and
  renaming it leaves a spool that every later replay refuses, although a later
  mutation is said to replay durable outcomes automatically.
* `listen_canceled`: on etcd and Kubernetes a canceled `config listen` ends
  successfully with fewer events than asked for, although `README.md:179` says that it
  exits nonzero.

Others are theorems. For every backup, `NoRollbackByIdOnKubernetes`: a rule set on
Kubernetes is backed up under a name from which `rule rollback --backup <id>` cannot tell
the type (`internal/rule/rule.go:94`). A flag rollback meets the same
(`flag_write.go:582`): the data id `<app>-flags/flags.json` lacks the suffix `-flags`.

Three more are kept apart, by a constant or a restriction, from what holds otherwise:

* The spool accepts an outcome that its own reader rejects (`mutation_audit.go:475`
  and `:745`); `Unreadable` names such outcomes. `StuckFilesStopTheJournal`: once one of them
  is first in the queue, no record of any process is written any more.
* A batch plans a key by its trimmed name and looks its content up under the
  untrimmed one, and reports success without writing it (`config_bulk.go:1190`);
  `Padded` names such keys. `PaddedKeysAreDropped`: none is ever written.
* A batch that overwrites two data keys of one Kubernetes object is refused its
  second write because of its own first (`config_bulk.go:806`, `k8s.go:623`). `TwoUpdatesNeverSucceed`: such a
  batch never succeeds, whoever else writes or does not.

## 8. Plan

Done, in this order: `MutationAudit`, `RuleWrites`, `ConfigWrites`, `BackupStore`,
`Contexts` (with the authorization of changes of contexts), `Listener`, `NacosWrites`,
`FlagWrites` with `FlagSet`.

What is left, in order of importance:

1. A composition of the journal with a writer, whose recorded counts then
   survive a crash. Each half is proved alone, the journal for any operation and
   the writers for any journal.
2. An abstract specification of config batches in the manner of `FlagSet`; a batch is
   not atomic, so it would have to say which prefixes of a plan are allowed.
3. Apollo and the pruning of the audit log, if the parts of them that lie outside of
   this repository are pinned down.
