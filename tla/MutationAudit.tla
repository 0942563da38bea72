---------------------------- MODULE MutationAudit ----------------------------
(***************************************************************************)
(* The intent/outcome audit journal of cmd/mutation_audit.go and           *)
(* cmd/read_audit.go.                                                      *)
(*                                                                         *)
(* A governed operation (a mutation or a mandatory backend read) appends   *)
(* an intent to the audit log, runs, and appends an outcome.  An outcome   *)
(* that is known not to be in the log goes to a spool directory beside it; *)
(* every later journal access replays the spool first.  Each access runs   *)
(* under the spool lock, but its file operations are separate steps: a     *)
(* process can die between any two of them.                                *)
(*                                                                         *)
(* Modelling decisions:                                                    *)
(*  - every element of Operations is one operation with its own random id, *)
(*    run by one process; every element of Events is a source of ordinary  *)
(*    records (command.preview, the best-effort resource events), one      *)
(*    short process after another.  Ordinary records are not kept in log;  *)
(*  - an append ends in one of the commit states of the audit library:     *)
(*    Committed, NotCommitted, CommittedPostCommitError or Indeterminate.  *)
(*    A Committed result that comes with an error, or a state the code     *)
(*    does not know, takes the code's path for the uncertain states;       *)
(*  - the operating system frees the spool lock of a dead process.         *)
(***************************************************************************)
EXTENDS Naturals, Sequences, FiniteSets

CONSTANTS
  Operations,   \* mutations and mandatory reads
  Events,       \* sources of ordinary records; each never runs out
  Unreadable,   \* operations whose outcome record readMutationSpoolRecord rejects
  NoOne,        \* the owner of a free lock
  MaxSeq,       \* the largest spool sequence number (2^64 - 1 in the code)
  MaxCrashes,   \* bound: how many times a process dies
  MaxSlips      \* bound: how many spool file removals or renames fail

ASSUME ConstantsOK ==
  /\ NoOne \notin Operations \cup Events
  /\ Operations \cap Events = {}
  /\ Unreadable \subseteq Operations
  /\ MaxSeq \in Nat /\ MaxCrashes \in Nat /\ MaxSlips \in Nat

Procs == Operations \cup Events

VARIABLES
  lock,     \* the process that holds the spool lock, or NoOne
  log,      \* the audit log: the intents and outcomes in it, in order
  spool,    \* the files of the spool directory
  pc,       \* where each process is
  verdict,  \* what the current journal access, and at "done" the command, reports
  result,   \* what the operation itself returned
  touched,  \* the operations that reached their backend or local target
  crashes, slips

vars == <<lock, log, spool, pc, verdict, result, touched, crashes, slips>>

Records == [op : Operations, phase : {"intent", "outcome"}]

(* A spool file: its sequence number, the operation whose outcome it holds, *)
(* and its suffix: ".tmp", none, or ".indeterminate".                       *)
Entries == [seq : 1..MaxSeq, op : Operations,
            mark : {"temp", "pending", "quarantined"}]

(* Positions inside withMutationAuditQueue, that is, under the spool lock.  *)
Locked == {"scan", "remove", "removeLate", "quarantine", "append", "spool",
           "rename", "unlock"}

PCs == Locked \cup {"begin", "operate", "finish", "done", "dead"}

(* "handle": the intent is committed; "refused": begin failed, nothing runs; *)
(* "ok"/"failed": the operation's own result is returned; the other four are *)
(* AUDIT_INCOMPLETE: "spooled" and "behind" promise a durable outcome (the   *)
(* outcome's own append was refused, or a replay before it failed), "lost"   *)
(* reports that durable spooling failed, "uncertain" an unclear append.      *)
Verdicts == {"none", "handle", "refused", "ok", "failed", "spooled", "behind",
             "lost", "uncertain"}

(* What the process is at the journal for. *)
Stage(p) == IF p \in Events THEN "event"
            ELSE IF result[p] = "none" THEN "intent" ELSE "outcome"

Intent(p)  == [op |-> p, phase |-> "intent"]
Outcome(p) == [op |-> p, phase |-> "outcome"]

InLog(r) == \E i \in 1..Len(log) : log[i] = r

Pending == {e \in spool : e.mark = "pending"}

(* An entry that is not a plain pending file makes every replay fail. *)
Blocked == \E e \in spool : e.mark # "pending"

(* The same file under the name with another suffix. *)
Marked(e, mark) == [seq |-> e.seq, op |-> e.op, mark |-> mark]

(* sort.Strings on zero-padded names: the first file replayed. *)
IsFirst(e) == e \in Pending /\ \A f \in Pending : e.seq <= f.seq

(* nextMutationSpoolSequence: one more than the largest number in use.      *)
IsNextSeq(n) == /\ \A e \in spool : e.seq < n
                /\ n = 1 \/ \E e \in spool : e.seq = n - 1

Init ==
  /\ lock = NoOne
  /\ log = <<>>
  /\ spool = {}
  /\ pc = [p \in Procs |-> "begin"]
  /\ verdict = [p \in Procs |-> "none"]
  /\ result = [p \in Operations |-> "none"]
  /\ touched = {}
  /\ crashes = 0
  /\ slips = 0

-----------------------------------------------------------------------------
(* Entering the journal: withMutationAuditQueue, withMutationSpoolLock.     *)

Acquire(p) ==
  /\ pc[p] \in {"begin", "finish"}
  /\ lock = NoOne
  /\ lock' = p
  /\ pc' = [pc EXCEPT ![p] = "scan"]
  /\ UNCHANGED <<log, spool, verdict, result, touched, crashes, slips>>

(* The audit or spool directory is refused, or the lock is not granted: an  *)
(* intent is refused, an outcome is lost.  An ordinary record is dropped.   *)
AcquireFails(p) ==
  /\ p \in Operations
  /\ pc[p] \in {"begin", "finish"}
  /\ pc' = [pc EXCEPT ![p] = "done"]
  /\ verdict' = [verdict EXCEPT ![p] =
                   IF pc[p] = "begin" THEN "refused" ELSE "lost"]
  /\ UNCHANGED <<lock, log, spool, result, touched, crashes, slips>>

-----------------------------------------------------------------------------
(* replayMutationAuditSpoolLocked.  When it fails, an intent is refused, an *)
(* ordinary record is dropped, and an outcome goes behind the other files.  *)

(* Faults: the failed replay of an outcome is retried at once, or its       *)
(* operation's result is returned all the same.                             *)
GiveUpReplayRetrying(p) ==
  /\ pc' = [pc EXCEPT ![p] = IF Stage(p) = "outcome" THEN "scan" ELSE "unlock"]
  /\ verdict' = [verdict EXCEPT ![p] =
                   IF Stage(p) = "outcome" THEN "none" ELSE "refused"]

GiveUpReplaySilently(p) ==
  /\ pc' = [pc EXCEPT ![p] = "unlock"]
  /\ verdict' = [verdict EXCEPT ![p] =
                   IF Stage(p) = "outcome" THEN result[p] ELSE "refused"]

GiveUpReplay(p) ==
  /\ pc' = [pc EXCEPT ![p] = IF Stage(p) = "outcome" THEN "spool" ELSE "unlock"]
  /\ verdict' = [verdict EXCEPT ![p] =
                   IF Stage(p) = "outcome" THEN "behind" ELSE "refused"]

(* A quarantined, temporary or unreadable file, an I/O error, or an append  *)
(* that is not committed.                                                   *)
ReplayFails(p) ==
  /\ pc[p] = "scan"
  /\ GiveUpReplay(p)
  /\ UNCHANGED <<lock, log, spool, result, touched, crashes, slips>>

(* Faults a replay could have: any file may go next; a quarantined file does *)
(* not hold back the others.                                                 *)
CanReplayAnyFile(e) == ~Blocked /\ e \in Pending /\ e.op \notin Unreadable
CanReplayPastQuarantine(e) == IsFirst(e) /\ e.op \notin Unreadable

CanReplay(e) == ~Blocked /\ IsFirst(e) /\ e.op \notin Unreadable

ReplayUncommitted(p) ==
  /\ pc[p] = "scan"
  /\ \E e \in Pending : CanReplay(e) /\ log' \in {log, Append(log, Outcome(e.op))}
  /\ pc' = [pc EXCEPT ![p] = "remove"]
  /\ UNCHANGED <<lock, spool, verdict, result, touched, crashes, slips>>

ReplayCommitted(p) ==
  /\ pc[p] = "scan"
  /\ \E e \in Pending :
       /\ CanReplay(e)
       /\ log' = Append(log, Outcome(e.op))
  /\ pc' = [pc EXCEPT ![p] = "remove"]
  /\ UNCHANGED <<lock, spool, verdict, result, touched, crashes, slips>>

(* CommittedPostCommitError: the record is in the log; the file goes, and   *)
(* the replay fails all the same.                                           *)
ReplayCommittedLate(p) ==
  /\ pc[p] = "scan"
  /\ \E e \in Pending :
       /\ CanReplay(e)
       /\ log' = Append(log, Outcome(e.op))
  /\ pc' = [pc EXCEPT ![p] = "removeLate"]
  /\ UNCHANGED <<lock, spool, verdict, result, touched, crashes, slips>>

ReplayIndeterminate(p) ==
  /\ pc[p] = "scan"
  /\ \E e \in Pending :
       /\ CanReplay(e)
       /\ log' \in {log, Append(log, Outcome(e.op))}
  /\ pc' = [pc EXCEPT ![p] = "quarantine"]
  /\ UNCHANGED <<lock, spool, verdict, result, touched, crashes, slips>>

(* removeReplayedMutationSpool: the file is gone; the directory sync may    *)
(* still fail, and after a late commit the replay fails anyway.             *)
Remove(p) ==
  /\ pc[p] \in {"remove", "removeLate"}
  /\ \E e \in Pending : IsFirst(e) /\ spool' = spool \ {e}
  /\ \/ /\ pc[p] = "remove"
        /\ pc' = [pc EXCEPT ![p] = "scan"]
        /\ UNCHANGED verdict
     \/ GiveUpReplay(p)
  /\ UNCHANGED <<lock, log, result, touched, crashes, slips>>

(* markMutationSpoolIndeterminate *)
QuarantineDroppingFile(p) ==
  /\ pc[p] = "quarantine"
  /\ \E e \in Pending : IsFirst(e) /\ spool' = spool \ {e}
  /\ GiveUpReplay(p)
  /\ UNCHANGED <<lock, log, result, touched, crashes, slips>>

Quarantine(p) ==
  /\ pc[p] = "quarantine"
  /\ \E e \in Pending :
       /\ IsFirst(e)
       /\ spool' = (spool \ {e}) \cup {Marked(e, "quarantined")}
  /\ GiveUpReplay(p)
  /\ UNCHANGED <<lock, log, result, touched, crashes, slips>>

(* The removal or the rename fails and the replayed file stays pending (as  *)
(* it does when a Committed append comes back with an error).               *)
FileStays(p) ==
  /\ pc[p] \in {"remove", "removeLate", "quarantine"}
  /\ slips < MaxSlips
  /\ slips' = slips + 1
  /\ GiveUpReplay(p)
  /\ UNCHANGED <<lock, log, spool, result, touched, crashes>>

ReplayDone(p) ==
  /\ pc[p] = "scan"
  /\ spool = {}
  /\ pc' = [pc EXCEPT ![p] = "append"]
  /\ UNCHANGED <<lock, log, spool, verdict, result, touched, crashes, slips>>

-----------------------------------------------------------------------------
(* The process's own record: beginMutationAudit, finishMutationAudit,       *)
(* appendQueuedAuditRecord.                                                 *)

OwnRecord(p) == [op |-> p, phase |-> Stage(p)]

LogWithOwn(p) == IF p \in Events THEN log ELSE Append(log, OwnRecord(p))

AppendCommitted(p) ==
  /\ pc[p] = "append"
  /\ log' = LogWithOwn(p)
  /\ pc' = [pc EXCEPT ![p] = "unlock"]
  /\ verdict' = [verdict EXCEPT ![p] =
                   IF Stage(p) = "outcome" THEN result[p] ELSE "handle"]
  /\ UNCHANGED <<lock, spool, result, touched, crashes, slips>>

AppendNotCommittedIgnored(p) ==
  /\ pc[p] = "append"
  /\ pc' = [pc EXCEPT ![p] = "unlock"]
  /\ verdict' = [verdict EXCEPT ![p] =
                   IF Stage(p) = "outcome" THEN result[p] ELSE "handle"]
  /\ UNCHANGED <<lock, log, spool, result, touched, crashes, slips>>

AppendNotCommitted(p) ==
  /\ pc[p] = "append"
  /\ IF Stage(p) = "outcome"
     THEN /\ pc' = [pc EXCEPT ![p] = "spool"]
          /\ verdict' = [verdict EXCEPT ![p] = "spooled"]
     ELSE /\ pc' = [pc EXCEPT ![p] = "unlock"]
          /\ verdict' = [verdict EXCEPT ![p] = "refused"]
  /\ UNCHANGED <<lock, log, spool, result, touched, crashes, slips>>

(* A fault: the unclear outcome is queued as well as reported.              *)
AppendUncertainSpools(p) ==
  /\ pc[p] = "append"
  /\ log' \in {log, LogWithOwn(p)}
  /\ pc' = [pc EXCEPT ![p] = IF Stage(p) = "outcome" THEN "spool" ELSE "unlock"]
  /\ verdict' = [verdict EXCEPT ![p] =
                   IF Stage(p) = "outcome" THEN "uncertain" ELSE "refused"]
  /\ UNCHANGED <<lock, spool, result, touched, crashes, slips>>

(* CommittedPostCommitError or Indeterminate: the record may be in the log, *)
(* so no copy of it is spooled.                                             *)
AppendUncertain(p) ==
  /\ pc[p] = "append"
  /\ log' \in {log, LogWithOwn(p)}
  /\ pc' = [pc EXCEPT ![p] = "unlock"]
  /\ verdict' = [verdict EXCEPT ![p] =
                   IF Stage(p) = "outcome" THEN "uncertain" ELSE "refused"]
  /\ UNCHANGED <<lock, spool, result, touched, crashes, slips>>

-----------------------------------------------------------------------------
(* writeMutationSpoolRecord                                                 *)

(* Any entry the sequencing does not expect, an exhausted sequence or an    *)
(* I/O error: nothing durable is left behind.                               *)
SpoolFails(p) ==
  /\ pc[p] = "spool"
  /\ pc' = [pc EXCEPT ![p] = "unlock"]
  /\ verdict' = [verdict EXCEPT ![p] = "lost"]
  /\ UNCHANGED <<lock, log, spool, result, touched, crashes, slips>>

Spool(p) ==
  /\ pc[p] = "spool"
  /\ \A e \in spool : e.mark # "temp"
  /\ \E n \in 1..MaxSeq :
       /\ IsNextSeq(n)
       /\ spool' = spool \cup {[seq |-> n, op |-> p, mark |-> "temp"]}
  /\ pc' = [pc EXCEPT ![p] = "rename"]
  /\ UNCHANGED <<lock, log, verdict, result, touched, crashes, slips>>

IsTemp(e, p) == e \in spool /\ e.mark = "temp" /\ e.op = p

(* The rename; the directory sync after it may fail, and then the record is *)
(* reported lost although its file is in place.                             *)
Rename(p) ==
  /\ pc[p] = "rename"
  /\ \E e \in spool :
       /\ IsTemp(e, p)
       /\ spool' = (spool \ {e}) \cup {Marked(e, "pending")}
  /\ pc' = [pc EXCEPT ![p] = "unlock"]
  /\ verdict' \in {verdict, [verdict EXCEPT ![p] = "lost"]}
  /\ UNCHANGED <<lock, log, result, touched, crashes, slips>>

(* The write, sync, close or rename fails; the temporary file is removed,   *)
(* unless its removal fails too: that error is ignored.                     *)
RenameFails(p) ==
  /\ pc[p] = "rename"
  /\ \/ /\ \E e \in spool : IsTemp(e, p) /\ spool' = spool \ {e}
        /\ UNCHANGED slips
     \/ /\ slips < MaxSlips
        /\ slips' = slips + 1
        /\ UNCHANGED spool
  /\ pc' = [pc EXCEPT ![p] = "unlock"]
  /\ verdict' = [verdict EXCEPT ![p] = "lost"]
  /\ UNCHANGED <<lock, log, result, touched, crashes>>

-----------------------------------------------------------------------------
(* Leaving the journal.                                                     *)

(* A fault: an operation runs whatever came of its intent.                  *)
AfterUnlockAlways(p, v) == IF p \in Events THEN "begin"
                           ELSE IF Stage(p) = "intent" THEN "operate" ELSE "done"

(* What the caller does next: only a handle lets the operation run; an      *)
(* ordinary record's process ends and the next one starts.                  *)
AfterUnlock(p, v) == IF p \in Events THEN "begin"
                     ELSE IF v = "handle" THEN "operate" ELSE "done"

Leave(p, v) ==
  /\ lock' = NoOne
  /\ pc' = [pc EXCEPT ![p] = AfterUnlock(p, v)]
  /\ verdict' = [verdict EXCEPT ![p] = IF p \in Events THEN "none" ELSE v]
  /\ UNCHANGED <<log, spool, result, touched, crashes, slips>>

Unlock(p) ==
  /\ pc[p] = "unlock"
  /\ Leave(p, verdict[p])

(* A failing release replaces a nil error only: a committed intent gives no *)
(* handle, and an outcome that was committed or spooled is reported lost.   *)
UnlockFails(p) ==
  /\ pc[p] = "unlock"
  /\ \/ verdict[p] = "handle" /\ Leave(p, "refused")
     \/ verdict[p] \in {"ok", "failed", "spooled"} /\ Leave(p, "lost")

-----------------------------------------------------------------------------
(* The operation between the two records: executeMandatoryRead and          *)
(* runAuthorizedBackendMutation.  It may fail before it reaches its target  *)
(* (a denied read, a client that cannot be built).                          *)
Operate(p) ==
  /\ pc[p] = "operate"
  /\ \E r \in {"ok", "failed"} :
       /\ result' = [result EXCEPT ![p] = r]
       /\ \/ touched' = touched \cup {p}
          \/ r = "failed" /\ UNCHANGED touched
  /\ pc' = [pc EXCEPT ![p] = "finish"]
  /\ verdict' = [verdict EXCEPT ![p] = "none"]
  /\ UNCHANGED <<lock, log, spool, crashes, slips>>

(* The process dies; its lock is freed and its files stay as they are.      *)
Crash(p) ==
  /\ crashes < MaxCrashes
  /\ pc[p] \notin {"begin", "done", "dead"}
  /\ crashes' = crashes + 1
  /\ lock' = IF lock = p THEN NoOne ELSE lock
  /\ pc' = [pc EXCEPT ![p] = IF p \in Events THEN "begin" ELSE "dead"]
  /\ verdict' = [verdict EXCEPT ![p] = "none"]
  /\ UNCHANGED <<log, spool, result, touched, slips>>

-----------------------------------------------------------------------------
Replay(p) == \/ ReplayFails(p)
             \/ ReplayCommitted(p)
             \/ ReplayCommittedLate(p)
             \/ ReplayIndeterminate(p)
             \/ Remove(p)
             \/ Quarantine(p)
             \/ FileStays(p)
             \/ ReplayDone(p)

AppendOwn(p) == AppendCommitted(p) \/ AppendNotCommitted(p) \/ AppendUncertain(p)

WriteSpool(p) == SpoolFails(p) \/ Spool(p) \/ Rename(p) \/ RenameFails(p)

(* What a running process does once it has the lock, or runs its operation. *)
Step(p) == \/ Replay(p) \/ AppendOwn(p)
           \/ p \in Operations /\ (WriteSpool(p) \/ Operate(p))
           \/ Unlock(p) \/ UnlockFails(p)

Next == \E p \in Procs : Acquire(p) \/ AcquireFails(p) \/ Step(p) \/ Crash(p)

Spec == Init /\ [][Next]_vars

(* A live process takes its steps, the lock is granted in the end, and      *)
(* audit storage recovers: a replay that is tried for ever is not refused   *)
(* for ever.  Nothing makes a process crash or an operation begin.          *)
Fairness ==
  /\ \A p \in Procs : WF_vars(Step(p)) /\ SF_vars(Acquire(p))
  /\ \A p \in Events : SF_vars(ReplayCommitted(p)) /\ SF_vars(Remove(p))

FairSpec == Spec /\ Fairness

-----------------------------------------------------------------------------
(* Properties                                                               *)

(* The types of the variables; ordinary records never enter log.            *)
TypeOK ==
  /\ lock \in Procs \cup {NoOne}
  /\ log \in Seq(Records)
  /\ spool \subseteq Entries
  /\ pc \in [Procs -> PCs]
  /\ verdict \in [Procs -> Verdicts]
  /\ result \in [Operations -> {"none", "ok", "failed"}]
  /\ touched \subseteq Operations
  /\ crashes \in 0..MaxCrashes
  /\ slips \in 0..MaxSlips

Logged(p) == InLog(Outcome(p))
Queued(p) == \E e \in spool : e.op = p /\ e.mark # "temp"

(* beginMutationAudit: no backend, credential or file is touched before the *)
(* operation's intent is in the audit log, whatever the append, the lock    *)
(* release or a crash does.                                                 *)
IntentBeforeEffect == \A p \in touched : InLog(Intent(p))

(* finishMutationAudit and executeMandatoryRead: ordinary success, and the  *)
(* release of a read result or of an operation's own error, come only after *)
(* the operation's outcome is in the audit log; a spooled outcome does not  *)
(* do.                                                                      *)
ReturnedMeansLogged ==
  \A p \in Operations :
    pc[p] = "done" /\ verdict[p] \in {"ok", "failed"} => Logged(p)

(* Every logged or spooled outcome, replayed ones included, has its intent  *)
(* before it in the log: an outcome is never an orphan.                     *)
OutcomeAfterIntent ==
  /\ \A i \in 1..Len(log) :
       log[i].phase = "outcome" => \E j \in 1..(i - 1) : log[j] = Intent(log[i].op)
  /\ \A e \in spool : InLog(Intent(e.op))

(* AUDIT_INCOMPLETE with the "replays durable outcomes" advice is given     *)
(* only when the outcome stays in the log or in the spool for ever after,   *)
(* through replays, quarantine and crashes of other processes.              *)
PromiseKept ==
  \A p \in Operations :
    pc[p] = "done" /\ verdict[p] \in {"spooled", "behind"} => Logged(p) \/ Queued(p)

(* A command that reached its target and has no outcome in the log or the   *)
(* spool says so: it never returns its own result or a durable promise.     *)
LostIsReported ==
  \A p \in touched :
    pc[p] = "done" /\ ~Logged(p) /\ ~Queued(p) => verdict[p] \in {"lost", "uncertain"}

(* An outcome whose own append was unclear is never put in the replayable   *)
(* spool, where a replay could write it a second time.                      *)
UncertainNotQueued ==
  \A p \in Operations :
    verdict[p] = "uncertain" => \A e \in spool : e.op # p

(* Each record is written once, unless a process died or a spool file could *)
(* not be removed or renamed: replay is at-least-once only because of those.*)
Repeats == {i \in 1..Len(log) : \E j \in 1..(i - 1) : log[j] = log[i]}
RepeatsNeedFaults == Cardinality(Repeats) <= crashes + slips

(* Sequence numbers are unique and two files never hold one operation's     *)
(* outcome: names cannot collide and replay order is total.                 *)
SpoolNamesUnique ==
  \A e, f \in spool : e # f => e.seq # f.seq /\ e.op # f.op

(* Replay keeps the order in which outcomes were spooled and comes before   *)
(* any new record: while files are pending, the log grows only by the       *)
(* outcome of the first of them.                                            *)
NoOvertaking ==
  [][ \A e \in Pending :
        Len(log') > Len(log) =>
          \E f \in Pending : f.seq <= e.seq /\ log' = Append(log, Outcome(f.op)) ]_vars

(* A file that no replay gets past: one with the .indeterminate suffix, a   *)
(* temporary file whose owner will not rename it any more, and a first      *)
(* pending file that readMutationSpoolRecord rejects.                       *)
StuckFile(e) == \/ e.mark = "quarantined"
                \/ e.mark = "temp" /\ pc[e.op] # "rename"
                \/ IsFirst(e) /\ e.op \in Unreadable

(* A stuck file stays stuck, and no record of any process is written, until *)
(* a human reconciles it: nothing in the program clears the queue.          *)
StuckFilesBlock ==
  [][ \A e \in spool : StuckFile(e) => e \in spool' /\ StuckFile(e)' /\ log' = log ]_vars

(* The inductive invariant behind the properties above: what each position  *)
(* of a process says of the lock, the log and the spool.                    *)
LockInv == \A p \in Procs : pc[p] \in Locked <=> lock = p

StageAt(p) ==
  /\ pc[p] = "begin" => verdict[p] = "none" /\ result[p] = "none"
  /\ pc[p] \in {"finish", "dead"} => verdict[p] = "none"
  /\ pc[p] \in {"finish", "spool", "rename"} => result[p] # "none"
  /\ pc[p] \in {"spool", "rename"} => verdict[p] \in {"spooled", "behind"}
  /\ pc[p] = "operate" => verdict[p] = "handle"
  /\ verdict[p] = "handle" => result[p] = "none" /\ InLog(Intent(p))
  /\ verdict[p] = "refused" => result[p] = "none"
  /\ verdict[p] \in {"ok", "failed"} => Logged(p)
  /\ result[p] # "none" => InLog(Intent(p))
  /\ p \in touched => result[p] # "none"
  /\ pc[p] \in {"unlock", "done"} => verdict[p] # "none"
  /\ pc[p] = "done" => verdict[p] # "handle"

StageInv == \A p \in Operations : StageAt(p)

SpoolNames == \A e, f \in spool : e.seq = f.seq \/ e.op = f.op => e = f

OwnerAt(p) ==
  /\ result[p] # "none"
  /\ pc[p] \in {"rename", "unlock", "done", "dead"}
  /\ pc[p] # "dead" => verdict[p] \in {"spooled", "behind", "lost"}

DrainedAt(p) == pc[p] = "append" => spool = {}

TempAt(p) == pc[p] = "rename" => \E e \in spool : IsTemp(e, p)

SpoolInv ==
  /\ SpoolNames
  /\ \A e \in spool : OwnerAt(e.op)
  /\ \A p \in Procs : DrainedAt(p)
  /\ \A p \in Operations : TempAt(p)

KeptAt(p) ==
  pc[p] \in {"unlock", "done"} /\ verdict[p] \in {"spooled", "behind"} =>
    Logged(p) \/ Queued(p)

ReplayedAt(p) ==
  pc[p] \in {"remove", "removeLate"} => \E e \in Pending : IsFirst(e) /\ Logged(e.op)

PromiseInv ==
  /\ \A p \in Operations : KeptAt(p)
  /\ \A p \in Procs : ReplayedAt(p)

(* Each of its parts holds in every state; together they are inductive.     *)
IInv == TypeOK /\ LockInv /\ StageInv /\ SpoolInv /\ PromiseInv

(* Behind RepeatsNeedFaults: a pending file whose outcome is in the log     *)
(* already, and that no process is about to remove or rename, will be       *)
(* written again.  Each such file, and each repeated record, was paid for   *)
(* by a fault; whoever writes a record of its own writes it for the first   *)
(* time.                                                                    *)
Handling(p) == pc[p] \in {"remove", "removeLate", "quarantine"}
InHand(e) == IsFirst(e) /\ \E p \in Procs : Handling(p)
Stale == {e \in Pending : Logged(e.op) /\ ~InHand(e)}

OnceAt(p) ==
  /\ result[p] = "none" /\ (pc[p] \in {"begin", "scan", "append"} \/ Handling(p)) =>
       ~InLog(Intent(p))
  /\ Logged(p) => result[p] # "none" /\ pc[p] \in {"unlock", "done", "dead"}

RepeatInv ==
  /\ \A p \in Operations : OnceAt(p)
  /\ Cardinality(Repeats) + Cardinality(Stale) <= crashes + slips

(* Behind StuckFilesBlock: a file that is handled was readable when it was  *)
(* chosen, and a file about to be put in place is the last of the queue.    *)
ReadableAt(p) == Handling(p) => \A e \in spool : IsFirst(e) => e.op \notin Unreadable
LastAt(p) == pc[p] = "rename" => \A e, f \in spool : IsTemp(e, p) => f.seq <= e.seq

QueueInv ==
  /\ \A p \in Procs : ReadableAt(p)
  /\ \A p \in Operations : LastAt(p)

(* How many steps a process can still take under the lock.                  *)
Work(p) ==
  CASE pc[p] = "scan" -> 4 + 2 * Cardinality(spool)
    [] Handling(p) -> 3 + 2 * Cardinality(spool)
    [] pc[p] = "append" -> 3
    [] pc[p] = "spool" -> 2
    [] pc[p] = "rename" -> 1
    [] OTHER -> 0

(* No access to the journal goes round in circles: every step under the     *)
(* lock leaves less to do, and nobody else makes more of it                 *)
(* (replayMutationAuditSpoolLocked, withMutationAuditQueue).                *)
AccessesRunDown ==
  [][ \A p \in Procs : pc[p] \in Locked /\ pc'[p] \in Locked =>
        /\ Work(p)' <= Work(p)
        /\ Step(p) => Work(p)' < Work(p) ]_vars

(* The journal implements AuditContract: the records in the log, the files  *)
(* that a replay or a human can still find, and the answer given at "done". *)
Answer(v) == CASE v = "refused" -> "refused"
               [] v \in {"ok", "failed"} -> "result"
               [] v \in {"spooled", "behind"} -> "durable"
               [] OTHER -> "incomplete"

Recorded == {log[i] : i \in 1..Len(log)}
Kept == {p \in Operations : Queued(p)}
Told == [p \in Operations |-> IF pc[p] = "done" THEN Answer(verdict[p]) ELSE "none"]

Contract == INSTANCE AuditContract WITH
  recorded <- Recorded, kept <- Kept, reached <- touched, told <- Told

(* Whatever the queue, the lock and the crashes do, what callers are told   *)
(* and what is recorded follow the contract: every step is one of its steps.*)
ContractSpec == Contract!Spec

(* Every operation that began ends: the journal never leaves it waiting.    *)
EveryOperationEnds ==
  \A p \in Operations : pc[p] = "scan" ~> pc[p] \in {"done", "dead"}

(* "a later mutation replays durable outcomes automatically"                *)
(* (cmd/mutation_audit.go, auditIncompleteError): a spooled outcome reaches *)
(* the log, or a replay leaves an .indeterminate file for a human.          *)
DurableOutcomesDrain ==
  \A p \in Operations :
    Queued(p) ~> (Logged(p) \/ \E e \in spool : e.mark = "quarantined")
=============================================================================
