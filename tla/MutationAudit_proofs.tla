------------------------ MODULE MutationAudit_proofs ------------------------
(* Proofs about MutationAudit for any operations, any sources of ordinary   *)
(* records, any unreadable outcomes and any bounds.                         *)
EXTENDS MutationAudit, FiniteSetTheorems, TLAPS

(* Appending to the audit log keeps what is in it and adds one record.      *)
LEMMA AppendToLog ==
  ASSUME log \in Seq(Records), NEW r \in Records, log' = Append(log, r)
  PROVE  /\ log' \in Seq(Records)
         /\ Len(log') = Len(log) + 1
         /\ \A i \in 1..Len(log) : log'[i] = log[i]
         /\ log'[Len(log) + 1] = r
         /\ \A x : InLog(x) => InLog(x)'
         /\ InLog(r)'
<1>1. /\ log' \in Seq(Records)
      /\ Len(log') = Len(log) + 1
      /\ \A i \in 1..Len(log) : log'[i] = log[i]
      /\ log'[Len(log) + 1] = r
  OBVIOUS
<1>2. Len(log) \in Nat
  OBVIOUS
<1>3. ASSUME NEW x, InLog(x) PROVE InLog(x)'
  <2>1. PICK i \in 1..Len(log) : log[i] = x
    BY <1>3 DEF InLog
  <2>2. i \in 1..Len(log') /\ log'[i] = x
    BY <2>1, <1>1, <1>2
  <2> QED
    BY <2>2 DEF InLog
<1>4. InLog(r)'
  BY <1>1, <1>2 DEF InLog
<1> QED
  BY <1>1, <1>3, <1>4

(* An intent is a record, an outcome is a record, and so is what a process  *)
(* of an operation appends for itself.                                      *)
LEMMA RecordTypes ==
  ASSUME NEW p \in Operations
  PROVE  Intent(p) \in Records /\ Outcome(p) \in Records
BY DEF Intent, Outcome, Records

-----------------------------------------------------------------------------
(* The type invariant: no file operation, append result, crash or release   *)
(* failure of the journal leaves its variables outside their types.         *)
THEOREM TypeCorrect == Spec => []TypeOK
<1>1. Init => TypeOK
  BY ConstantsOK DEF Init, TypeOK, PCs, Verdicts, Procs
<1>2. TypeOK /\ [Next]_vars => TypeOK'
  <2> SUFFICES ASSUME TypeOK, [Next]_vars PROVE TypeOK'
    OBVIOUS
  <2> USE DEF TypeOK, PCs, Locked, Verdicts, Procs
  <2>1. CASE UNCHANGED vars
    BY <2>1 DEF vars
  <2>2. ASSUME NEW p \in Procs, Acquire(p) PROVE TypeOK'
    BY <2>2 DEF Acquire
  <2>3. ASSUME NEW p \in Procs, AcquireFails(p) PROVE TypeOK'
    BY <2>3 DEF AcquireFails
  <2>4. ASSUME NEW p \in Procs, Replay(p) PROVE TypeOK'
    <3>1. CASE ReplayFails(p)
      BY <3>1 DEF ReplayFails, GiveUpReplay
    <3>2. CASE ReplayCommitted(p)
      BY <3>2, AppendToLog, RecordTypes DEF ReplayCommitted, Pending, Entries
    <3>3. CASE ReplayCommittedLate(p)
      BY <3>3, AppendToLog, RecordTypes DEF ReplayCommittedLate, Pending, Entries
    <3>4. CASE ReplayIndeterminate(p)
      BY <3>4, AppendToLog, RecordTypes DEF ReplayIndeterminate, Pending, Entries
    <3>5. CASE Remove(p)
      BY <3>5 DEF Remove, GiveUpReplay
    <3>6. CASE Quarantine(p)
      BY <3>6 DEF Quarantine, GiveUpReplay, Marked, Pending, Entries
    <3>7. CASE FileStays(p)
      BY <3>7, ConstantsOK DEF FileStays, GiveUpReplay
    <3>8. CASE ReplayDone(p)
      BY <3>8 DEF ReplayDone
    <3> QED
      BY <2>4, <3>1, <3>2, <3>3, <3>4, <3>5, <3>6, <3>7, <3>8 DEF Replay
  <2>5. ASSUME NEW p \in Procs, AppendOwn(p) PROVE TypeOK'
    <3>1. p \notin Events => LogWithOwn(p) \in Seq(Records)
      BY DEF LogWithOwn, OwnRecord, Stage, Records
    <3>2. LogWithOwn(p) \in Seq(Records)
      BY <3>1 DEF LogWithOwn
    <3>3. Stage(p) = "outcome" => result[p] \in Verdicts
      BY DEF Stage
    <3> QED
      BY <2>5, <3>2, <3>3 DEF AppendOwn, AppendCommitted, AppendNotCommitted, AppendUncertain
  <2>6. ASSUME NEW p \in Operations, WriteSpool(p) PROVE TypeOK'
    <3>1. CASE SpoolFails(p)
      BY <3>1 DEF SpoolFails
    <3>2. CASE Spool(p)
      BY <3>2 DEF Spool, Entries
    <3>3. CASE Rename(p)
      BY <3>3 DEF Rename, Marked, Entries
    <3>4. CASE RenameFails(p)
      BY <3>4, ConstantsOK DEF RenameFails
    <3> QED
      BY <2>6, <3>1, <3>2, <3>3, <3>4 DEF WriteSpool
  <2>7. ASSUME NEW p \in Operations, Operate(p) PROVE TypeOK'
    BY <2>7 DEF Operate
  <2>8. ASSUME NEW p \in Procs, Unlock(p) \/ UnlockFails(p) PROVE TypeOK'
    BY <2>8 DEF Unlock, UnlockFails, Leave, AfterUnlock
  <2>9. ASSUME NEW p \in Procs, Crash(p) PROVE TypeOK'
    BY <2>9, ConstantsOK DEF Crash
  <2> QED
    BY <2>1, <2>2, <2>3, <2>4, <2>5, <2>6, <2>7, <2>8, <2>9 DEF Next, Step
<1> QED
  BY <1>1, <1>2, PTL DEF Spec

-----------------------------------------------------------------------------
(* What single steps do, stated once for the proofs below.                  *)

(* The audit log only grows: no step takes a record out of it.              *)
LEMMA LogOnlyGrows ==
  ASSUME TypeOK, [Next]_vars
  PROVE  \A x : InLog(x) => InLog(x)'
<1>1. ASSUME log' = log PROVE \A x : InLog(x) => InLog(x)'
  BY <1>1 DEF InLog
<1>2. ASSUME NEW r \in Records, log' = Append(log, r)
      PROVE  \A x : InLog(x) => InLog(x)'
  BY <1>2, AppendToLog DEF TypeOK
<1>3. log' = log \/ \E r \in Records : log' = Append(log, r)
  <2>1. ASSUME NEW p \in Procs, ReplayCommitted(p) \/ ReplayCommittedLate(p) \/ ReplayIndeterminate(p)
        PROVE  log' = log \/ \E r \in Records : log' = Append(log, r)
    BY <2>1, RecordTypes
    DEF ReplayCommitted, ReplayCommittedLate, ReplayIndeterminate, Pending, TypeOK, Entries
  <2>2. ASSUME NEW p \in Procs, AppendOwn(p)
        PROVE  log' = log \/ \E r \in Records : log' = Append(log, r)
    <3>1. p \notin Events => OwnRecord(p) \in Records
      BY DEF OwnRecord, Stage, Records, Procs
    <3> QED
      BY <2>2, <3>1
      DEF AppendOwn, AppendCommitted, AppendNotCommitted, AppendUncertain, LogWithOwn
  <2> QED
    BY <2>1, <2>2
    DEF Next, vars, Step, Replay, Acquire, AcquireFails, ReplayFails, Remove, Quarantine,
        FileStays, ReplayDone, WriteSpool, SpoolFails, Spool, Rename, RenameFails,
        Operate, Unlock, UnlockFails, Leave, Crash
<1> QED
  BY <1>1, <1>2, <1>3

(* Sequence numbers are unique, so there is one first pending file.         *)
LEMMA OneFirst ==
  ASSUME TypeOK, SpoolInv, NEW e \in Pending, NEW f \in Pending, IsFirst(e), IsFirst(f)
  PROVE  e = f
<1>1. e \in Entries /\ f \in Entries /\ e \in spool /\ f \in spool
  BY DEF TypeOK, Pending
<1>2. e.seq <= f.seq /\ f.seq <= e.seq
  BY DEF IsFirst
<1>3. e.seq = f.seq
  BY <1>1, <1>2, ConstantsOK DEF Entries
<1> QED
  BY <1>1, <1>3 DEF SpoolInv, SpoolNames

(* Exactly the process inside the journal holds the spool lock.             *)
LEMMA LockStep ==
  ASSUME TypeOK, LockInv, [Next]_vars
  PROVE  LockInv'
<1> USE ConstantsOK DEF LockInv, TypeOK, Locked, Procs
<1>1. CASE UNCHANGED vars
  BY <1>1 DEF vars
<1>2. ASSUME NEW p \in Procs, Acquire(p) PROVE LockInv'
  BY <1>2 DEF Acquire
<1>3. ASSUME NEW p \in Procs, AcquireFails(p) PROVE LockInv'
  BY <1>3 DEF AcquireFails
<1>4. ASSUME NEW p \in Procs, Replay(p) PROVE LockInv'
  BY <1>4
  DEF Replay, ReplayFails, GiveUpReplay, ReplayCommitted, ReplayCommittedLate,
      ReplayIndeterminate, Remove, Quarantine, FileStays, ReplayDone
<1>5. ASSUME NEW p \in Procs, AppendOwn(p) PROVE LockInv'
  BY <1>5 DEF AppendOwn, AppendCommitted, AppendNotCommitted, AppendUncertain
<1>6. ASSUME NEW p \in Operations, WriteSpool(p) PROVE LockInv'
  BY <1>6 DEF WriteSpool, SpoolFails, Spool, Rename, RenameFails
<1>7. ASSUME NEW p \in Operations, Operate(p) PROVE LockInv'
  BY <1>7 DEF Operate
<1>8. ASSUME NEW p \in Procs, Unlock(p) \/ UnlockFails(p) PROVE LockInv'
  BY <1>8 DEF Unlock, UnlockFails, Leave, AfterUnlock
<1>9. ASSUME NEW p \in Procs, Crash(p) PROVE LockInv'
  BY <1>9 DEF Crash
<1> QED
  BY <1>1, <1>2, <1>3, <1>4, <1>5, <1>6, <1>7, <1>8, <1>9 DEF Next, Step

(* What a process's position and verdict say of its own records.            *)
LEMMA StageStep ==
  ASSUME TypeOK, StageInv, [Next]_vars
  PROVE  StageInv'
<1> SUFFICES ASSUME NEW q \in Operations PROVE StageAt(q)'
  BY DEF StageInv
<1> USE ConstantsOK DEF StageAt, TypeOK, Procs
<1>q. StageAt(q)
  BY DEF StageInv
<1>0. (InLog(Intent(q)) => InLog(Intent(q))') /\ (Logged(q) => Logged(q)')
  <2>1. (InLog(Intent(q)) => InLog(Intent(q))')
    BY LogOnlyGrows DEF Intent
  <2>2. Logged(q) => Logged(q)'
    BY LogOnlyGrows DEF Logged, Outcome
  <2> QED
    BY <2>1, <2>2
<1>1. CASE UNCHANGED vars
  BY <1>q, <1>0, <1>1 DEF vars
<1>2. ASSUME NEW p \in Procs, Acquire(p) PROVE StageAt(q)'
  BY <1>q, <1>0, <1>2 DEF Acquire
<1>3. ASSUME NEW p \in Procs, AcquireFails(p) PROVE StageAt(q)'
  BY <1>q, <1>0, <1>3 DEF AcquireFails
<1>4. ASSUME NEW p \in Procs, Replay(p) PROVE StageAt(q)'
  <2>1. CASE ReplayFails(p)
    BY <1>q, <1>0, <2>1 DEF ReplayFails, GiveUpReplay, Stage
  <2>2. CASE ReplayCommitted(p) \/ ReplayCommittedLate(p) \/ ReplayIndeterminate(p) \/ ReplayDone(p)
    BY <1>q, <1>0, <2>2
    DEF ReplayCommitted, ReplayCommittedLate, ReplayIndeterminate, ReplayDone
  <2>3. CASE Remove(p) \/ Quarantine(p) \/ FileStays(p)
    BY <1>q, <1>0, <2>3 DEF Remove, Quarantine, FileStays, GiveUpReplay, Stage
  <2> QED
    BY <1>4, <2>1, <2>2, <2>3 DEF Replay
<1>5. ASSUME NEW p \in Procs, AppendOwn(p) PROVE StageAt(q)'
  <2>1. CASE AppendCommitted(p)
    <3>1. CASE p # q
      BY <1>q, <1>0, <2>1, <3>1 DEF AppendCommitted
    <3>2. CASE p = q
      <4>1. CASE result[q] = "none"
        <5>1. log' = Append(log, Intent(q))
          BY <2>1, <3>2, <4>1
          DEF AppendCommitted, LogWithOwn, OwnRecord, Stage, Intent
        <5>2. Intent(q) \in Records
          BY RecordTypes
        <5>3. \E r \in Records : r = Intent(q) /\ log' = Append(log, r)
          BY <5>1, <5>2
        <5>4. PICK r \in Records : r = Intent(q) /\ log' = Append(log, r)
          BY <5>3
        <5>5. InLog(r)'
          BY <5>4, AppendToLog
        <5>6. InLog(Intent(q))'
          BY <5>4, <5>5 DEF Intent
        <5> QED
          BY <1>q, <1>0, <2>1, <3>2, <4>1, <5>6 DEF AppendCommitted, Stage
      <4>2. CASE result[q] # "none"
        <5>1. log' = Append(log, Outcome(q))
          BY <2>1, <3>2, <4>2
          DEF AppendCommitted, LogWithOwn, OwnRecord, Stage, Outcome
        <5>2. Outcome(q) \in Records
          BY RecordTypes
        <5>3. \E r \in Records : r = Outcome(q) /\ log' = Append(log, r)
          BY <5>1, <5>2
        <5>4. PICK r \in Records : r = Outcome(q) /\ log' = Append(log, r)
          BY <5>3
        <5>5. InLog(r)'
          BY <5>4, AppendToLog
        <5>6. Logged(q)'
          BY <5>4, <5>5 DEF Outcome, Logged
        <5> QED
          BY <1>q, <1>0, <2>1, <3>2, <4>2, <5>6 DEF AppendCommitted, Stage
      <4> QED
        BY <4>1, <4>2
    <3> QED
      BY <3>1, <3>2
  <2>2. CASE AppendNotCommitted(p)
    BY <1>q, <1>0, <2>2 DEF AppendNotCommitted, Stage
  <2>3. CASE AppendUncertain(p)
    BY <1>q, <1>0, <2>3 DEF AppendUncertain, Stage
  <2> QED
    BY <1>5, <2>1, <2>2, <2>3 DEF AppendOwn
<1>6. ASSUME NEW p \in Operations, WriteSpool(p) PROVE StageAt(q)'
  BY <1>q, <1>0, <1>6 DEF WriteSpool, SpoolFails, Spool, Rename, RenameFails
<1>7. ASSUME NEW p \in Operations, Operate(p) PROVE StageAt(q)'
  BY <1>q, <1>0, <1>7 DEF Operate
<1>8. ASSUME NEW p \in Procs, Unlock(p) \/ UnlockFails(p) PROVE StageAt(q)'
  BY <1>q, <1>0, <1>8 DEF Unlock, UnlockFails, Leave, AfterUnlock
<1>9. ASSUME NEW p \in Procs, Crash(p) PROVE StageAt(q)'
  BY <1>q, <1>0, <1>9 DEF Crash
<1> QED
  BY <1>1, <1>2, <1>3, <1>4, <1>5, <1>6, <1>7, <1>8, <1>9 DEF Next, Step

(* How a step can change the spool: not at all, by dropping a file, by      *)
(* renaming one, or by adding the temporary file of one operation.          *)
LEMMA SpoolChanges ==
  ASSUME TypeOK, [Next]_vars
  PROVE  \/ spool' = spool
         \/ \E e \in spool : spool' = spool \ {e}
         \/ \E e \in spool, m \in {"pending", "quarantined"} :
               spool' = (spool \ {e}) \cup {Marked(e, m)}
         \/ \E p \in Operations : Spool(p)
BY DEF Next, vars, Step, Replay, Acquire, AcquireFails, ReplayFails, ReplayCommitted,
       ReplayCommittedLate, ReplayIndeterminate, Remove, Quarantine, FileStays, ReplayDone,
       AppendOwn, AppendCommitted, AppendNotCommitted, AppendUncertain, WriteSpool,
       SpoolFails, Rename, RenameFails, IsTemp, Pending, Operate, Unlock, UnlockFails,
       Leave, Crash

(* Names in the spool stay unique.                                         *)
LEMMA NamesStep ==
  ASSUME TypeOK, LockInv, StageInv, SpoolInv, [Next]_vars
  PROVE  SpoolNames'
<1> USE DEF SpoolNames
<1>0. SpoolNames
  BY DEF SpoolInv
<1>1. ASSUME spool' = spool PROVE SpoolNames'
  BY <1>0, <1>1
<1>2. ASSUME NEW e \in spool, spool' = spool \ {e} PROVE SpoolNames'
  BY <1>0, <1>2
<1>3. ASSUME NEW e \in spool, NEW m, spool' = (spool \ {e}) \cup {Marked(e, m)} PROVE SpoolNames'
  BY <1>0, <1>3 DEF Marked
<1>4. ASSUME NEW p \in Operations, Spool(p) PROVE SpoolNames'
  <2>1. PICK n \in 1..MaxSeq :
          IsNextSeq(n) /\ spool' = spool \cup {[seq |-> n, op |-> p, mark |-> "temp"]}
    BY <1>4 DEF Spool
  <2>2. \A e \in spool : e.seq # n
    BY <2>1, ConstantsOK DEF IsNextSeq, TypeOK, Entries
  <2>3. \A e \in spool : e.op # p
    BY <1>4 DEF Spool, SpoolInv, OwnerAt
  <2> QED
    BY <1>0, <2>1, <2>2, <2>3
<1> QED
  BY <1>1, <1>2, <1>3, <1>4, SpoolChanges

(* While a process stays at one place under the lock, no other process      *)
(* changes the lock, the log or the spool.                                  *)
LEMMA AloneInside ==
  ASSUME TypeOK, LockInv, [Next]_vars,
         NEW p \in Procs, pc[p] \in Locked, pc'[p] = pc[p]
  PROVE  log' = log /\ spool' = spool /\ verdict'[p] = verdict[p]
<1> USE ConstantsOK DEF LockInv, TypeOK, Procs, Locked
<1>0. lock = p /\ \A q \in Procs : q # p => pc[q] \notin Locked
  OBVIOUS
<1>1. ASSUME NEW q \in Procs, Acquire(q) PROVE FALSE
  BY <1>0, <1>1 DEF Acquire
<1>2. ASSUME NEW q \in Procs, Replay(q) PROVE FALSE
  BY <1>0, <1>2
  DEF Replay, ReplayFails, GiveUpReplay, ReplayCommitted, ReplayCommittedLate,
      ReplayIndeterminate, Remove, Quarantine, FileStays, ReplayDone
<1>3. ASSUME NEW q \in Procs, AppendOwn(q) PROVE FALSE
  BY <1>0, <1>3 DEF AppendOwn, AppendCommitted, AppendNotCommitted, AppendUncertain
<1>4. ASSUME NEW q \in Operations, WriteSpool(q) PROVE FALSE
  BY <1>0, <1>4 DEF WriteSpool, SpoolFails, Spool, Rename, RenameFails
<1>5. ASSUME NEW q \in Procs, Unlock(q) \/ UnlockFails(q) PROVE FALSE
  BY <1>0, <1>5 DEF Unlock, UnlockFails, Leave, AfterUnlock
<1>6. ASSUME NEW q \in Procs, AcquireFails(q) \/ Crash(q)
      PROVE  log' = log /\ spool' = spool /\ verdict'[p] = verdict[p]
  BY <1>0, <1>6 DEF AcquireFails, Crash
<1>7. ASSUME NEW q \in Operations, Operate(q)
      PROVE  log' = log /\ spool' = spool /\ verdict'[p] = verdict[p]
  BY <1>0, <1>7 DEF Operate
<1>8. CASE UNCHANGED vars
  BY <1>8 DEF vars
<1> QED
  BY <1>1, <1>2, <1>3, <1>4, <1>5, <1>6, <1>7, <1>8 DEF Next, Step

(* A process that owns a file keeps being one that may.                     *)
LEMMA OwnerStep ==
  ASSUME TypeOK, LockInv, StageInv, [Next]_vars, NEW q \in Operations, OwnerAt(q)
  PROVE  OwnerAt(q)'
<1> USE ConstantsOK DEF OwnerAt, TypeOK, Procs
<1>0. StageAt(q)
  BY DEF StageInv
<1>1. CASE UNCHANGED vars
  BY <1>1 DEF vars
<1>2. ASSUME NEW p \in Procs, Acquire(p) \/ AcquireFails(p) \/ Crash(p) PROVE OwnerAt(q)'
  BY <1>2 DEF Acquire, AcquireFails, Crash
<1>3. ASSUME NEW p \in Procs, Replay(p) PROVE OwnerAt(q)'
  BY <1>3
  DEF Replay, ReplayFails, GiveUpReplay, ReplayCommitted, ReplayCommittedLate,
      ReplayIndeterminate, Remove, Quarantine, FileStays, ReplayDone
<1>4. ASSUME NEW p \in Procs, AppendOwn(p) PROVE OwnerAt(q)'
  BY <1>4 DEF AppendOwn, AppendCommitted, AppendNotCommitted, AppendUncertain
<1>5. ASSUME NEW p \in Operations, WriteSpool(p) PROVE OwnerAt(q)'
  BY <1>5 DEF WriteSpool, SpoolFails, Spool, Rename, RenameFails
<1>6. ASSUME NEW p \in Operations, Operate(p) PROVE OwnerAt(q)'
  BY <1>6 DEF Operate
<1>7. ASSUME NEW p \in Procs, Unlock(p) \/ UnlockFails(p) PROVE OwnerAt(q)'
  BY <1>0, <1>7 DEF Unlock, UnlockFails, Leave, AfterUnlock, StageAt
<1> QED
  BY <1>1, <1>2, <1>3, <1>4, <1>5, <1>6, <1>7 DEF Next, Step

(* The spool invariant: unique names, an owner for every file, an empty     *)
(* spool whenever a process appends its own record, and a temporary file    *)
(* for a process about to rename it.                                        *)
LEMMA SpoolStep ==
  ASSUME TypeOK, LockInv, StageInv, SpoolInv, [Next]_vars
  PROVE  SpoolInv'
<1>1. SpoolNames'
  BY NamesStep
<1>2. ASSUME NEW e \in spool' PROVE OwnerAt(e.op)'
  <2>1. ASSUME NEW f \in spool, f.op = e.op PROVE OwnerAt(e.op)'
    <3>1. f.op \in Operations /\ OwnerAt(f.op)
      BY DEF TypeOK, Entries, SpoolInv
    <3> QED
      BY <2>1, <3>1, OwnerStep
  <2>2. ASSUME NEW p \in Operations, Spool(p), e.op = p PROVE OwnerAt(e.op)'
    BY <2>2 DEF Spool, OwnerAt, StageInv, StageAt, TypeOK, Procs
  <2>3. CASE spool' = spool
    BY <2>1, <2>3
  <2>4. ASSUME NEW f \in spool, spool' = spool \ {f} PROVE OwnerAt(e.op)'
    BY <2>1, <2>4
  <2>5. ASSUME NEW f \in spool, NEW m, spool' = (spool \ {f}) \cup {Marked(f, m)}
        PROVE  OwnerAt(e.op)'
    BY <2>1, <2>5 DEF Marked
  <2>6. ASSUME NEW p \in Operations, Spool(p) PROVE OwnerAt(e.op)'
    <3>1. e \in spool \/ e.op = p
      BY <2>6 DEF Spool
    <3> QED
      BY <2>1, <2>2, <2>6, <3>1
  <2> QED
    BY <2>3, <2>4, <2>5, <2>6, SpoolChanges
<1>3. ASSUME NEW p \in Procs PROVE DrainedAt(p)'
  <2>1. SUFFICES ASSUME pc'[p] = "append" PROVE spool' = {}
    BY DEF DrainedAt
  <2>2. CASE pc[p] = "append"
    BY <2>1, <2>2, AloneInside DEF Locked, SpoolInv, DrainedAt
  <2>3. CASE pc[p] # "append"
    <3>1. ReplayDone(p)
      BY <2>1, <2>3, ConstantsOK
      DEF TypeOK, Procs, Next, vars, Step, Replay, Acquire, AcquireFails, ReplayFails,
          GiveUpReplay, ReplayCommitted, ReplayCommittedLate, ReplayIndeterminate, Remove,
          Quarantine, FileStays, ReplayDone, AppendOwn, AppendCommitted, AppendNotCommitted,
          AppendUncertain, WriteSpool, SpoolFails, Spool, Rename, RenameFails, Operate,
          Unlock, UnlockFails, Leave, AfterUnlock, Crash
    <3> QED
      BY <3>1 DEF ReplayDone
  <2> QED
    BY <2>2, <2>3
<1>4. ASSUME NEW p \in Operations PROVE TempAt(p)'
  <2>1. SUFFICES ASSUME pc'[p] = "rename" PROVE \E e \in spool' : IsTemp(e, p)'
    BY DEF TempAt
  <2>2. CASE pc[p] = "rename"
    BY <2>1, <2>2, AloneInside DEF Locked, SpoolInv, TempAt, IsTemp, Procs
  <2>3. CASE pc[p] # "rename"
    <3>1. Spool(p)
      BY <2>1, <2>3, ConstantsOK
      DEF TypeOK, Procs, Next, vars, Step, Replay, Acquire, AcquireFails, ReplayFails,
          GiveUpReplay, ReplayCommitted, ReplayCommittedLate, ReplayIndeterminate, Remove,
          Quarantine, FileStays, ReplayDone, AppendOwn, AppendCommitted, AppendNotCommitted,
          AppendUncertain, WriteSpool, SpoolFails, Spool, Rename, RenameFails, Operate,
          Unlock, UnlockFails, Leave, AfterUnlock, Crash
    <3>2. PICK n \in 1..MaxSeq :
            spool' = spool \cup {[seq |-> n, op |-> p, mark |-> "temp"]}
      BY <3>1 DEF Spool
    <3> DEFINE e == [seq |-> n, op |-> p, mark |-> "temp"]
    <3>3. e \in spool' /\ e.mark = "temp" /\ e.op = p
      BY <3>2
    <3> QED
      BY <3>3 DEF IsTemp
  <2> QED
    BY <2>2, <2>3
<1> QED
  BY <1>1, <1>2, <1>3, <1>4 DEF SpoolInv

(* What a step may do to files and outcomes already there: a named file is  *)
(* dropped only by Remove.                                                  *)
LEMMA QueuedStays ==
  ASSUME TypeOK, LockInv, StageInv, SpoolInv, PromiseInv, [Next]_vars,
         NEW q \in Operations, Logged(q) \/ Queued(q)
  PROVE  (Logged(q) \/ Queued(q))'
<1>1. Logged(q) => Logged(q)'
  BY LogOnlyGrows DEF Logged, Outcome
<1>2. SUFFICES ASSUME Queued(q) PROVE (Logged(q) \/ Queued(q))'
  BY <1>1
<1>3. PICK f \in spool : f.op = q /\ f.mark # "temp"
  BY <1>2 DEF Queued
<1>4. CASE spool' = spool
  BY <1>3, <1>4 DEF Queued
<1>5. ASSUME NEW p \in Operations, Spool(p) PROVE Queued(q)'
  BY <1>3, <1>5 DEF Spool, Queued
<1>6. ASSUME NEW e \in spool, NEW m \in {"pending", "quarantined"},
             spool' = (spool \ {e}) \cup {Marked(e, m)}
      PROVE  Queued(q)'
  <2>1. CASE e # f
    BY <1>3, <1>6, <2>1 DEF Queued
  <2>2. CASE e = f
    <3>1. Marked(e, m) \in spool' /\ Marked(e, m).op = q /\ Marked(e, m).mark # "temp"
      BY <1>3, <1>6, <2>2 DEF Marked
    <3> QED
      BY <3>1 DEF Queued
  <2> QED
    BY <2>1, <2>2
<1>7. ASSUME NEW p \in Procs, Remove(p) PROVE (Logged(q) \/ Queued(q))'
  <2>1. PICK e \in Pending : IsFirst(e) /\ spool' = spool \ {e}
    BY <1>7 DEF Remove
  <2>2. PICK g \in Pending : IsFirst(g) /\ Logged(g.op)
    BY <1>7 DEF Remove, PromiseInv, ReplayedAt
  <2>3. e = g
    BY <2>1, <2>2, OneFirst
  <2>4. CASE e = f
    BY <1>1, <1>3, <2>2, <2>3, <2>4
  <2>5. CASE e # f
    BY <1>3, <2>1, <2>5 DEF Queued
  <2> QED
    BY <2>4, <2>5
<1>8. ASSUME NEW p \in Operations, RenameFails(p) PROVE (Logged(q) \/ Queued(q))'
  BY <1>3, <1>8 DEF RenameFails, IsTemp, Queued
<1>9. \/ spool' = spool
      \/ \E p \in Procs : Remove(p)
      \/ \E p \in Operations : Spool(p) \/ RenameFails(p)
      \/ \E e \in spool, m \in {"pending", "quarantined"} :
            spool' = (spool \ {e}) \cup {Marked(e, m)}
  BY DEF Next, vars, Step, Replay, Acquire, AcquireFails, ReplayFails, ReplayCommitted,
         ReplayCommittedLate, ReplayIndeterminate, Quarantine, FileStays, ReplayDone,
         AppendOwn, AppendCommitted, AppendNotCommitted, AppendUncertain, WriteSpool,
         SpoolFails, Rename, IsTemp, Pending, Operate, Unlock, UnlockFails, Leave, Crash
<1> QED
  BY <1>4, <1>5, <1>6, <1>7, <1>8, <1>9

(* A durable promise is given with the outcome logged or queued, and a      *)
(* process removes the first file only after its outcome was logged.        *)
LEMMA PromiseStep ==
  ASSUME TypeOK, LockInv, StageInv, SpoolInv, PromiseInv, [Next]_vars
  PROVE  PromiseInv'
<1>1. ASSUME NEW q \in Operations PROVE KeptAt(q)'
  <2> SUFFICES ASSUME pc'[q] \in {"unlock", "done"}, verdict'[q] \in {"spooled", "behind"}
               PROVE  (Logged(q) \/ Queued(q))'
    BY DEF KeptAt
  <2>1. CASE pc[q] \in {"unlock", "done"} /\ verdict[q] \in {"spooled", "behind"}
    <3>1. Logged(q) \/ Queued(q)
      BY <2>1 DEF PromiseInv, KeptAt
    <3> QED
      BY <3>1, QueuedStays
  <2>2. CASE Rename(q)
    <3>1. PICK e \in spool :
            IsTemp(e, q) /\ spool' = (spool \ {e}) \cup {Marked(e, "pending")}
      BY <2>2 DEF Rename
    <3>2. Marked(e, "pending") \in spool' /\ Marked(e, "pending").op = q
            /\ Marked(e, "pending").mark # "temp"
      BY <3>1 DEF Marked, IsTemp
    <3> QED
      BY <3>2 DEF Queued
  <2>3. CASE ~(pc[q] \in {"unlock", "done"} /\ verdict[q] \in {"spooled", "behind"})
               /\ ~Rename(q)
    <3>0. StageAt(q)
      BY DEF StageInv
    <3> USE ConstantsOK DEF TypeOK, Procs, Stage
    <3>1. ASSUME NEW p \in Procs, Acquire(p) \/ AcquireFails(p) \/ Crash(p) PROVE FALSE
      BY <2>3, <3>0, <3>1 DEF Acquire, AcquireFails, Crash, StageAt
    <3>2. ASSUME NEW p \in Procs, Replay(p) PROVE FALSE
      BY <2>3, <3>2
      DEF Replay, ReplayFails, GiveUpReplay, ReplayCommitted, ReplayCommittedLate,
          ReplayIndeterminate, Remove, Quarantine, FileStays, ReplayDone
    <3>3. ASSUME NEW p \in Procs, AppendOwn(p) PROVE FALSE
      BY <2>3, <3>3 DEF AppendOwn, AppendCommitted, AppendNotCommitted, AppendUncertain
    <3>4. ASSUME NEW p \in Operations, WriteSpool(p) PROVE FALSE
      BY <2>3, <3>4 DEF WriteSpool, SpoolFails, Spool, Rename, RenameFails
    <3>5. ASSUME NEW p \in Operations, Operate(p) PROVE FALSE
      BY <2>3, <3>5 DEF Operate
    <3>6. ASSUME NEW p \in Procs, Unlock(p) \/ UnlockFails(p) PROVE FALSE
      BY <2>3, <3>6 DEF Unlock, UnlockFails, Leave, AfterUnlock
    <3>7. CASE UNCHANGED vars
      BY <2>3, <3>7 DEF vars
    <3> QED
      BY <3>1, <3>2, <3>3, <3>4, <3>5, <3>6, <3>7 DEF Next, Step
  <2> QED
    BY <2>1, <2>2, <2>3
<1>2. ASSUME NEW p \in Procs PROVE ReplayedAt(p)'
  <2> SUFFICES ASSUME pc'[p] \in {"remove", "removeLate"}
               PROVE  \E e \in Pending' : IsFirst(e)' /\ Logged(e.op)'
    BY DEF ReplayedAt
  <2>1. CASE pc'[p] = pc[p]
    <3>1. log' = log /\ spool' = spool
      BY <2>1, AloneInside DEF Locked
    <3>2. PICK e \in Pending : IsFirst(e) /\ Logged(e.op)
      BY <2>1 DEF PromiseInv, ReplayedAt
    <3> QED
      BY <3>1, <3>2 DEF Pending, IsFirst, Logged, InLog, Outcome
  <2>2. CASE pc'[p] # pc[p]
    <3>1. ReplayCommitted(p) \/ ReplayCommittedLate(p)
      BY <2>2, ConstantsOK
      DEF TypeOK, Procs, Next, vars, Step, Replay, Acquire, AcquireFails, ReplayFails,
          GiveUpReplay, ReplayIndeterminate, Remove, ReplayCommitted, ReplayCommittedLate,
          Quarantine, FileStays, ReplayDone, AppendOwn, AppendCommitted, AppendNotCommitted,
          AppendUncertain, WriteSpool, SpoolFails, Spool, Rename, RenameFails, Operate,
          Unlock, UnlockFails, Leave, AfterUnlock, Crash
    <3>2. PICK e \in Pending :
            IsFirst(e) /\ log' = Append(log, Outcome(e.op)) /\ spool' = spool
      BY <3>1 DEF ReplayCommitted, ReplayCommittedLate, CanReplay
    <3>3. Outcome(e.op) \in Records
      BY RecordTypes DEF TypeOK, Entries, Pending
    <3>4. PICK r \in Records : r = Outcome(e.op) /\ log' = Append(log, r)
      BY <3>2, <3>3
    <3>5. InLog(r)'
      BY <3>4, AppendToLog DEF TypeOK
    <3>6. Logged(e.op)'
      BY <3>4, <3>5 DEF Logged, Outcome
    <3> QED
      BY <3>2, <3>6 DEF Pending, IsFirst
  <2> QED
    BY <2>1, <2>2
<1> QED
  BY <1>1, <1>2 DEF PromiseInv

-----------------------------------------------------------------------------
(* The inductive invariant holds in every reachable state.                  *)
THEOREM Inductive == Spec => []IInv
<1>1. Init => IInv
  <2> SUFFICES ASSUME Init PROVE IInv
    OBVIOUS
  <2> USE ConstantsOK DEF Init, Procs
  <2>1. TypeOK
    BY DEF TypeOK, PCs, Verdicts
  <2>2. LockInv
    BY DEF LockInv, Locked
  <2>3. StageInv
    BY DEF StageInv, StageAt
  <2>4. SpoolInv
    BY DEF SpoolInv, SpoolNames, DrainedAt, TempAt
  <2>5. PromiseInv
    BY DEF PromiseInv, KeptAt, ReplayedAt
  <2> QED
    BY <2>1, <2>2, <2>3, <2>4, <2>5 DEF IInv
<1>2. TypeOK' /\ IInv /\ [Next]_vars => IInv'
  BY LockStep, StageStep, SpoolStep, PromiseStep DEF IInv
<1> QED
  BY <1>1, <1>2, TypeCorrect, PTL DEF Spec

(* Nothing is touched before its intent is in the audit log.                *)
THEOREM IntentFirst == Spec => []IntentBeforeEffect
<1>1. IInv => IntentBeforeEffect
  BY DEF IInv, StageInv, StageAt, TypeOK, IntentBeforeEffect
<1> QED
  BY <1>1, Inductive, PTL

(* No result and no error of an operation is returned before its outcome is *)
(* in the audit log.                                                        *)
THEOREM ResultsAreLogged == Spec => []ReturnedMeansLogged
<1>1. IInv => ReturnedMeansLogged
  BY DEF IInv, StageInv, StageAt, ReturnedMeansLogged
<1> QED
  BY <1>1, Inductive, PTL

(* A durable promise stays true: the outcome is in the log or in a file.    *)
THEOREM PromisesAreKept == Spec => []PromiseKept
<1>1. IInv => PromiseKept
  BY DEF IInv, PromiseInv, KeptAt, PromiseKept
<1> QED
  BY <1>1, Inductive, PTL

(* A mutation whose outcome is nowhere says so.                             *)
THEOREM LossIsReported == Spec => []LostIsReported
<1>1. IInv => LostIsReported
  <2> SUFFICES ASSUME IInv, NEW p \in touched,
                      pc[p] = "done", ~Logged(p), ~Queued(p)
               PROVE  verdict[p] \in {"lost", "uncertain"}
    BY DEF LostIsReported
  <2>1. p \in Operations /\ p \in Procs /\ verdict[p] \in Verdicts
    BY DEF IInv, TypeOK, Procs
  <2>2. StageAt(p) /\ KeptAt(p)
    BY <2>1 DEF IInv, StageInv, PromiseInv
  <2> QED
    BY <2>1, <2>2 DEF StageAt, KeptAt, Verdicts
<1> QED
  BY <1>1, Inductive, PTL

(* An unclear append is never queued for replay.                            *)
THEOREM UncertainIsNotReplayed == Spec => []UncertainNotQueued
<1>1. IInv => UncertainNotQueued
  <2> SUFFICES ASSUME IInv, NEW p \in Operations, verdict[p] = "uncertain",
                      NEW e \in spool, e.op = p
               PROVE  FALSE
    BY DEF UncertainNotQueued
  <2>1. OwnerAt(p) /\ StageAt(p)
    BY DEF IInv, SpoolInv, StageInv
  <2> QED
    BY <2>1 DEF OwnerAt, StageAt
<1> QED
  BY <1>1, Inductive, PTL

(* Spool names never collide, and an operation has at most one file.        *)
THEOREM NamesAreUnique == Spec => []SpoolNamesUnique
<1>1. IInv => SpoolNamesUnique
  BY DEF IInv, SpoolInv, SpoolNames, SpoolNamesUnique
<1> QED
  BY <1>1, Inductive, PTL

-----------------------------------------------------------------------------
(* How a step can change the log: not at all, by an intent, or by an        *)
(* outcome whose intent is there already.                                   *)
LEMMA LogChanges ==
  ASSUME IInv, [Next]_vars
  PROVE  \/ log' = log
         \/ \E q \in Operations : log' = Append(log, Intent(q))
         \/ \E q \in Operations : log' = Append(log, Outcome(q)) /\ InLog(Intent(q))
<1> DEFINE Kinds == \/ log' = log
                    \/ \E q \in Operations : log' = Append(log, Intent(q))
                    \/ \E q \in Operations :
                         log' = Append(log, Outcome(q)) /\ InLog(Intent(q))
<1>0. \A q \in Operations : result[q] # "none" => InLog(Intent(q))
  BY DEF IInv, StageInv, StageAt
<1>1. ASSUME NEW p \in Procs,
             ReplayCommitted(p) \/ ReplayCommittedLate(p) \/ ReplayIndeterminate(p)
      PROVE  Kinds
  <2>1. \A e \in spool : e.op \in Operations /\ result[e.op] # "none"
    BY DEF IInv, TypeOK, Entries, SpoolInv, OwnerAt
  <2> QED
    BY <1>0, <1>1, <2>1
    DEF ReplayCommitted, ReplayCommittedLate, ReplayIndeterminate, Pending
<1>2. ASSUME NEW p \in Procs, AppendOwn(p) PROVE Kinds
  <2>1. log' = log \/ log' = LogWithOwn(p)
    BY <1>2 DEF AppendOwn, AppendCommitted, AppendNotCommitted, AppendUncertain
  <2>2. CASE p \in Events
    BY <2>1, <2>2 DEF LogWithOwn
  <2>3. CASE p \notin Events /\ result[p] = "none"
    BY <2>1, <2>3 DEF LogWithOwn, OwnRecord, Stage, Intent, Procs
  <2>4. CASE p \notin Events /\ result[p] # "none"
    BY <1>0, <2>1, <2>4 DEF LogWithOwn, OwnRecord, Stage, Outcome, Procs
  <2> QED
    BY <2>2, <2>3, <2>4
<1> QED
  BY <1>1, <1>2
  DEF Next, vars, Step, Replay, Acquire, AcquireFails, ReplayFails, Remove, Quarantine,
      FileStays, ReplayDone, WriteSpool, SpoolFails, Spool, Rename, RenameFails, Operate,
      Unlock, UnlockFails, Leave, Crash

(* No outcome is an orphan, however late a replay brings it.                *)
THEOREM NoOrphans == Spec => []OutcomeAfterIntent
<1> DEFINE Ordered ==
      \A i \in 1..Len(log) :
        log[i].phase = "outcome" => \E j \in 1..(i - 1) : log[j] = Intent(log[i].op)
<1>1. Init => Ordered
  BY DEF Init
<1>2. IInv /\ Ordered /\ [Next]_vars => Ordered'
  <2> SUFFICES ASSUME IInv, Ordered, [Next]_vars, NEW i \in 1..Len(log'),
                      log'[i].phase = "outcome"
               PROVE  \E j \in 1..(i - 1) : log'[j] = Intent(log'[i].op)
    BY DEF Intent
  <2>0. log \in Seq(Records) /\ Len(log) \in Nat
    BY DEF IInv, TypeOK
  <2>1. CASE log' = log
    BY <2>1
  <2>2. ASSUME NEW r \in Records, log' = Append(log, r),
               r.phase = "outcome" => InLog(Intent(r.op))
        PROVE  \E j \in 1..(i - 1) : log'[j] = Intent(log'[i].op)
    <3>1. /\ Len(log') = Len(log) + 1
          /\ \A k \in 1..Len(log) : log'[k] = log[k]
          /\ log'[Len(log) + 1] = r
      BY <2>0, <2>2
    <3>2. CASE i = Len(log) + 1
      <4>1. PICK j \in 1..Len(log) : log[j] = Intent(r.op)
        BY <2>2, <3>1, <3>2 DEF InLog
      <4> QED
        BY <2>0, <3>1, <3>2, <4>1
    <3>3. CASE i \in 1..Len(log)
      <4>1. PICK j \in 1..(i - 1) : log[j] = Intent(log[i].op)
        BY <3>1, <3>3
      <4> QED
        BY <2>0, <3>1, <3>3, <4>1
    <3> QED
      BY <2>0, <3>1, <3>2, <3>3
  <2>3. ASSUME NEW q \in Operations, log' = Append(log, Intent(q))
        PROVE  \E j \in 1..(i - 1) : log'[j] = Intent(log'[i].op)
    <3>1. Intent(q).phase = "intent" /\ Intent(q) \in Records
      BY RecordTypes DEF Intent
    <3> QED
      BY <2>2, <2>3, <3>1
  <2>4. ASSUME NEW q \in Operations, log' = Append(log, Outcome(q)), InLog(Intent(q))
        PROVE  \E j \in 1..(i - 1) : log'[j] = Intent(log'[i].op)
    <3>1. Outcome(q).op = q /\ Outcome(q) \in Records
      BY RecordTypes DEF Outcome
    <3> QED
      BY <2>2, <2>4, <3>1
  <2> QED
    BY <2>1, <2>3, <2>4, LogChanges
<1>3. IInv /\ Ordered => OutcomeAfterIntent
  BY DEF IInv, TypeOK, Entries, SpoolInv, OwnerAt, StageInv, StageAt, OutcomeAfterIntent
<1> QED
  BY <1>1, <1>2, <1>3, Inductive, PTL DEF Spec

(* When the log grows, it grows by the first pending file, a readable one,  *)
(* or there is no file at all; a quarantined file stops it.                 *)
LEMMA GrowthIsInOrder ==
  ASSUME IInv, [Next]_vars, log' # log, spool # {}
  PROVE  ~Blocked /\ \E f \in Pending : CanReplay(f) /\ log' = Append(log, Outcome(f.op))
<1>1. ASSUME NEW p \in Procs PROVE ~AppendOwn(p)
  BY DEF AppendOwn, AppendCommitted, AppendNotCommitted, AppendUncertain, IInv, SpoolInv,
         DrainedAt
<1> QED
  BY <1>1
  DEF Next, vars, Step, Replay, ReplayCommitted, ReplayCommittedLate, ReplayIndeterminate,
      CanReplay, Acquire, AcquireFails, ReplayFails, Remove, Quarantine, FileStays,
      ReplayDone, WriteSpool, SpoolFails, Spool, Rename, RenameFails, Operate, Unlock,
      UnlockFails, Leave, Crash

(* Outcomes reach the log in the order in which they were spooled, and no   *)
(* new record overtakes them.                                               *)
THEOREM ReplayInOrder == Spec => NoOvertaking
<1>1. ASSUME IInv, [Next]_vars, NEW e \in Pending, Len(log') > Len(log)
      PROVE  \E f \in Pending : f.seq <= e.seq /\ log' = Append(log, Outcome(f.op))
  <2>1. log \in Seq(Records) /\ Len(log) \in Nat /\ spool # {}
    BY <1>1 DEF IInv, TypeOK, Pending
  <2>2. log' # log
    BY <1>1, <2>1
  <2> QED
    BY <1>1, <2>1, <2>2, GrowthIsInOrder DEF CanReplay, IsFirst
<1>2. IInv /\ [Next]_vars =>
        [\A e \in Pending :
           Len(log') > Len(log) =>
             \E f \in Pending : f.seq <= e.seq /\ log' = Append(log, Outcome(f.op))]_vars
  BY <1>1
<1> QED
  BY <1>2, Inductive, PTL DEF Spec, NoOvertaking

(* A process comes to its rename only by writing its temporary file.        *)
LEMMA RenameNeedsSpool ==
  ASSUME TypeOK, [Next]_vars, NEW q \in Procs, pc[q] # "rename", pc'[q] = "rename"
  PROVE  q \in Operations /\ Spool(q)
BY ConstantsOK
DEF TypeOK, Procs, Next, vars, Step, Replay, Acquire, AcquireFails, ReplayFails, GiveUpReplay,
    ReplayCommitted, ReplayCommittedLate, ReplayIndeterminate, Remove, Quarantine, FileStays,
    ReplayDone, AppendOwn, AppendCommitted, AppendNotCommitted, AppendUncertain, WriteSpool,
    SpoolFails, Spool, Rename, RenameFails, Operate, Unlock, UnlockFails, Leave, AfterUnlock,
    Crash

(* A process comes to handle a file only by a replay that chose it.         *)
LEMMA HandlingNeedsReplay ==
  ASSUME TypeOK, [Next]_vars, NEW q \in Procs, pc[q] # pc'[q], Handling(q)'
  PROVE  ReplayCommitted(q) \/ ReplayCommittedLate(q) \/ ReplayIndeterminate(q)
BY ConstantsOK
DEF TypeOK, Procs, Handling, Next, vars, Step, Replay, Acquire, AcquireFails, ReplayFails,
    GiveUpReplay, ReplayCommitted, ReplayCommittedLate, ReplayIndeterminate, Remove, Quarantine,
    FileStays, ReplayDone, AppendOwn, AppendCommitted, AppendNotCommitted, AppendUncertain,
    WriteSpool, SpoolFails, Spool, Rename, RenameFails, Operate, Unlock, UnlockFails, Leave,
    AfterUnlock, Crash

(* What is being handled is readable, and what is about to be put in place  *)
(* comes after every other file.                                            *)
LEMMA QueueStep ==
  ASSUME IInv, QueueInv, [Next]_vars
  PROVE  QueueInv'
<1>0. TypeOK /\ LockInv /\ SpoolInv
  BY DEF IInv
<1>1. ASSUME NEW p \in Procs PROVE ReadableAt(p)'
  <2> SUFFICES ASSUME Handling(p)', NEW e \in spool', IsFirst(e)' PROVE e.op \notin Unreadable
    BY DEF ReadableAt
  <2>1. CASE pc'[p] = pc[p]
    <3>1. spool' = spool /\ Handling(p)
      BY <1>0, <2>1, AloneInside DEF Handling, Locked
    <3> QED
      BY <3>1 DEF QueueInv, ReadableAt, IsFirst, Pending
  <2>2. CASE pc'[p] # pc[p]
    <3>1. ReplayCommitted(p) \/ ReplayCommittedLate(p) \/ ReplayIndeterminate(p)
      BY <1>0, <2>2, HandlingNeedsReplay
    <3>2. PICK f \in Pending : CanReplay(f) /\ spool' = spool
      BY <3>1 DEF ReplayCommitted, ReplayCommittedLate, ReplayIndeterminate
    <3>3. IsFirst(e) /\ e \in Pending
      BY <3>2 DEF IsFirst, Pending
    <3> QED
      BY <1>0, <3>2, <3>3, OneFirst DEF CanReplay
  <2> QED
    BY <2>1, <2>2
<1>2. ASSUME NEW p \in Operations PROVE LastAt(p)'
  <2> SUFFICES ASSUME pc'[p] = "rename", NEW e \in spool', NEW f \in spool', IsTemp(e, p)'
               PROVE  f.seq <= e.seq
    BY DEF LastAt
  <2>1. CASE pc[p] = "rename"
    <3>1. spool' = spool
      BY <1>0, <2>1, AloneInside DEF Locked, Procs
    <3> QED
      BY <2>1, <3>1 DEF QueueInv, LastAt, IsTemp
  <2>2. CASE pc[p] # "rename"
    <3>1. Spool(p)
      BY <1>0, <2>2, RenameNeedsSpool DEF Procs
    <3>2. PICK n \in 1..MaxSeq :
            IsNextSeq(n) /\ spool' = spool \cup {[seq |-> n, op |-> p, mark |-> "temp"]}
      BY <3>1 DEF Spool
    <3>3. e.seq = n
      BY <3>1, <3>2 DEF Spool, IsTemp
    <3>4. f.seq <= n
      <4>1. CASE f \in spool
        BY <1>0, <3>2, <4>1, ConstantsOK DEF IsNextSeq, TypeOK, Entries
      <4>2. CASE f \notin spool
        BY <3>2, <4>2, ConstantsOK
      <4> QED
        BY <4>1, <4>2
    <3> QED
      BY <3>3, <3>4
  <2> QED
    BY <2>1, <2>2
<1> QED
  BY <1>1, <1>2 DEF QueueInv

(* A stuck file keeps its name and its place.                               *)
LEMMA StuckStays ==
  ASSUME IInv, QueueInv, [Next]_vars, NEW e \in spool, StuckFile(e)
  PROVE  e \in spool' /\ StuckFile(e)'
<1>0. TypeOK /\ LockInv /\ SpoolInv /\ e.op \in Operations /\ e.op \in Procs
  BY DEF IInv, TypeOK, Entries, Procs
<1>1. e.mark = "temp" => (pc'[e.op] = "rename" => pc[e.op] = "rename")
  BY <1>0, RenameNeedsSpool DEF Spool
<1>2. CASE spool' = spool
  BY <1>1, <1>2 DEF StuckFile, IsFirst, Pending
<1>3. ASSUME NEW p \in Operations, Spool(p) PROVE e \in spool' /\ StuckFile(e)'
  <2>1. e.mark # "temp" /\ e \in spool' /\ Pending' = Pending
    BY <1>3 DEF Spool, Pending
  <2> QED
    BY <2>1 DEF StuckFile, IsFirst
<1>4. ASSUME NEW p \in Procs, Remove(p) \/ Quarantine(p) PROVE e \in spool' /\ StuckFile(e)'
  <2>1. PICK g \in Pending :
          /\ IsFirst(g)
          /\ \/ spool' = spool \ {g}
             \/ spool' = (spool \ {g}) \cup {Marked(g, "quarantined")}
    BY <1>4 DEF Remove, Quarantine
  <2>2. Handling(p) /\ g.op \notin Unreadable
    BY <1>4, <2>1 DEF Remove, Quarantine, Handling, QueueInv, ReadableAt, Pending
  <2>3. e.mark # "pending"
    <3>1. ASSUME IsFirst(e), e.op \in Unreadable PROVE FALSE
      BY <1>0, <2>1, <2>2, <3>1, OneFirst DEF IsFirst
    <3> QED
      BY <3>1 DEF StuckFile
  <2>4. e \in spool'
    BY <2>1, <2>3 DEF Pending
  <2> QED
    BY <1>1, <2>3, <2>4 DEF StuckFile, IsFirst, Pending
<1>5. ASSUME NEW p \in Operations, Rename(p) \/ RenameFails(p)
      PROVE  e \in spool' /\ StuckFile(e)'
  <2>1. \/ spool' = spool
        \/ \E t \in spool : /\ IsTemp(t, p) /\ pc[p] = "rename"
                            /\ \/ spool' = spool \ {t}
                               \/ spool' = (spool \ {t}) \cup {Marked(t, "pending")}
    BY <1>5 DEF Rename, RenameFails, IsTemp
  <2>2. ASSUME NEW t \in spool, IsTemp(t, p), pc[p] = "rename",
               \/ spool' = spool \ {t}
               \/ spool' = (spool \ {t}) \cup {Marked(t, "pending")}
        PROVE  e \in spool' /\ StuckFile(e)'
    <3>1. e # t
      BY <2>2 DEF StuckFile, IsTemp, IsFirst, Pending
    <3>2. e \in spool'
      BY <2>2, <3>1
    <3>3. ASSUME IsFirst(e) PROVE IsFirst(e)'
      <4>1. Marked(t, "pending").seq = t.seq /\ e.seq <= t.seq
        BY <2>2 DEF Marked, QueueInv, LastAt
      <4>2. \A f \in Pending' : f \in Pending \/ f = Marked(t, "pending")
        BY <2>2 DEF Pending
      <4> QED
        BY <3>2, <3>3, <4>1, <4>2 DEF IsFirst, Pending
    <3> QED
      BY <1>1, <3>2, <3>3 DEF StuckFile
  <2> QED
    BY <1>2, <2>1, <2>2
<1> QED
  BY <1>2, <1>3, <1>4, <1>5
  DEF Next, vars, Step, Replay, Acquire, AcquireFails, ReplayFails, ReplayCommitted,
      ReplayCommittedLate, ReplayIndeterminate, FileStays, ReplayDone, AppendOwn,
      AppendCommitted, AppendNotCommitted, AppendUncertain, WriteSpool, SpoolFails,
      Operate, Unlock, UnlockFails, Leave, Crash

(* A quarantined file, a temporary file left behind by a crash or a failed  *)
(* removal, and an unreadable file at the head of the queue stop the audit  *)
(* log for good: no later step, of any process, writes a record.            *)
THEOREM StuckFilesStopTheJournal == Spec => StuckFilesBlock
<1>1. ASSUME IInv, QueueInv, [Next]_vars, NEW e \in spool, StuckFile(e)
      PROVE  log' = log
  <2> SUFFICES ASSUME log' # log PROVE FALSE
    OBVIOUS
  <2>1. ~Blocked /\ \E f \in Pending : CanReplay(f)
    BY <1>1, GrowthIsInOrder
  <2>2. IsFirst(e) /\ e.op \in Unreadable
    BY <1>1, <2>1 DEF StuckFile, Blocked
  <2> QED
    BY <1>1, <2>1, <2>2, OneFirst DEF CanReplay, IInv, IsFirst
<1>2. IInv /\ QueueInv /\ [Next]_vars =>
        [\A e \in spool : StuckFile(e) => e \in spool' /\ StuckFile(e)' /\ log' = log]_vars
  BY <1>1, StuckStays
<1>3. Init => QueueInv
  BY DEF Init, QueueInv, ReadableAt, LastAt, Procs
<1>4. IInv /\ QueueInv /\ [Next]_vars => QueueInv'
  BY QueueStep
<1> QED
  BY <1>2, <1>3, <1>4, Inductive, PTL DEF Spec, StuckFilesBlock

-----------------------------------------------------------------------------
(* A record that is in the log twice was paid for by a crash or by a file   *)
(* that would not go away.                                                  *)

(* Sequence numbers are unique, so the spool and its pending files are      *)
(* finite, and so is the set of positions that repeat a record.             *)
LEMMA FiniteBooks ==
  ASSUME TypeOK, SpoolNames
  PROVE  IsFiniteSet(Repeats) /\ IsFiniteSet(Stale)
<1>1. IsFiniteSet(Repeats)
  <2>1. IsFiniteSet(1..Len(log))
    BY FS_Interval DEF TypeOK
  <2>2. Repeats \in SUBSET (1..Len(log))
    BY DEF Repeats
  <2> QED
    BY <2>1, <2>2, FS_Subset
<1>2. IsFiniteSet(spool)
  <2> DEFINE number == [e \in spool |-> e.seq]
  <2>1. number \in Injection(spool, 1..MaxSeq)
    BY DEF Injection, IsInjective, TypeOK, Entries, SpoolNames
  <2>2. IsFiniteSet(1..MaxSeq)
    BY ConstantsOK, FS_Interval
  <2> QED
    BY <2>1, <2>2, FS_Injection
<1>3. Stale \in SUBSET spool
  BY DEF Stale, Pending
<1> QED
  BY <1>1, <1>2, <1>3, FS_Subset

(* Appending repeats a record exactly when the record is in the log.        *)
LEMMA RepeatsGrow ==
  ASSUME log \in Seq(Records), NEW r \in Records, log' = Append(log, r)
  PROVE  /\ InLog(r) => Repeats' = Repeats \cup {Len(log) + 1}
         /\ ~InLog(r) => Repeats' = Repeats
<1>1. /\ Len(log) \in Nat
      /\ Len(log') = Len(log) + 1
      /\ \A i \in 1..Len(log) : log'[i] = log[i]
      /\ log'[Len(log) + 1] = r
  OBVIOUS
<1>2. ASSUME NEW i \in 1..Len(log) PROVE i \in Repeats' <=> i \in Repeats
  <2>1. i \in 1..Len(log') /\ \A j \in 1..(i - 1) : j \in 1..Len(log)
    BY <1>1
  <2>2. log'[i] = log[i] /\ \A j \in 1..(i - 1) : log'[j] = log[j]
    BY <1>1, <2>1
  <2> QED
    BY <2>1, <2>2 DEF Repeats
<1>3. Len(log) + 1 \in Repeats' <=> InLog(r)
  <2>1. Len(log) + 1 \in 1..Len(log') /\ (Len(log) + 1) - 1 = Len(log)
    BY <1>1
  <2>2. (\E j \in 1..Len(log) : log'[j] = log'[Len(log) + 1]) <=> InLog(r)
    BY <1>1 DEF InLog
  <2> QED
    BY <2>1, <2>2 DEF Repeats
<1>4. Repeats \subseteq 1..Len(log) /\ Repeats' \subseteq 1..(Len(log) + 1)
  BY <1>1 DEF Repeats
<1>5. 1..(Len(log) + 1) = 1..Len(log) \cup {Len(log) + 1} /\ Len(log) + 1 \notin 1..Len(log)
  BY <1>1
<1> QED
  BY <1>2, <1>3, <1>4, <1>5

(* The bookkeeping of one step: nothing new is owed, a stale file becomes a *)
(* repeated record, or a fault leaves one more file stale.                  *)
LEMMA Books ==
  ASSUME NEW R, NEW S, NEW R2, NEW S2, NEW c \in Nat, NEW c2 \in Nat,
         IsFiniteSet(R), IsFiniteSet(S), Cardinality(R) + Cardinality(S) <= c,
         \/ R2 = R /\ S2 \subseteq S /\ c <= c2
         \/ \E x : \E e \in S : R2 = R \cup {x} /\ S2 = S \ {e} /\ c2 = c
         \/ \E e : R2 = R /\ S2 \subseteq S \cup {e} /\ c2 = c + 1
  PROVE  Cardinality(R2) + Cardinality(S2) <= c2
<1>0. Cardinality(R) \in Nat /\ Cardinality(S) \in Nat
  BY FS_CardinalityType
<1>1. CASE R2 = R /\ S2 \subseteq S /\ c <= c2
  <2>1. IsFiniteSet(S2) /\ Cardinality(S2) <= Cardinality(S)
    BY <1>1, FS_Subset
  <2>2. Cardinality(S2) \in Nat /\ Cardinality(R2) = Cardinality(R)
    BY <1>1, <2>1, FS_CardinalityType
  <2> QED
    BY <1>0, <1>1, <2>1, <2>2
<1>2. ASSUME NEW x, NEW e \in S, R2 = R \cup {x}, S2 = S \ {e}, c2 = c
      PROVE  Cardinality(R2) + Cardinality(S2) <= c2
  <2>1. Cardinality(S2) = Cardinality(S) - 1
    BY <1>2, FS_RemoveElement
  <2>2. Cardinality(R2) = Cardinality(R) \/ Cardinality(R2) = Cardinality(R) + 1
    BY <1>2, FS_AddElement
  <2> QED
    BY <1>0, <1>2, <2>1, <2>2
<1>3. ASSUME NEW e, R2 = R, S2 \subseteq S \cup {e}, c2 = c + 1
      PROVE  Cardinality(R2) + Cardinality(S2) <= c2
  <2>1. /\ IsFiniteSet(S \cup {e})
        /\ \/ Cardinality(S \cup {e}) = Cardinality(S)
           \/ Cardinality(S \cup {e}) = Cardinality(S) + 1
    BY FS_AddElement
  <2>2. IsFiniteSet(S2) /\ Cardinality(S2) <= Cardinality(S \cup {e})
    BY <1>3, <2>1, FS_Subset
  <2>3. Cardinality(S2) \in Nat /\ Cardinality(R2) = Cardinality(R)
    BY <1>3, <2>2, FS_CardinalityType
  <2> QED
    BY <1>0, <1>3, <2>1, <2>2, <2>3
<1> QED
  BY <1>1, <1>2, <1>3

(* Whoever is at a place under the lock is alone there.                     *)
LEMMA OnlyOneInside ==
  ASSUME TypeOK, LockInv, NEW p \in Procs, pc[p] \in Locked
  PROVE  \A q \in Procs : q # p => pc[q] \notin Locked
BY ConstantsOK DEF LockInv, Procs

(* A file may be replayed only after the operation it speaks of has left    *)
(* the journal for good.                                                    *)
LEMMA OwnerHasLeft ==
  ASSUME IInv, NEW p \in Procs, pc[p] \in Locked \ {"rename", "unlock"}, NEW e \in spool
  PROVE  e.op \in Operations /\ result[e.op] # "none" /\ pc[e.op] \in {"done", "dead"}
<1>1. e.op \in Operations /\ OwnerAt(e.op)
  BY DEF IInv, SpoolInv, TypeOK, Entries
<1>2. e.op \in Procs /\ e.op # p
  BY <1>1 DEF OwnerAt, Procs, Locked
<1>3. pc[e.op] \notin Locked
  BY <1>2, OnlyOneInside DEF IInv
<1> QED
  BY <1>1, <1>3 DEF OwnerAt, Locked

(* A process logs its intent once, and no outcome is in the log before its  *)
(* operation has its result and has reached the end of its last access.     *)
LEMMA OnceStep ==
  ASSUME IInv, RepeatInv, [Next]_vars, NEW q \in Operations
  PROVE  OnceAt(q)'
<1> USE ConstantsOK DEF OnceAt, Handling, Procs
<1>0. TypeOK /\ StageAt(q) /\ OnceAt(q)
  BY DEF IInv, StageInv, RepeatInv
<1>1. ASSUME log' = log PROVE (InLog(Intent(q))' <=> InLog(Intent(q))) /\ (Logged(q)' <=> Logged(q))
  BY <1>1 DEF InLog, Intent, Outcome, Logged
<1>2. ASSUME NEW r \in Records, log' = Append(log, r)
      PROVE  /\ r # Intent(q) => (InLog(Intent(q))' <=> InLog(Intent(q)))
             /\ r # Outcome(q) => (Logged(q)' <=> Logged(q))
  <2>1. /\ Len(log) \in Nat
        /\ Len(log') = Len(log) + 1
        /\ \A i \in 1..Len(log) : log'[i] = log[i]
        /\ log'[Len(log) + 1] = r
    BY <1>0, <1>2 DEF TypeOK
  <2>2. ASSUME NEW x PROVE x # r => (InLog(x)' <=> InLog(x))
    BY <2>1 DEF InLog
  <2>3. Intent(q)' = Intent(q) /\ Outcome(q)' = Outcome(q)
    BY DEF Intent, Outcome
  <2> QED
    BY <2>2, <2>3 DEF Logged
<1>3. Intent(q) # Outcome(q) /\ Intent(q) \in Records /\ Outcome(q) \in Records
  BY RecordTypes DEF Intent, Outcome
<1>4. ASSUME NEW p \in Procs,
             ReplayCommitted(p) \/ ReplayCommittedLate(p) \/ ReplayIndeterminate(p)
      PROVE  OnceAt(q)'
  <2>1. PICK e \in Pending : log' = log \/ log' = Append(log, Outcome(e.op))
    BY <1>4 DEF ReplayCommitted, ReplayCommittedLate, ReplayIndeterminate
  <2>2. /\ e.op \in Operations /\ result[e.op] # "none" /\ pc[e.op] \in {"done", "dead"}
        /\ pc[p] = "scan" /\ Outcome(e.op) \in Records
    BY <1>4, OwnerHasLeft, RecordTypes
    DEF ReplayCommitted, ReplayCommittedLate, ReplayIndeterminate, Pending, Locked
  <2>3. result' = result /\ (pc'[q] = pc[q] \/ (q = p /\ Handling(q)'))
    BY <1>0, <1>4 DEF ReplayCommitted, ReplayCommittedLate, ReplayIndeterminate, TypeOK
  <2>4. Outcome(e.op) # Intent(q) /\ (Outcome(e.op) = Outcome(q) => e.op = q)
    BY DEF Outcome, Intent
  <2>5. CASE log' = log
    BY <1>0, <1>1, <2>2, <2>3, <2>5
  <2>6. CASE log' = Append(log, Outcome(e.op))
    BY <1>0, <1>2, <2>2, <2>3, <2>4, <2>6
  <2> QED
    BY <2>1, <2>5, <2>6
<1>5. ASSUME NEW p \in Procs, AppendOwn(p) PROVE OnceAt(q)'
  <2>1. /\ log' = log \/ log' = LogWithOwn(p)
        /\ result' = result /\ pc[p] = "append"
        /\ log' # log => pc' = [pc EXCEPT ![p] = "unlock"]
        /\ pc'[p] \in {"unlock", "spool"}
        /\ \A x \in Procs : x # p => pc'[x] = pc[x]
    BY <1>0, <1>5 DEF AppendOwn, AppendCommitted, AppendNotCommitted, AppendUncertain, TypeOK
  <2>2. CASE log' = log
    BY <1>0, <1>1, <2>1, <2>2
  <2>3. CASE log' # log
    <3>1. log' = Append(log, OwnRecord(p)) /\ p \in Operations
      BY <2>1, <2>3 DEF LogWithOwn
    <3>2. OwnRecord(p) = IF result[p] = "none" THEN Intent(p) ELSE Outcome(p)
      BY <3>1 DEF OwnRecord, Stage, Intent, Outcome
    <3>3. /\ OwnRecord(p) \in Records
          /\ p # q => OwnRecord(p) # Intent(q) /\ OwnRecord(p) # Outcome(q)
          /\ p = q /\ result[q] = "none" => OwnRecord(p) # Outcome(q)
          /\ p = q /\ result[q] # "none" => OwnRecord(p) # Intent(q)
      BY <1>3, <3>1, <3>2, RecordTypes DEF Intent, Outcome
    <3>4. /\ OwnRecord(p) # Intent(q) => (InLog(Intent(q))' <=> InLog(Intent(q)))
          /\ OwnRecord(p) # Outcome(q) => (Logged(q)' <=> Logged(q))
      BY <1>2, <3>1, <3>3
    <3>5. CASE p = q
      BY <1>0, <2>1, <2>3, <3>3, <3>4, <3>5 DEF TypeOK
    <3>6. CASE p # q
      BY <1>0, <2>1, <3>3, <3>4, <3>6
    <3> QED
      BY <3>5, <3>6
  <2> QED
    BY <2>2, <2>3
<1>6. ASSUME NEW p \in Procs,
             \/ ReplayFails(p) \/ Remove(p) \/ Quarantine(p) \/ FileStays(p) \/ ReplayDone(p)
             \/ p \in Operations /\ (WriteSpool(p) \/ Operate(p))
      PROVE  OnceAt(q)'
  <2>1. log' = log
    BY <1>6 DEF ReplayFails, Remove, Quarantine, FileStays, ReplayDone, WriteSpool, SpoolFails,
                Spool, Rename, RenameFails, Operate
  <2>2. CASE ~(p \in Operations /\ (WriteSpool(p) \/ Operate(p)))
    BY <1>0, <1>1, <1>6, <2>1, <2>2
    DEF ReplayFails, Remove, Quarantine, FileStays, ReplayDone, GiveUpReplay, TypeOK
  <2>3. CASE p \in Operations /\ (WriteSpool(p) \/ Operate(p))
    BY <1>0, <1>1, <1>6, <2>1, <2>3
    DEF WriteSpool, SpoolFails, Spool, Rename, RenameFails, Operate, TypeOK, StageAt
  <2> QED
    BY <2>2, <2>3
<1>7. ASSUME NEW p \in Procs,
             Acquire(p) \/ AcquireFails(p) \/ Unlock(p) \/ UnlockFails(p) \/ Crash(p)
      PROVE  OnceAt(q)'
  <2>1. log' = log
    BY <1>7 DEF Acquire, AcquireFails, Unlock, UnlockFails, Leave, Crash
  <2> QED
    BY <1>0, <1>1, <1>7, <2>1
    DEF Acquire, AcquireFails, Unlock, UnlockFails, Leave, AfterUnlock, Crash, TypeOK, StageAt
<1>8. CASE UNCHANGED vars
  BY <1>0, <1>1, <1>8 DEF vars
<1> QED
  BY <1>4, <1>5, <1>6, <1>7, <1>8 DEF Next, Step, Replay

(* What one step owes, in the terms of Books.                               *)
Paid ==
  \/ Repeats' = Repeats /\ Stale' \subseteq Stale /\ crashes + slips <= crashes' + slips'
  \/ \E x : \E e \in Stale : /\ Repeats' = Repeats \cup {x} /\ Stale' = Stale \ {e}
                             /\ crashes' + slips' = crashes + slips
  \/ \E e : /\ Repeats' = Repeats /\ Stale' \subseteq Stale \cup {e}
            /\ crashes' + slips' = crashes + slips + 1

(* While a file is handled exactly one file, the first, is in hand; else    *)
(* none is.                                                                 *)
LEMMA InHandIsFirst ==
  ASSUME TypeOK, SpoolInv, NEW p \in Procs, Handling(p)
  PROVE  \A e \in Pending : InHand(e) <=> IsFirst(e)
BY DEF InHand

LEMMA NothingInHand ==
  ASSUME TypeOK, LockInv, NEW p \in Procs, pc[p] \in Locked, ~Handling(p)
  PROVE  \A q \in Procs : ~Handling(q)
BY OnlyOneInside DEF Handling, Locked

(* Steps that write no record and change no pending file.                   *)
LEMMA NothingOwed ==
  ASSUME TypeOK, log' = log, Pending' = Pending, NEW p \in Procs,
         \A q \in Procs : q # p => pc'[q] = pc[q], Handling(p) => Handling(p)',
         crashes' \in Nat, slips' \in Nat, crashes' >= crashes, slips' >= slips
  PROVE  Paid
<1>1. Repeats' = Repeats
  BY DEF Repeats
<1>2. \A e \in Pending : InHand(e) => InHand(e)'
  BY DEF InHand, IsFirst, Handling
<1>3. \A e \in Pending : Logged(e.op)' <=> Logged(e.op)
  BY DEF Logged, InLog, Outcome
<1>4. Stale' \subseteq Stale
  BY <1>2, <1>3 DEF Stale
<1>5. crashes \in Nat /\ slips \in Nat
  BY ConstantsOK DEF TypeOK
<1>6. crashes + slips <= crashes' + slips'
  <2>1. \A a, b, c, d \in Nat : c >= a /\ d >= b => a + b <= c + d
    OBVIOUS
  <2> QED
    BY <1>5, <2>1
<1> QED
  BY <1>1, <1>4, <1>6 DEF Paid

(* A replay that writes a record: the file it came from is then in hand; if *)
(* the record was in the log before, the file was stale.                    *)
LEMMA ReplayIsPaid ==
  ASSUME IInv, NEW p \in Procs, ReplayCommitted(p) \/ ReplayCommittedLate(p) \/ ReplayIndeterminate(p)
  PROVE  Paid
<1>0. TypeOK /\ LockInv /\ SpoolInv /\ pc[p] = "scan" /\ pc[p] \in Locked
  BY DEF IInv, ReplayCommitted, ReplayCommittedLate, ReplayIndeterminate, Locked
<1>1. /\ UNCHANGED <<spool, crashes, slips>> /\ Pending' = Pending
      /\ \A f \in Pending : IsFirst(f)' <=> IsFirst(f)
  BY DEF ReplayCommitted, ReplayCommittedLate, ReplayIndeterminate, Pending, IsFirst
<1>2. PICK e \in Pending : IsFirst(e) /\ (log' = log \/ log' = Append(log, Outcome(e.op)))
  BY DEF ReplayCommitted, ReplayCommittedLate, ReplayIndeterminate, CanReplay
<1>3. \A q \in Procs : ~Handling(q)
  BY <1>0, NothingInHand DEF Handling
<1>4. Handling(p)'
  BY <1>0 DEF ReplayCommitted, ReplayCommittedLate, ReplayIndeterminate, Handling, TypeOK
<1>5. \A f \in Pending : ~InHand(f) /\ (InHand(f)' <=> f = e)
  <2>1. \A f \in Pending : IsFirst(f) => f = e
    BY <1>0, <1>2, OneFirst
  <2> QED
    BY <1>1, <1>2, <1>3, <1>4, <2>1 DEF InHand
<1>6. crashes \in Nat /\ slips \in Nat
  BY <1>0, ConstantsOK DEF TypeOK
<1>7. CASE log' = log
  <2>1. Repeats' = Repeats /\ \A f \in Pending : Logged(f.op)' <=> Logged(f.op)
    BY <1>7 DEF Repeats, Logged, InLog, Outcome
  <2>2. Stale' \subseteq Stale
    BY <1>1, <1>5, <2>1 DEF Stale
  <2> QED
    BY <1>1, <1>6, <2>1, <2>2 DEF Paid
<1>8. CASE log' = Append(log, Outcome(e.op))
  <2>1. Outcome(e.op) \in Records /\ log \in Seq(Records)
    BY <1>0, RecordTypes DEF TypeOK, Entries, Pending
  <2>2. /\ InLog(Outcome(e.op)) => Repeats' = Repeats \cup {Len(log) + 1}
        /\ ~InLog(Outcome(e.op)) => Repeats' = Repeats
    BY <1>8, <2>1, RepeatsGrow
  <2>3. \A f \in Pending : f # e => (Logged(f.op)' <=> Logged(f.op))
    <3> SUFFICES ASSUME NEW f \in Pending, f # e PROVE Logged(f.op)' <=> Logged(f.op)
      OBVIOUS
    <3>1. Outcome(f.op) # Outcome(e.op) /\ Outcome(f.op)' = Outcome(f.op)
      BY <1>0 DEF SpoolInv, SpoolNames, Pending, Outcome
    <3>2. /\ Len(log) \in Nat
          /\ Len(log') = Len(log) + 1
          /\ \A i \in 1..Len(log) : log'[i] = log[i]
          /\ log'[Len(log) + 1] = Outcome(e.op)
      BY <1>8, <2>1
    <3> QED
      BY <3>1, <3>2 DEF Logged, InLog
  <2>4. Stale' = Stale \ {e}
    BY <1>1, <1>5, <2>3 DEF Stale
  <2>5. e \in Stale <=> InLog(Outcome(e.op))
    BY <1>5 DEF Stale, Logged
  <2>6. CASE e \in Stale
    BY <1>1, <1>6, <2>2, <2>4, <2>5, <2>6 DEF Paid
  <2>7. CASE e \notin Stale
    BY <1>1, <1>6, <2>2, <2>4, <2>5, <2>7 DEF Paid
  <2> QED
    BY <2>6, <2>7
<1> QED
  BY <1>2, <1>7, <1>8

(* The file in hand goes, or is set aside: no other file changes.           *)
LEMMA DisposalIsPaid ==
  ASSUME IInv, NEW p \in Procs, Remove(p) \/ Quarantine(p)
  PROVE  Paid
<1>0. TypeOK /\ LockInv /\ SpoolInv /\ Handling(p) /\ pc[p] \in Locked
  BY DEF IInv, Remove, Quarantine, Handling, Locked
<1>1. PICK e \in Pending : IsFirst(e) /\ Pending' = Pending \ {e}
  <2>1. PICK e \in Pending :
          /\ IsFirst(e)
          /\ \/ spool' = spool \ {e}
             \/ spool' = (spool \ {e}) \cup {Marked(e, "quarantined")}
    BY DEF Remove, Quarantine
  <2>2. Marked(e, "quarantined").mark = "quarantined"
    BY DEF Marked
  <2>3. Pending' = Pending \ {e}
    BY <2>1, <2>2 DEF Pending
  <2> QED
    BY <2>1, <2>3
<1>2. log' = log /\ UNCHANGED <<crashes, slips>>
  BY DEF Remove, Quarantine
<1>3. \A f \in Pending : InHand(f) <=> f = e
  <2>1. \A f \in Pending : IsFirst(f) => f = e
    BY <1>0, <1>1, OneFirst
  <2> QED
    BY <1>0, <1>1, <2>1, InHandIsFirst
<1>4. Repeats' = Repeats /\ \A f \in Pending : Logged(f.op)' <=> Logged(f.op)
  BY <1>2 DEF Repeats, Logged, InLog, Outcome
<1>5. Stale' \subseteq Stale
  BY <1>1, <1>3, <1>4 DEF Stale
<1>6. crashes \in Nat /\ slips \in Nat
  BY <1>0, ConstantsOK DEF TypeOK
<1> QED
  BY <1>2, <1>4, <1>5, <1>6 DEF Paid

(* A fault while a file is handled may leave that one file stale.           *)
LEMMA FaultIsPaid ==
  ASSUME IInv, NEW p \in Procs, Handling(p), FileStays(p) \/ Crash(p)
  PROVE  Paid
<1>0. TypeOK /\ LockInv /\ SpoolInv
  BY DEF IInv
<1>1. log' = log /\ spool' = spool /\ Pending' = Pending
  BY DEF FileStays, Crash, Pending
<1>2. Repeats' = Repeats /\ \A f \in Pending : Logged(f.op)' <=> Logged(f.op)
  BY <1>1 DEF Repeats, Logged, InLog, Outcome
<1>3. crashes' + slips' = crashes + slips + 1
  <2>1. crashes \in Nat /\ slips \in Nat
    BY <1>0, ConstantsOK DEF TypeOK
  <2> QED
    BY <2>1 DEF FileStays, Crash
<1>4. \E e : Stale' \subseteq Stale \cup {e}
  <2>1. CASE \E e \in Pending : IsFirst(e)
    <3>1. PICK e \in Pending : IsFirst(e)
      BY <2>1
    <3>2. \A f \in Pending : InHand(f) => f = e
      BY <1>0, <3>1, OneFirst, InHandIsFirst
    <3>3. Stale' \subseteq Stale \cup {e}
      BY <1>1, <1>2, <3>2 DEF Stale
    <3> QED
      BY <3>3
  <2>2. CASE ~ \E e \in Pending : IsFirst(e)
    <3>1. Stale' \subseteq Stale
      BY <1>1, <1>2, <2>2 DEF Stale, InHand
    <3> QED
      BY <3>1
  <2> QED
    BY <2>1, <2>2
<1> QED
  BY <1>2, <1>3, <1>4 DEF Paid

(* A process's own record is a new one, and no file is pending then.        *)
LEMMA AppendIsPaid ==
  ASSUME IInv, RepeatInv, NEW p \in Procs, AppendOwn(p)
  PROVE  Paid
<1>0. /\ TypeOK /\ LockInv /\ SpoolInv /\ pc[p] = "append" /\ spool = {}
      /\ log' = log \/ log' = LogWithOwn(p)
      /\ UNCHANGED <<spool, crashes, slips>>
  BY DEF IInv, AppendOwn, AppendCommitted, AppendNotCommitted, AppendUncertain, SpoolInv,
         DrainedAt
<1>1. Stale' = {} /\ Stale = {}
  BY <1>0 DEF Stale, Pending
<1>2. crashes \in Nat /\ slips \in Nat
  BY <1>0, ConstantsOK DEF TypeOK
<1>3. Repeats' = Repeats
  <2>1. CASE log' = log
    BY <2>1 DEF Repeats
  <2>2. CASE log' # log
    <3>1. log' = Append(log, OwnRecord(p)) /\ p \in Operations /\ p \notin Events
      BY <1>0, <2>2, ConstantsOK DEF LogWithOwn, Procs
    <3>2. OwnRecord(p) = IF result[p] = "none" THEN Intent(p) ELSE Outcome(p)
      BY <3>1 DEF OwnRecord, Stage, Intent, Outcome
    <3>3. OwnRecord(p) \in Records /\ ~InLog(OwnRecord(p))
      BY <1>0, <3>1, <3>2, RecordTypes DEF RepeatInv, OnceAt, Logged
    <3> QED
      BY <1>0, <3>1, <3>3, RepeatsGrow DEF TypeOK
  <2> QED
    BY <2>1, <2>2
<1> QED
  BY <1>0, <1>1, <1>2, <1>3 DEF Paid

(* A file put in place is not stale: its outcome was never written.         *)
LEMMA RenameIsPaid ==
  ASSUME IInv, RepeatInv, NEW p \in Operations, Rename(p)
  PROVE  Paid
<1>0. TypeOK /\ LockInv /\ SpoolInv /\ p \in Procs /\ pc[p] = "rename" /\ pc[p] \in Locked
  BY DEF IInv, Rename, Procs, Locked
<1>1. PICK e \in spool : IsTemp(e, p) /\ spool' = (spool \ {e}) \cup {Marked(e, "pending")}
  BY DEF Rename
<1>2. log' = log /\ UNCHANGED <<crashes, slips>>
  BY DEF Rename
<1>3. Marked(e, "pending").op = p /\ ~Logged(p)
  BY <1>0, <1>1 DEF Marked, IsTemp, RepeatInv, OnceAt
<1>4. Pending' = Pending \cup {Marked(e, "pending")}
  BY <1>1 DEF Pending, Marked, IsTemp
<1>5. Repeats' = Repeats /\ \A q : Logged(q)' <=> Logged(q)
  BY <1>2 DEF Repeats, Logged, InLog, Outcome
<1>6. \A f \in Pending : ~InHand(f)
  BY <1>0, NothingInHand DEF InHand, Handling
<1>7. Stale' \subseteq Stale
  BY <1>3, <1>4, <1>5, <1>6 DEF Stale
<1>8. crashes \in Nat /\ slips \in Nat
  BY <1>0, ConstantsOK DEF TypeOK
<1> QED
  BY <1>2, <1>5, <1>7, <1>8 DEF Paid

(* Every step of the journal pays for what it repeats.                      *)
LEMMA EveryStepIsPaid ==
  ASSUME IInv, RepeatInv, [Next]_vars
  PROVE  Paid
<1> USE ConstantsOK DEF Procs
<1>0. TypeOK /\ LockInv /\ crashes \in Nat /\ slips \in Nat
  BY DEF IInv, TypeOK
<1>1. CASE UNCHANGED vars
  <2>1. Repeats' = Repeats /\ Stale' = Stale
    BY <1>1 DEF vars, Repeats, Stale, Pending, InHand, IsFirst, Handling, Logged, InLog, Outcome
  <2> QED
    BY <1>0, <1>1, <2>1 DEF Paid, vars
<1>2. ASSUME NEW p \in Procs,
             \/ Acquire(p) \/ AcquireFails(p) \/ ReplayFails(p) \/ ReplayDone(p)
             \/ Unlock(p) \/ UnlockFails(p)
             \/ ~Handling(p) /\ Crash(p)
             \/ p \in Operations /\ (SpoolFails(p) \/ Spool(p) \/ RenameFails(p) \/ Operate(p))
      PROVE  Paid
  <2>1. log' = log /\ ~Handling(p)
    BY <1>2 DEF Acquire, AcquireFails, ReplayFails, ReplayDone, Unlock, UnlockFails, Leave, Crash,
                SpoolFails, Spool, RenameFails, Operate, Handling
  <2>2. Pending' = Pending
    <3>1. CASE spool' = spool
      BY <3>1 DEF Pending
    <3>2. CASE Spool(p)
      BY <3>2 DEF Spool, Pending
    <3>3. CASE RenameFails(p)
      BY <3>3 DEF RenameFails, Pending, IsTemp
    <3> QED
      BY <1>2, <3>1, <3>2, <3>3
      DEF Acquire, AcquireFails, ReplayFails, ReplayDone, Unlock, UnlockFails, Leave, Crash,
          SpoolFails, Operate
  <2>3. \A q \in Procs : q # p => pc'[q] = pc[q]
    BY <1>0, <1>2
    DEF Acquire, AcquireFails, ReplayFails, GiveUpReplay, ReplayDone, Unlock, UnlockFails, Leave,
        Crash, SpoolFails, Spool, RenameFails, Operate, TypeOK
  <2>4. crashes' \in Nat /\ slips' \in Nat /\ crashes' >= crashes /\ slips' >= slips
    BY <1>0, <1>2
    DEF Acquire, AcquireFails, ReplayFails, ReplayDone, Unlock, UnlockFails, Leave, Crash,
        SpoolFails, Spool, RenameFails, Operate
  <2> QED
    BY <1>0, <2>1, <2>2, <2>3, <2>4, NothingOwed
<1>3. ASSUME NEW p \in Procs, FileStays(p) \/ (Handling(p) /\ Crash(p)) PROVE Paid
  BY <1>3, FaultIsPaid DEF FileStays, Handling
<1> QED
  BY <1>1, <1>2, <1>3, ReplayIsPaid, DisposalIsPaid, AppendIsPaid, RenameIsPaid
  DEF Next, Step, Replay, WriteSpool

(* A record that stands twice in the log needed a crash or a stuck file:    *)
(* retries, replays and contending processes alone never repeat one.        *)
THEOREM RepeatsArePaid == Spec => []RepeatsNeedFaults
<1>1. Init => RepeatInv
  <2> SUFFICES ASSUME Init PROVE RepeatInv
    OBVIOUS
  <2>1. \A p \in Operations : OnceAt(p)
    BY DEF Init, OnceAt, Logged, InLog
  <2>2. Repeats = {} /\ Stale = {}
    BY DEF Init, Repeats, Stale, Pending
  <2>3. Cardinality(Repeats) = 0 /\ Cardinality(Stale) = 0
    BY <2>2, FS_EmptySet
  <2> QED
    BY <2>1, <2>3 DEF Init, RepeatInv
<1>2. IInv /\ TypeOK' /\ RepeatInv /\ [Next]_vars => RepeatInv'
  <2> SUFFICES ASSUME IInv, TypeOK', RepeatInv, [Next]_vars PROVE RepeatInv'
    OBVIOUS
  <2>1. Paid
    BY EveryStepIsPaid
  <2>2. crashes + slips \in Nat /\ crashes' + slips' \in Nat
    <3>1. crashes \in Nat /\ slips \in Nat /\ crashes' \in Nat /\ slips' \in Nat
      BY ConstantsOK DEF IInv, TypeOK
    <3>2. \A a, b \in Nat : a + b \in Nat
      OBVIOUS
    <3> QED
      BY <3>1, <3>2
  <2>3. IsFiniteSet(Repeats) /\ IsFiniteSet(Stale)
    BY FiniteBooks DEF IInv, SpoolInv
  <2>4. Cardinality(Repeats) + Cardinality(Stale) <= crashes + slips
    BY DEF RepeatInv
  <2>5. Cardinality(Repeats') + Cardinality(Stale') <= crashes' + slips'
    BY <2>1, <2>2, <2>3, <2>4, Books DEF Paid
  <2> QED
    BY <2>5, OnceStep DEF RepeatInv
<1>3. IInv /\ RepeatInv => RepeatsNeedFaults
  <2> SUFFICES ASSUME IInv, RepeatInv PROVE RepeatsNeedFaults
    OBVIOUS
  <2>1. Cardinality(Repeats) \in Nat /\ Cardinality(Stale) \in Nat
    BY FiniteBooks, FS_CardinalityType DEF IInv, SpoolInv
  <2>2. crashes + slips \in Nat
    BY ConstantsOK DEF IInv, TypeOK
  <2> QED
    BY <2>1, <2>2 DEF RepeatInv, RepeatsNeedFaults
<1> QED
  BY <1>1, <1>2, <1>3, Inductive, TypeCorrect, PTL DEF Spec

-----------------------------------------------------------------------------
(* What a process can still do under the lock, a number at every place.     *)
LEMMA FiniteSpool ==
  ASSUME TypeOK, SpoolNames
  PROVE  IsFiniteSet(spool) /\ Cardinality(spool) \in Nat
<1> DEFINE number == [e \in spool |-> e.seq]
<1>1. number \in Injection(spool, 1..MaxSeq)
  BY DEF Injection, IsInjective, TypeOK, Entries, SpoolNames
<1>2. IsFiniteSet(1..MaxSeq)
  BY ConstantsOK, FS_Interval
<1>3. IsFiniteSet(spool)
  BY <1>1, <1>2, FS_Injection
<1> QED
  BY <1>3, FS_CardinalityType

LEMMA FiniteSpoolNext == IInv' => (Cardinality(spool) \in Nat)'
<1>1. IInv => Cardinality(spool) \in Nat
  BY FiniteSpool DEF IInv, SpoolInv
<1> QED
  BY <1>1, PTL

LEMMA WorkIs ==
  ASSUME NEW p
  PROVE  /\ pc[p] = "scan" => Work(p) = 4 + 2 * Cardinality(spool)
         /\ Handling(p) => Work(p) = 3 + 2 * Cardinality(spool)
         /\ pc[p] = "append" => Work(p) = 3
         /\ pc[p] = "spool" => Work(p) = 2
         /\ pc[p] = "rename" => Work(p) = 1
         /\ pc[p] \notin {"scan", "append", "spool", "rename"} /\ ~Handling(p) => Work(p) = 0
BY DEF Work, Handling

LEMMA WorkBecomes ==
  ASSUME NEW p
  PROVE  /\ pc'[p] = "scan" => Work(p)' = 4 + 2 * Cardinality(spool')
         /\ Handling(p)' => Work(p)' = 3 + 2 * Cardinality(spool')
         /\ pc'[p] = "append" => Work(p)' = 3
         /\ pc'[p] = "spool" => Work(p)' = 2
         /\ pc'[p] = "rename" => Work(p)' = 1
         /\ pc'[p] = "unlock" => Work(p)' = 0
BY DEF Work, Handling

LEMMA WorkTypes == IInv => \A p \in Procs : Work(p) \in Nat
<1> SUFFICES ASSUME IInv, NEW p \in Procs PROVE Work(p) \in Nat
  OBVIOUS
<1>1. Cardinality(spool) \in Nat
  BY FiniteSpool DEF IInv, SpoolInv
<1> QED
  BY <1>1 DEF Work

LEMMA WorkTypesNext == IInv' => \A p \in Procs : Work(p)' \in Nat
<1> SUFFICES ASSUME IInv', NEW p \in Procs PROVE Work(p)' \in Nat
  OBVIOUS
<1>1. (Cardinality(spool))' \in Nat
  BY FiniteSpoolNext
<1> QED
  BY <1>1 DEF Work

(* Only a process itself moves from one place under the lock to another.    *)
LEMMA StepsAlone ==
  ASSUME TypeOK, [Next]_vars, NEW p \in Procs, pc[p] \in Locked, pc'[p] \in Locked,
         ~Step(p)
  PROVE  pc'[p] = pc[p]
<1> USE ConstantsOK DEF TypeOK, Procs, Locked
<1>1. CASE UNCHANGED vars
  BY <1>1 DEF vars
<1>2. ASSUME NEW q \in Procs, Acquire(q) \/ AcquireFails(q) \/ Crash(q) PROVE pc'[p] = pc[p]
  BY <1>2 DEF Acquire, AcquireFails, Crash
<1>3. ASSUME NEW q \in Procs, Step(q) PROVE pc'[p] = pc[p]
  <2>1. q # p
    BY <1>3
  <2>2. \E v : pc' = [pc EXCEPT ![q] = v]
    BY <1>3
    DEF Step, Replay, ReplayFails, GiveUpReplay, ReplayCommitted, ReplayCommittedLate,
        ReplayIndeterminate, Remove, Quarantine, FileStays, ReplayDone, AppendOwn,
        AppendCommitted, AppendNotCommitted, AppendUncertain, WriteSpool, SpoolFails, Spool,
        Rename, RenameFails, Operate, Unlock, UnlockFails, Leave, AfterUnlock
  <2> QED
    BY <2>1, <2>2
<1> QED
  BY <1>1, <1>2, <1>3 DEF Next

(* A step of the process itself, from one place under the lock to another.  *)
LEMMA WorkFalls ==
  ASSUME IInv, IInv', NEW p \in Procs, pc[p] \in Locked, pc'[p] \in Locked, Step(p)
  PROVE  Work(p)' < Work(p)
<1> DEFINE n == Cardinality(spool)
           m == Cardinality(spool')
<1>0. TypeOK /\ pc \in [Procs -> PCs]
  BY DEF IInv, TypeOK
<1>n. n \in Nat /\ IsFiniteSet(spool) /\ m \in Nat
  <2>1. n \in Nat /\ IsFiniteSet(spool)
    BY FiniteSpool DEF IInv, SpoolInv
  <2>2. m \in Nat
    BY FiniteSpoolNext
  <2> QED
    BY <2>1, <2>2
<1>1. CASE ReplayFails(p)
  <2>1. pc[p] = "scan" /\ pc'[p] \in {"spool", "unlock"}
    BY <1>0, <1>1 DEF ReplayFails, GiveUpReplay
  <2>2. Work(p) = 4 + 2 * n /\ Work(p)' \in {2, 0}
    BY <2>1, WorkIs, WorkBecomes
  <2> QED
    BY <1>n, <2>2
<1>2. CASE ReplayCommitted(p) \/ ReplayCommittedLate(p) \/ ReplayIndeterminate(p)
  <2>1. pc[p] = "scan" /\ pc'[p] \in {"remove", "removeLate", "quarantine"} /\ spool' = spool
    BY <1>0, <1>2 DEF ReplayCommitted, ReplayCommittedLate, ReplayIndeterminate
  <2>2. Handling(p)'
    BY <2>1 DEF Handling
  <2>3. Work(p) = 4 + 2 * n /\ Work(p)' = 3 + 2 * m /\ m = n
    BY <2>1, <2>2, WorkIs, WorkBecomes
  <2> QED
    BY <1>n, <2>3
<1>3. CASE Remove(p) \/ Quarantine(p) \/ FileStays(p)
  <2>1. Handling(p)
    BY <1>3 DEF Remove, Quarantine, FileStays, Handling
  <2>2. Work(p) = 3 + 2 * n
    BY <2>1, WorkIs
  <2>3. CASE GiveUpReplay(p)
    <3>1. pc'[p] \in {"spool", "unlock"}
      BY <1>0, <2>3 DEF GiveUpReplay
    <3>2. Work(p)' \in {2, 0}
      BY <3>1, WorkBecomes
    <3> QED
      BY <1>n, <2>2, <3>2
  <2>4. CASE ~GiveUpReplay(p)
    <3>1. pc'[p] = "scan" /\ \E e \in spool : spool' = spool \ {e}
      BY <1>0, <1>3, <2>4 DEF Remove, Quarantine, FileStays, Pending
    <3>2. Work(p)' = 4 + 2 * m
      BY <3>1, WorkBecomes
    <3>3. m = n - 1
      BY <1>n, <3>1, FS_RemoveElement
    <3> QED
      BY <1>n, <2>2, <3>2, <3>3
  <2> QED
    BY <2>3, <2>4
<1>4. CASE ReplayDone(p)
  <2>1. pc[p] = "scan" /\ pc'[p] = "append"
    BY <1>0, <1>4 DEF ReplayDone
  <2>2. Work(p) = 4 + 2 * n /\ Work(p)' = 3
    BY <2>1, WorkIs, WorkBecomes
  <2> QED
    BY <1>n, <2>2
<1>5. CASE AppendOwn(p)
  <2>1. pc[p] = "append" /\ pc'[p] \in {"spool", "unlock"}
    BY <1>0, <1>5 DEF AppendOwn, AppendCommitted, AppendNotCommitted, AppendUncertain
  <2>2. Work(p) = 3 /\ Work(p)' \in {2, 0}
    BY <2>1, WorkIs, WorkBecomes
  <2> QED
    BY <2>2
<1>6. CASE WriteSpool(p)
  <2>1. \/ pc[p] = "spool" /\ pc'[p] \in {"rename", "unlock"}
        \/ pc[p] = "rename" /\ pc'[p] = "unlock"
    BY <1>0, <1>6 DEF WriteSpool, SpoolFails, Spool, Rename, RenameFails
  <2>2. \/ Work(p) = 2 /\ Work(p)' \in {1, 0}
        \/ Work(p) = 1 /\ Work(p)' = 0
    BY <2>1, WorkIs, WorkBecomes
  <2> QED
    BY <2>2
<1>7. CASE Unlock(p) \/ UnlockFails(p) \/ Operate(p)
  BY <1>0, <1>7 DEF Unlock, UnlockFails, Leave, AfterUnlock, Operate, Locked
<1> QED
  BY <1>1, <1>2, <1>3, <1>4, <1>5, <1>6, <1>7 DEF Step, Replay

(* AccessesRunDown holds: no access to the journal goes round in circles    *)
(* (replayMutationAuditSpoolLocked, withMutationAuditQueue).  That each     *)
(* access ends takes fairness besides.                                      *)
THEOREM NoAccessGoesRound == Spec => [](\A p \in Procs : Work(p) \in Nat) /\ AccessesRunDown
<1>1. IInv => \A p \in Procs : Work(p) \in Nat
  BY WorkTypes
<1>2. ASSUME IInv, IInv', [Next]_vars, NEW p \in Procs, pc[p] \in Locked, pc'[p] \in Locked
      PROVE  Work(p)' <= Work(p) /\ (Step(p) => Work(p)' < Work(p))
  <2>1. TypeOK /\ LockInv /\ Work(p) \in Nat
    BY <1>2, WorkTypes DEF IInv
  <2>2. CASE Step(p)
    <3>1. Work(p)' < Work(p)
      BY <1>2, <2>2, WorkFalls
    <3>2. Work(p)' \in Nat
      BY <1>2, WorkTypesNext
    <3> QED
      BY <2>1, <3>1, <3>2
  <2>3. CASE ~Step(p)
    <3>1. pc'[p] = pc[p]
      BY <1>2, <2>1, <2>3, StepsAlone
    <3>2. spool' = spool
      BY <1>2, <2>1, <3>1, AloneInside
    <3>3. Work(p)' = Work(p)
      BY <3>1, <3>2 DEF Work, Handling
    <3> QED
      BY <2>1, <2>3, <3>3
  <2> QED
    BY <2>2, <2>3
<1>3. IInv /\ IInv' /\ [Next]_vars =>
        [\A p \in Procs : pc[p] \in Locked /\ pc'[p] \in Locked =>
           /\ Work(p)' <= Work(p)
           /\ Step(p) => Work(p)' < Work(p)]_vars
  BY <1>2
<1> QED
  BY <1>1, <1>3, Inductive, PTL DEF Spec, AccessesRunDown

-----------------------------------------------------------------------------
(* The journal implements AuditContract: every step of it is a step of the  *)
(* contract, or changes nothing the contract speaks of.                     *)

LEMMA RecordedAppend ==
  ASSUME log \in Seq(Records), NEW r \in Records, log' = Append(log, r)
  PROVE  Recorded' = Recorded \cup {r}
<1>1. /\ Len(log) \in Nat
      /\ Len(log') = Len(log) + 1
      /\ \A i \in 1..Len(log) : log'[i] = log[i]
      /\ log'[Len(log) + 1] = r
  OBVIOUS
<1>2. ASSUME NEW i \in 1..Len(log') PROVE log'[i] \in Recorded \cup {r}
  BY <1>1 DEF Recorded
<1>3. ASSUME NEW i \in 1..Len(log) PROVE log[i] \in Recorded'
  <2>1. i \in 1..Len(log') /\ log'[i] = log[i]
    BY <1>1
  <2> QED
    BY <2>1 DEF Recorded
<1>4. r \in Recorded'
  <2>1. Len(log) + 1 \in 1..Len(log')
    BY <1>1
  <2> QED
    BY <1>1, <2>1 DEF Recorded
<1>5. Recorded' = {log'[i] : i \in 1..Len(log')} /\ Recorded = {log[i] : i \in 1..Len(log)}
  BY DEF Recorded
<1> QED
  BY <1>2, <1>3, <1>4, <1>5

LEMMA RecordedIsInLog == \A r : InLog(r) <=> r \in Recorded
BY DEF InLog, Recorded

(* Answers are the same when the same processes are done.                   *)
LEMMA ToldStays ==
  ASSUME \A p \in Operations :
           /\ pc[p] = "done" <=> pc'[p] = "done"
           /\ pc[p] = "done" => verdict'[p] = verdict[p]
  PROVE  Told' = Told
BY DEF Told, Answer

(* An answer is given once, and it is one that the contract allows.         *)
LEMMA Telling ==
  ASSUME IInv, NEW p \in Operations, NEW v \in Verdicts,
         pc[p] # "done", pc' = [pc EXCEPT ![p] = "done"],
         verdict' = [verdict EXCEPT ![p] = v], UNCHANGED <<log, spool, touched>>,
         v = "refused" => p \notin touched,
         v \in {"ok", "failed"} => Logged(p),
         v \in {"spooled", "behind"} => Logged(p) \/ Queued(p)
  PROVE  Contract!Next
<1>1. Told[p] = "none" /\ Told' = [Told EXCEPT ![p] = Answer(v)]
  BY DEF Told, Answer, IInv, TypeOK, Procs
<1>2. Recorded' = Recorded /\ Kept' = Kept /\ touched' = touched
  BY DEF Recorded, Kept, Queued
<1>3. Logged(p) => Contract!Outcome(p) \in Recorded
  BY RecordedIsInLog DEF Logged, Outcome, Contract!Outcome
<1>4. Queued(p) => p \in Kept
  BY DEF Kept
<1>5. Answer(v) \in Contract!Answers
  BY DEF Answer, Contract!Answers
<1>6. /\ Answer(v) = "refused" => p \notin touched
      /\ Answer(v) = "result" => Contract!Outcome(p) \in Recorded
      /\ Answer(v) = "durable" => Contract!Outcome(p) \in Recorded \/ p \in Kept
  BY <1>3, <1>4 DEF Answer
<1>7. Contract!Tell(p, Answer(v))
  BY <1>1, <1>2, <1>6 DEF Contract!Tell
<1> QED
  BY <1>5, <1>7 DEF Contract!Next

(* The kept outcomes change only when a file is removed after its outcome   *)
(* was logged, or put in place by its rename.                               *)
LEMMA KeptChanges ==
  ASSUME IInv, [Next]_vars
  PROVE  \/ Kept' = Kept
         \/ \E p \in Procs : Remove(p)
         \/ \E p \in Operations : Rename(p)
<1> USE DEF Kept, Queued
<1>1. CASE spool' = spool
  BY <1>1
<1>2. ASSUME NEW p \in Operations, Spool(p) PROVE Kept' = Kept
  BY <1>2 DEF Spool
<1>3. ASSUME NEW p \in Operations, RenameFails(p) PROVE Kept' = Kept
  BY <1>3 DEF RenameFails, IsTemp
<1>4. ASSUME NEW p \in Procs, Quarantine(p) PROVE Kept' = Kept
  <2>1. PICK e \in Pending : spool' = (spool \ {e}) \cup {Marked(e, "quarantined")}
    BY <1>4 DEF Quarantine
  <2>2. e \in spool /\ e.mark = "pending"
    BY DEF Pending
  <2>3. /\ Marked(e, "quarantined").op = e.op
        /\ Marked(e, "quarantined").mark = "quarantined"
    BY DEF Marked
  <2>4. ASSUME NEW p_1 \in Operations
        PROVE  (\E f \in spool' : f.op = p_1 /\ f.mark # "temp")
                 <=> \E f \in spool : f.op = p_1 /\ f.mark # "temp"
    BY <2>1, <2>2, <2>3
  <2> QED
    BY <2>4
<1> QED
  BY <1>1, <1>2, <1>3, <1>4
  DEF Next, vars, Step, Replay, Acquire, AcquireFails, ReplayFails, ReplayCommitted,
      ReplayCommittedLate, ReplayIndeterminate, FileStays, ReplayDone, AppendOwn,
      AppendCommitted, AppendNotCommitted, AppendUncertain, WriteSpool, SpoolFails,
      Operate, Unlock, UnlockFails, Leave, Crash

(* Every step that adds to the log is one of the contract's recordings.     *)
LEMMA RecordingStep ==
  ASSUME IInv, [Next]_vars, log' # log
  PROVE  Contract!Next
<1>1. PICK p \in Procs : \/ ReplayCommitted(p) \/ ReplayCommittedLate(p)
                         \/ ReplayIndeterminate(p) \/ AppendOwn(p)
  BY DEF Next, vars, Step, Replay, Acquire, AcquireFails, ReplayFails, Remove, Quarantine,
         FileStays, ReplayDone, WriteSpool, SpoolFails, Spool, Rename, RenameFails, Operate,
         Unlock, UnlockFails, Leave, Crash
<1> USE DEF ReplayCommitted, ReplayCommittedLate, ReplayIndeterminate, AppendOwn,
            AppendCommitted, AppendNotCommitted, AppendUncertain
<1>2. Kept' = Kept /\ touched' = touched
  BY <1>1 DEF Kept, Queued
<1>3. Told' = Told
  <2>1. \A q \in Operations :
          /\ pc[q] = "done" <=> pc'[q] = "done"
          /\ pc[q] = "done" => verdict'[q] = verdict[q]
    BY <1>1 DEF IInv, TypeOK, Procs
  <2> QED
    BY <2>1, ToldStays
<1>4. ASSUME NEW q \in Operations, log' = Append(log, Outcome(q)), InLog(Intent(q))
      PROVE  Contract!RecordOutcome(q)
  <2>1. Recorded' = Recorded \cup {Outcome(q)}
    BY <1>4, RecordTypes, RecordedAppend DEF IInv, TypeOK
  <2>2. Intent(q) \in Recorded
    BY <1>4, RecordedIsInLog
  <2> QED
    BY <1>2, <1>3, <2>1, <2>2
    DEF Contract!RecordOutcome, Contract!Intent, Contract!Outcome, Intent, Outcome
<1>5. CASE ~AppendOwn(p)
  <2>1. PICK e \in Pending : log' = Append(log, Outcome(e.op))
    BY <1>1, <1>5
  <2>2. e.op \in Operations /\ InLog(Intent(e.op))
    BY DEF IInv, TypeOK, Entries, Pending, SpoolInv, OwnerAt, StageInv, StageAt
  <2> QED
    BY <1>4, <2>1, <2>2 DEF Contract!Next
<1>6. CASE AppendOwn(p)
  <2>1. log' = LogWithOwn(p) /\ p \in Operations /\ p \notin Events
    BY <1>6, ConstantsOK DEF LogWithOwn, Procs
  <2>2. CASE result[p] # "none"
    <3>1. log' = Append(log, Outcome(p)) /\ InLog(Intent(p))
      BY <2>1, <2>2 DEF LogWithOwn, OwnRecord, Stage, Outcome, IInv, StageInv, StageAt
    <3> QED
      BY <1>4, <2>1, <3>1 DEF Contract!Next
  <2>3. CASE result[p] = "none"
    <3>1. log' = Append(log, Intent(p))
      BY <2>1, <2>3 DEF LogWithOwn, OwnRecord, Stage, Intent
    <3>2. Recorded' = Recorded \cup {Intent(p)}
      BY <2>1, <3>1, RecordTypes, RecordedAppend DEF IInv, TypeOK
    <3>3. Told[p] = "none"
      BY <1>6, <2>1 DEF Told
    <3>4. Contract!RecordIntent(p)
      BY <1>2, <1>3, <3>2, <3>3 DEF Contract!RecordIntent, Contract!Intent, Intent
    <3> QED
      BY <2>1, <3>4 DEF Contract!Next
  <2> QED
    BY <2>2, <2>3
<1> QED
  BY <1>5, <1>6

LEMMA RefinementStep ==
  ASSUME IInv, [Next]_vars
  PROVE  [Contract!Next]_(Contract!vars)
<1> USE DEF Contract!Next, Contract!vars
<1>0. /\ TypeOK
      /\ \A q \in Operations : InLog(Intent(q)) => Contract!Intent(q) \in Recorded
      /\ \A q \in Operations : Logged(q) => Contract!Outcome(q) \in Recorded
  BY RecordedIsInLog DEF IInv, Logged, Intent, Outcome, Contract!Intent, Contract!Outcome
<1>1. ASSUME log' = log PROVE Recorded' = Recorded
  BY <1>1 DEF Recorded
<1>2. ASSUME NEW p \in Operations,
             AcquireFails(p) \/ Unlock(p) \/ UnlockFails(p)
      PROVE  [Contract!Next]_(Contract!vars)
  <2> USE ConstantsOK DEF Procs
  <2>0. TypeOK /\ StageAt(p) /\ KeptAt(p)
    BY DEF IInv, StageInv, PromiseInv
  <2>1. CASE AcquireFails(p)
    <3>1. PICK v \in {"refused", "lost"} :
            /\ verdict' = [verdict EXCEPT ![p] = v]
            /\ v = "refused" => result[p] = "none"
      BY <2>0, <2>1 DEF AcquireFails, StageAt
    <3>2. v \in Verdicts /\ (v = "refused" => p \notin touched)
      BY <2>0, <3>1 DEF Verdicts, StageAt
    <3> QED
      BY <2>1, <3>1, <3>2, Telling DEF AcquireFails
  <2>2. ASSUME NEW v \in Verdicts, pc[p] = "unlock", Leave(p, v),
               v = "refused" => result[p] = "none",
               v \in {"ok", "failed"} => Logged(p),
               v \in {"spooled", "behind"} => Logged(p) \/ Queued(p)
        PROVE  [Contract!Next]_(Contract!vars)
    <3>1. CASE v = "handle"
      <4>1. Told' = Told
        <5>1. \A q \in Operations :
                /\ pc[q] = "done" <=> pc'[q] = "done"
                /\ pc[q] = "done" => verdict'[q] = verdict[q]
          BY <2>0, <2>2, <3>1 DEF Leave, AfterUnlock, TypeOK
        <5> QED
          BY <5>1, ToldStays
      <4>2. Recorded' = Recorded /\ Kept' = Kept /\ touched' = touched
        BY <2>2 DEF Leave, Recorded, Kept, Queued
      <4> QED
        BY <4>1, <4>2
    <3>2. CASE v # "handle"
      <4>1. v = "refused" => p \notin touched
        BY <2>0, <2>2 DEF StageAt
      <4>2. /\ pc' = [pc EXCEPT ![p] = "done"]
            /\ verdict' = [verdict EXCEPT ![p] = v]
            /\ UNCHANGED <<log, spool, touched>>
        BY <2>2, <3>2 DEF Leave, AfterUnlock
      <4>3. Contract!Next
        BY <2>2, <4>1, <4>2, Telling
      <4> QED
        BY <4>3
    <3> QED
      BY <3>1, <3>2
  <2>3. CASE Unlock(p)
    <3>1. verdict[p] \in Verdicts
      BY <2>0 DEF TypeOK
    <3> QED
      BY <2>0, <2>2, <2>3, <3>1 DEF Unlock, StageAt, KeptAt
  <2>4. CASE UnlockFails(p)
    <3>1. PICK v \in {"refused", "lost"} :
            Leave(p, v) /\ (v = "refused" => verdict[p] = "handle")
      BY <2>4 DEF UnlockFails
    <3> QED
      BY <2>0, <2>2, <2>4, <3>1 DEF UnlockFails, StageAt, Verdicts
  <2> QED
    BY <1>2, <2>1, <2>3, <2>4
<1>3. ASSUME NEW p \in Operations, Operate(p)
      PROVE  [Contract!Next]_(Contract!vars)
  <2>1. Recorded' = Recorded /\ Kept' = Kept
    BY <1>1, <1>3 DEF Operate, Kept, Queued
  <2>0. Told' = Told
    BY <1>0, <1>3, ToldStays DEF Operate, TypeOK, Procs
  <2>2. Told[p] = "none" /\ Contract!Intent(p) \in Recorded
    BY <1>0, <1>3 DEF Operate, Told, IInv, StageInv, StageAt, Procs
  <2>3. touched' = touched \/ touched' = touched \cup {p}
    BY <1>3 DEF Operate
  <2> QED
    BY <2>0, <2>1, <2>2, <2>3 DEF Contract!Reach
<1>4. ASSUME NEW p \in Procs, Remove(p)
      PROVE  [Contract!Next]_(Contract!vars)
  <2>1. Recorded' = Recorded /\ touched' = touched
    BY <1>1, <1>4 DEF Remove
  <2>2. Told' = Told
    BY <1>0, <1>4, ToldStays DEF Remove, GiveUpReplay, TypeOK, Procs
  <2>3. PICK e \in Pending : IsFirst(e) /\ spool' = spool \ {e}
    BY <1>4 DEF Remove
  <2>4. PICK g \in Pending : IsFirst(g) /\ Logged(g.op)
    BY <1>4 DEF Remove, IInv, PromiseInv, ReplayedAt
  <2>5. e = g /\ e \in spool /\ e.op \in Operations
    BY <2>3, <2>4, OneFirst DEF IInv, TypeOK, Entries, Pending
  <2>6. Kept' = Kept \ {e.op}
    BY <2>3, <2>5 DEF Kept, Queued, IInv, SpoolInv, SpoolNames, Pending
  <2>7. Contract!Outcome(e.op) \in Recorded
    BY <1>0, <2>4, <2>5
  <2> QED
    BY <2>1, <2>2, <2>5, <2>6, <2>7 DEF Contract!Release
<1>5. ASSUME NEW p \in Operations, Rename(p)
      PROVE  [Contract!Next]_(Contract!vars)
  <2>1. Recorded' = Recorded /\ touched' = touched
    BY <1>1, <1>5 DEF Rename
  <2>2. Told' = Told
    BY <1>0, <1>5, ToldStays DEF Rename, TypeOK, Procs
  <2>3. PICK e \in spool :
          IsTemp(e, p) /\ spool' = (spool \ {e}) \cup {Marked(e, "pending")}
    BY <1>5 DEF Rename
  <2>4. Marked(e, "pending").op = p /\ Marked(e, "pending").mark = "pending"
    BY <2>3 DEF Marked, IsTemp
  <2>5. Kept' = Kept \cup {p}
    BY <2>3, <2>4 DEF Kept, Queued, IsTemp
  <2>6. Contract!Intent(p) \in Recorded
    BY <1>0, <1>5 DEF Rename, IInv, StageInv, StageAt
  <2> QED
    BY <2>1, <2>2, <2>5, <2>6 DEF Contract!Keep
<1>6. ASSUME log' = log,
             \A p \in Operations :
               ~AcquireFails(p) /\ ~Unlock(p) /\ ~UnlockFails(p) /\ ~Operate(p) /\ ~Rename(p),
             \A p \in Procs : ~Remove(p)
      PROVE  UNCHANGED Contract!vars
  <2>1. Recorded' = Recorded /\ Kept' = Kept
    BY <1>1, <1>6, KeptChanges
  <2>2. touched' = touched
    BY <1>6
    DEF Next, vars, Step, Replay, Acquire, AcquireFails, ReplayFails, ReplayCommitted,
        ReplayCommittedLate, ReplayIndeterminate, Quarantine, FileStays, ReplayDone,
        AppendOwn, AppendCommitted, AppendNotCommitted, AppendUncertain, WriteSpool,
        SpoolFails, Spool, RenameFails, Unlock, UnlockFails, Leave, Crash
  <2>3. Told' = Told
    <3> DEFINE Stay == \A q \in Operations :
                         /\ pc[q] = "done" <=> pc'[q] = "done"
                         /\ pc[q] = "done" => verdict'[q] = verdict[q]
    <3> USE <1>0, ConstantsOK DEF TypeOK, Procs
    <3>1. ASSUME UNCHANGED vars PROVE Stay
      BY <3>1 DEF vars
    <3>2. ASSUME NEW p \in Procs, Acquire(p) \/ AcquireFails(p) \/ Crash(p) PROVE Stay
      BY <1>6, <3>2 DEF Acquire, AcquireFails, Crash
    <3>3. ASSUME NEW p \in Procs, Replay(p) PROVE Stay
      BY <3>3
      DEF Replay, ReplayFails, GiveUpReplay, ReplayCommitted, ReplayCommittedLate,
          ReplayIndeterminate, Remove, Quarantine, FileStays, ReplayDone
    <3>4. ASSUME NEW p \in Procs, AppendOwn(p) PROVE Stay
      BY <3>4 DEF AppendOwn, AppendCommitted, AppendNotCommitted, AppendUncertain
    <3>5. ASSUME NEW p \in Operations, WriteSpool(p) \/ Operate(p) PROVE Stay
      BY <3>5 DEF WriteSpool, SpoolFails, Spool, Rename, RenameFails, Operate
    <3>6. ASSUME NEW p \in Procs, Unlock(p) \/ UnlockFails(p) PROVE Stay
      BY <1>6, <3>6 DEF Unlock, UnlockFails, Leave, AfterUnlock
    <3> HIDE DEF Stay
    <3>7. Stay
      BY <3>1, <3>2, <3>3, <3>4, <3>5, <3>6 DEF Next, Step
    <3> QED
      BY <3>7, ToldStays DEF Stay
  <2> QED
    BY <2>1, <2>2, <2>3
<1> QED
  BY <1>2, <1>3, <1>4, <1>5, <1>6, RecordingStep

(* The journal implements its contract: through any interleaving, replay,   *)
(* quarantine and crash, the callers' answers match what is recorded.       *)
THEOREM ImplementsContract == Spec => ContractSpec
<1>1. Init => Contract!Init
  BY ConstantsOK
  DEF Init, Contract!Init, Recorded, Kept, Queued, Told, Procs
<1>2. IInv /\ [Next]_vars => [Contract!Next]_(Contract!vars)
  BY RefinementStep
<1> QED
  BY <1>1, <1>2, Inductive, PTL DEF Spec, ContractSpec, Contract!Spec
=============================================================================
