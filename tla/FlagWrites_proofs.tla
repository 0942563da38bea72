-------------------------- MODULE FlagWrites_proofs --------------------------
(***************************************************************************)
(* FlagWrites implements FlagSet: for any number of commands, flags and    *)
(* other writers, on every backend, an edit of a flag set is atomic.       *)
(*                                                                         *)
(* IInv carries the proof: the revision that a plan holds is never ahead   *)
(* of the blob's, and while it is the blob's, the blob is what was read.   *)
(***************************************************************************)
EXTENDS FlagWrites, TLAPS

LEMMA SetsFacts ==
  /\ NoFlags \in Sets
  /\ Absent \notin Sets
  /\ \A b \in Sets \cup {Absent} : FlagsIn(b) \in Sets
BY ConstantsOK DEF NoFlags, Sets, FlagsIn

LEMMA EditIsSet ==
  ASSUME NEW r \in Requests, NEW f \in Sets
  PROVE  Edit(r, f) \in Sets
<1>1. r.local \in Sets
  BY DEF Requests
<1> QED BY <1>1 DEF Edit, Sets

LEMMA InitInv == Init => IInv
<1> SUFFICES ASSUME Init PROVE IInv
  OBVIOUS
<1>1. [Keys -> {Other, NoFlag}] \subseteq Sets
  BY DEF Sets
<1>2. blob \in Sets \cup {Absent} /\ rev \in Nat /\ PresentHasRevision
  BY <1>1 DEF Init, PresentHasRevision
<1>3. NoPlan \in Plans
  BY SetsFacts DEF NoPlan, Plans
<1>4. TypeOK
  BY <1>2, <1>3 DEF Init, TypeOK, Statuses
<1>5. ASSUME NEW p \in Commands
      PROVE  ~Planned(p) /\ StageAt(p)
  <2>1. Deletes(p) => request[p].keys = Keys /\ request[p].local = NoFlags
    BY DEF Init, Deletes, RequestsOf
  <2>2. /\ pc[p] = "start" /\ plan[p] = NoPlan /\ outcome[p] = "none"
        /\ p \notin committed
    BY DEF Init
  <2>3. ~plan[p].skip
    BY <2>2 DEF NoPlan
  <2> QED BY <2>1, <2>2, <2>3 DEF Planned, StageAt
<1> QED BY <1>2, <1>4, <1>5 DEF IInv

-----------------------------------------------------------------------------
(* What a step leaves of the invariant of a command that does not take it.  *)
(* The blob stays as it is or its revision grows.                           *)
Advances ==
  /\ backend' = backend
  /\ rev' \in Nat /\ rev' >= rev
  /\ rev' = rev => blob' = blob

Idle(p) ==
  /\ pc'[p] = pc[p] /\ request'[p] = request[p] /\ expected'[p] = expected[p]
  /\ plan'[p] = plan[p] /\ seen'[p] = seen[p] /\ outcome'[p] = outcome[p]
  /\ backups[p] \subseteq backups'[p]
  /\ p \in committed' <=> p \in committed

LEMMA IdleKeeps ==
  ASSUME IInv, Advances, NEW p \in Commands, Idle(p)
  PROVE  (Planned(p) => PlanAt(p))' /\ StageAt(p)'
<1>1. plan[p].revision \in Nat /\ rev \in Nat /\ seen[p] \in Nat /\ expected[p] \in Nat
  BY DEF IInv, TypeOK, Plans
<1>2. (Planned(p) => PlanAt(p))'
  BY <1>1 DEF IInv, Planned, PlanAt, Deletes, Idle, Advances
<1>3. StageAt(p)'
  <2>1. pc[p] \in {"write", "update"} => plan[p].revision <= rev
    BY DEF IInv, Planned, PlanAt
  <2>2. pc[p] \in {"write", "update"} => SavedAt(p)'
    BY <1>1, <2>1 DEF IInv, StageAt, SavedAt, Idle, Advances
  <2>3. pc[p] = "update" => seen[p] <= rev' /\ (seen[p] = rev' => Matches(p)')
    BY <1>1 DEF IInv, StageAt, Matches, Deletes, Idle, Advances
  <2>4. pc[p] = "plan" => expected[p] <= rev'
    BY <1>1 DEF IInv, StageAt, Advances
  <2> QED BY <2>2, <2>3, <2>4 DEF IInv, StageAt, Deletes, Idle
<1> QED BY <1>2, <1>3

(* A step of command q therefore has only q's own part to keep.             *)
LEMMA OwnPart ==
  ASSUME IInv, Advances, NEW q \in Commands,
         \A p \in Commands \ {q} : Idle(p),
         TypeOK', PresentHasRevision',
         (Planned(q) => PlanAt(q))', StageAt(q)'
  PROVE  IInv'
<1>1. ASSUME NEW p \in Commands
      PROVE  (Planned(p) => PlanAt(p))' /\ StageAt(p)'
  <2>1. CASE p = q
    BY <2>1
  <2>2. CASE p # q
    BY <2>2, IdleKeeps
  <2> QED BY <2>1, <2>2
<1> QED BY <1>1 DEF IInv

-----------------------------------------------------------------------------
(* The steps that leave the blob alone.                                     *)
LEMMA AskKeeps ==
  ASSUME IInv, NEW q \in Commands, Ask(q)
  PROVE  IInv'
<1>1. Advances /\ \A p \in Commands \ {q} : Idle(p)
  BY DEF IInv, TypeOK, Ask, store, Advances, Idle, Goto
<1>2. TypeOK' /\ PresentHasRevision'
  BY DEF IInv, TypeOK, PresentHasRevision, Ask, store, Goto
<1>3. (Planned(q) => PlanAt(q))' /\ StageAt(q)'
  BY DEF IInv, TypeOK, Ask, store, Goto, Planned, StageAt, Deletes
<1> QED BY <1>1, <1>2, <1>3, OwnPart

LEMMA PlanReadKeeps ==
  ASSUME IInv, NEW q \in Commands, PlanRead(q)
  PROVE  IInv'
<1> DEFINE r == request[q]
           next == Edit(r, FlagsIn(blob))
<1>1. Advances /\ \A p \in Commands \ {q} : Idle(p)
  BY DEF IInv, TypeOK, PlanRead, store, asked, Advances, Idle, Goto
<1>2. PICK s \in BOOLEAN :
        /\ MaySkip(s, blob, next)
        /\ plan' = [plan EXCEPT ![q] =
             [cur |-> blob, revision |-> PlannedRevision(q), next |-> next,
              skip |-> s, backup |-> NeedsBackup(q, FlagsIn(blob))]]
  BY DEF PlanRead
<1>3. /\ r \in Requests /\ blob \in Sets \cup {Absent} /\ FlagsIn(blob) \in Sets
      /\ rev \in Nat /\ expected[q] \in Nat /\ expected[q] <= rev
  BY SetsFacts DEF IInv, TypeOK, StageAt, PlanRead
<1>4. next \in Sets
  BY <1>3, EditIsSet
<1>5. PlannedRevision(q) \in Nat /\ PlannedRevision(q) <= rev
  BY <1>3 DEF PlannedRevision
<1>6. NeedsBackup(q, FlagsIn(blob)) \in BOOLEAN
  BY DEF NeedsBackup
<1> DEFINE e == [cur |-> blob, revision |-> PlannedRevision(q), next |-> next,
                 skip |-> s, backup |-> NeedsBackup(q, FlagsIn(blob))]
<1>7. e \in Plans
  BY <1>3, <1>4, <1>5, <1>6 DEF Plans
<1>8. plan'[q] = e /\ plan' \in [Commands -> Plans]
  BY <1>2, <1>7 DEF IInv, TypeOK
<1>9. /\ backend' = backend /\ blob' = blob /\ rev' = rev /\ backups' = backups
      /\ request' = request /\ expected' = expected /\ seen' = seen
      /\ committed' = committed /\ outcome' = outcome
      /\ pc[q] = "plan" /\ pc' = [pc EXCEPT ![q] = "gate"] /\ pc'[q] = "gate"
  BY DEF PlanRead, store, asked, Goto, IInv, TypeOK
<1>10. TypeOK' /\ PresentHasRevision'
  BY <1>8, <1>9 DEF IInv, TypeOK, PresentHasRevision
<1>11. PlanAt(q)'
  <2>1. PlannedRevision(q) = 0 => blob = Absent
    BY <1>3 DEF PlannedRevision, IInv, PresentHasRevision
  <2>2. Deletes(q) => next = NoFlags
    BY DEF IInv, StageAt, Edit, NoFlags, Deletes
  <2>3. blob = Absent /\ next = NoFlags => s
    BY <1>2 DEF MaySkip
  <2>4. ~NeedsBackup(q, FlagsIn(blob)) => FlagsIn(blob) = NoFlags
    BY DEF NeedsBackup
  <2>5. Fits(r, FlagsIn(blob))
    BY DEF PlanRead
  <2> HIDE DEF next
  <2>6. /\ e.cur = blob /\ e.revision = PlannedRevision(q) /\ e.next = next
        /\ e.skip = s /\ e.backup = NeedsBackup(q, FlagsIn(blob))
    OBVIOUS
  <2> HIDE DEF e
  <2>7. next = Edit(r, FlagsIn(blob))
    BY DEF next
  <2> QED
    BY <1>5, <1>8, <1>9, <2>1, <2>2, <2>3, <2>4, <2>5, <2>6, <2>7 DEF PlanAt, Deletes
<1>12. StageAt(q)'
  BY <1>9 DEF IInv, StageAt, Deletes
<1> QED BY <1>1, <1>10, <1>11, <1>12, OwnPart

(* The steps that move one command on and leave the rest as it was.         *)
LEMMA MoveKeeps ==
  ASSUME IInv, NEW q \in Commands,
         \/ Refuse(q) \/ Authorize(q) \/ Skip(q) \/ Succeed(q) \/ Fail(q)
         \/ Crash(q)
  PROVE  IInv'
<1>1. /\ backend' = backend /\ blob' = blob /\ rev' = rev /\ backups' = backups
      /\ request' = request /\ expected' = expected /\ seen' = seen
      /\ committed' = committed /\ plan' = plan
  BY DEF Refuse, Authorize, Skip, Succeed, Fail, Crash, store, asked
<1>2. PICK where \in {"apply", "done", "dead"} : pc' = [pc EXCEPT ![q] = where]
  BY DEF Refuse, Authorize, Skip, Succeed, Fail, Crash, Goto, End
<1>3. \/ outcome' = outcome /\ where # "done"
      \/ where = "done" /\ \E o \in Statuses : outcome' = [outcome EXCEPT ![q] = o]
  BY <1>2 DEF Refuse, Authorize, Skip, Succeed, Fail, Crash, Goto, End, Statuses, IInv,
     TypeOK
<1>4. Advances /\ \A p \in Commands \ {q} : Idle(p)
  BY <1>1, <1>2, <1>3 DEF IInv, TypeOK, Advances, Idle
<1>5. TypeOK' /\ PresentHasRevision'
  BY <1>1, <1>2, <1>3 DEF IInv, TypeOK, PresentHasRevision
<1>6. pc'[q] = where
  BY <1>2 DEF IInv, TypeOK
<1>7. where = "apply" => pc[q] = "gate"
  BY <1>2, <1>6 DEF Refuse, Authorize, Skip, Succeed, Fail, Crash, Goto, End, IInv,
     TypeOK
<1>8. (Planned(q) => PlanAt(q))'
  BY <1>1, <1>6, <1>7 DEF IInv, Planned, PlanAt, Deletes
<1>9. pc[q] # "done" /\ outcome[q] = "none"
  BY DEF Refuse, Authorize, Skip, Succeed, Fail, Crash, IInv, StageAt
<1>10. where # "done" => outcome'[q] = "none"
  BY <1>3, <1>9
<1>11. q \in committed => pc[q] \in {"answer", "dead"} /\ ~plan[q].skip
  BY <1>9 DEF IInv, StageAt
<1>12. StageAt(q)'
  BY <1>1, <1>6, <1>7, <1>10, <1>11 DEF IInv, StageAt, Deletes
<1> QED BY <1>4, <1>5, <1>8, <1>12, OwnPart

LEMMA BackUpKeeps ==
  ASSUME IInv, NEW q \in Commands, BackUp(q)
  PROVE  IInv'
<1>1. /\ backend' = backend /\ blob' = blob /\ rev' = rev
      /\ request' = request /\ expected' = expected /\ seen' = seen
      /\ committed' = committed /\ plan' = plan /\ outcome' = outcome
      /\ pc[q] = "apply" /\ ~plan[q].skip
      /\ pc' = [pc EXCEPT ![q] = "write"]
      /\ backups' = [backups EXCEPT ![q] = @ \cup ({blob} \ {Absent})]
  BY DEF BackUp, asked, Goto
<1>2. {blob} \ {Absent} \subseteq Sets
  BY DEF IInv, TypeOK
<1>3. /\ pc'[q] = "write"
      /\ backups'[q] = backups[q] \cup ({blob} \ {Absent})
      /\ backups' \in [Commands -> SUBSET Sets]
  BY <1>1, <1>2 DEF IInv, TypeOK
<1>4. Advances /\ \A p \in Commands \ {q} : Idle(p)
  BY <1>1 DEF IInv, TypeOK, Advances, Idle
<1>5. TypeOK' /\ PresentHasRevision'
  BY <1>1, <1>3 DEF IInv, TypeOK, PresentHasRevision
<1>6. (Planned(q) => PlanAt(q))'
  BY <1>1 DEF IInv, Planned, PlanAt, Deletes
<1>7. SavedAt(q)'
  BY <1>1, <1>3 DEF SavedAt
<1>8. StageAt(q)'
  BY <1>1, <1>3, <1>7 DEF IInv, StageAt, Deletes
<1> QED BY <1>4, <1>5, <1>6, <1>8, OwnPart

LEMMA InspectKeeps ==
  ASSUME IInv, NEW q \in Commands, Inspect(q)
  PROVE  IInv'
<1>1. /\ backend' = backend /\ blob' = blob /\ rev' = rev /\ backups' = backups
      /\ request' = request /\ expected' = expected
      /\ committed' = committed /\ plan' = plan /\ outcome' = outcome
      /\ pc' = [pc EXCEPT ![q] = "update"] /\ seen' = [seen EXCEPT ![q] = rev]
      /\ ReadyToWrite(q) /\ Matches(q)
  BY DEF Inspect, store, asked, Goto
<1>2. pc'[q] = "update" /\ seen'[q] = rev /\ rev \in Nat
  BY <1>1 DEF IInv, TypeOK
<1>3. Advances /\ \A p \in Commands \ {q} : Idle(p)
  BY <1>1, <1>2 DEF IInv, TypeOK, Advances, Idle
<1>4. TypeOK' /\ PresentHasRevision'
  BY <1>1, <1>2 DEF IInv, TypeOK, PresentHasRevision
<1>5. PlanAt(q) /\ ~plan[q].skip /\ pc[q] \in {"apply", "write"}
  BY <1>1 DEF IInv, Planned, ReadyToWrite
<1>6. PlanAt(q)'
  BY <1>1, <1>5 DEF PlanAt, Deletes
<1>7. SavedAt(q)
  <2>1. CASE plan[q].backup
    BY <1>1, <2>1 DEF IInv, StageAt, ReadyToWrite
  <2>2. CASE ~plan[q].backup
    <3>1. FlagsIn(plan[q].cur) = NoFlags
      BY <1>5, <2>2 DEF PlanAt
    <3> QED
      BY <1>5, <3>1 DEF PlanAt, SavedAt, IInv, PresentHasRevision, FlagsIn
  <2> QED BY <2>1, <2>2
<1>8. SavedAt(q)' /\ Matches(q)'
  BY <1>1, <1>7 DEF SavedAt, Matches, Deletes
<1>9. StageAt(q)'
  BY <1>1, <1>2, <1>5, <1>8 DEF IInv, StageAt, Deletes
<1> QED BY <1>3, <1>4, <1>6, <1>9, OwnPart

-----------------------------------------------------------------------------
(* The write itself: the blob is the one that was read, and it is saved.    *)
LEMMA WritesWhatItRead ==
  ASSUME IInv, NEW q \in Commands, WriteKey(q) \/ Update(q)
  PROVE  /\ Commit(q) /\ PlanAt(q) /\ ~plan[q].skip
         /\ pc[q] \in {"apply", "write", "update"}
         /\ plan[q].cur = blob
         /\ blob # Absent /\ blob # NoFlags => blob \in backups[q]
<1>1. Commit(q) /\ ~plan[q].skip /\ pc[q] \in {"apply", "write", "update"} /\ Matches(q)
  BY DEF WriteKey, Update, ReadyToWrite, IInv, StageAt
<1>2. PlanAt(q)
  BY <1>1 DEF IInv, Planned
<1>3. plan[q].revision \in Nat /\ rev \in Nat
  BY DEF IInv, TypeOK, Plans
<1>4. plan[q].cur = blob
  BY <1>1, <1>2, <1>3 DEF Matches, PlanAt, Deletes
<1>5. blob # Absent => rev = plan[q].revision
  BY <1>1, <1>2, <1>3 DEF Matches, PlanAt
<1>6. blob # Absent /\ blob # NoFlags => blob \in backups[q]
  <2>1. CASE pc[q] \in {"write", "update"}
    BY <1>5, <2>1 DEF IInv, StageAt, SavedAt
  <2>2. CASE pc[q] = "apply"
    <3>1. ~plan[q].backup
      BY <2>2 DEF WriteKey, Update, ReadyToWrite
    <3> QED BY <1>2, <1>4, <3>1 DEF PlanAt, FlagsIn
  <2> QED BY <1>1, <2>1, <2>2
<1> QED BY <1>1, <1>2, <1>4, <1>6

LEMMA WriteKeeps ==
  ASSUME IInv, NEW q \in Commands, WriteKey(q) \/ Update(q)
  PROVE  IInv'
<1>1. Commit(q) /\ ~plan[q].skip /\ PlanAt(q) /\ pc[q] \in {"apply", "write", "update"}
  BY WritesWhatItRead
<1>2. /\ backend' = backend /\ rev' = rev + 1 /\ backups' = backups
      /\ request' = request /\ expected' = expected /\ seen' = seen
      /\ committed' = committed \cup {q} /\ plan' = plan /\ outcome' = outcome
      /\ pc' = [pc EXCEPT ![q] = "answer"]
      /\ blob' = IF Deletes(q) THEN Absent ELSE plan[q].next
  BY <1>1 DEF Commit, asked, Goto
<1>3. rev \in Nat /\ plan[q] \in Plans /\ pc'[q] = "answer"
  BY <1>2 DEF IInv, TypeOK
<1>4. blob' \in Sets \cup {Absent}
  BY <1>2, <1>3 DEF Plans
<1>5. Advances /\ \A p \in Commands \ {q} : Idle(p)
  BY <1>2, <1>3 DEF IInv, TypeOK, Advances, Idle
<1>6. TypeOK' /\ PresentHasRevision'
  BY <1>2, <1>3, <1>4 DEF IInv, TypeOK, PresentHasRevision
<1>7. plan[q].revision \in Nat /\ plan[q].revision <= rev
  BY <1>1, <1>3 DEF PlanAt, Plans
<1>8. PlanAt(q)'
  BY <1>1, <1>2, <1>3, <1>7 DEF PlanAt, Deletes
<1>9. StageAt(q)'
  BY <1>1, <1>2, <1>3 DEF IInv, StageAt, Deletes
<1> QED BY <1>5, <1>6, <1>8, <1>9, OwnPart

LEMMA OtherWriteKeeps == IInv /\ OtherWrite => IInv'
<1> SUFFICES ASSUME IInv, OtherWrite PROVE IInv'
  OBVIOUS
<1>1. blob' \in Sets \cup {Absent}
  BY DEF OtherWrite, IInv, TypeOK, Sets
<1>2. rev \in Nat /\ rev' = rev + 1
  BY DEF OtherWrite, IInv, TypeOK
<1>3. Advances /\ \A p \in Commands : Idle(p)
  BY <1>2 DEF OtherWrite, asked, Advances, Idle
<1>4. TypeOK' /\ PresentHasRevision'
  BY <1>1, <1>2 DEF OtherWrite, asked, IInv, TypeOK, PresentHasRevision
<1> QED BY <1>3, <1>4, IdleKeeps DEF IInv

LEMMA StepKeeps == IInv /\ [Next]_vars => IInv'
<1> SUFFICES ASSUME IInv, [Next]_vars PROVE IInv'
  OBVIOUS
<1>1. ASSUME NEW q \in Commands, Planning(q) \/ Applying(q) \/ Crash(q)
      PROVE  IInv'
  BY <1>1, AskKeeps, PlanReadKeeps, MoveKeeps, BackUpKeeps, InspectKeeps,
     WriteKeeps DEF Planning, Applying
<1>2. CASE UNCHANGED vars
  <2>1. Advances /\ \A p \in Commands : Idle(p)
    BY <1>2 DEF vars, Advances, Idle, IInv, TypeOK
  <2>2. TypeOK' /\ PresentHasRevision'
    BY <1>2 DEF vars, IInv, TypeOK, PresentHasRevision
  <2> QED BY <2>1, <2>2, IdleKeeps DEF IInv
<1> QED BY <1>1, <1>2, OtherWriteKeeps DEF Next

(* The inductive invariant holds.                                           *)
THEOREM Inductive == Spec => []IInv
BY InitInv, StepKeeps, PTL DEF Spec

-----------------------------------------------------------------------------
(* The refinement.  A step of a command is a step of FlagSet or none.       *)
LEMMA InitMaps == Init => FS!Init
<1> SUFFICES ASSUME Init PROVE FS!Init
  OBVIOUS
<1>1. Matched = {}
  BY DEF Init, Matched, NoPlan
<1> QED BY <1>1 DEF Init, FS!Init

LEMMA SameSet ==
  /\ \A r, flags : FS!Edit(r, flags) = Edit(r, flags)
  /\ FS!Empty = NoFlags
  /\ \A r \in Requests : \A flags : Fits(r, flags) => FS!Fits(r, flags)
BY DEF FS!Edit, Edit, FS!Empty, NoFlags, FS!Fits, Fits, Requests, Verbs

LEMMA ReadMaps ==
  ASSUME IInv, NEW q \in Commands, PlanRead(q)
  PROVE  [FS!Next]_(FS!vars)
<1> DEFINE r == request[q]
           flags == FlagsIn(blob)
           next == Edit(r, flags)
<1>1. PICK s \in BOOLEAN :
        /\ MaySkip(s, blob, next)
        /\ plan' = [plan EXCEPT ![q] =
             [cur |-> blob, revision |-> PlannedRevision(q), next |-> next,
              skip |-> s, backup |-> NeedsBackup(q, flags)]]
  BY DEF PlanRead
<1>2. /\ blob' = blob /\ request' = request /\ committed' = committed
      /\ backups' = backups /\ outcome' = outcome
      /\ Fits(r, flags) /\ r \in Requests /\ ~plan[q].skip
  BY DEF PlanRead, store, asked, Goto, IInv, TypeOK, StageAt
<1>3. plan'[q].skip = s /\ \A p \in Commands \ {q} : plan'[p] = plan[p]
  BY <1>1 DEF IInv, TypeOK
<1>4. Matched' = IF s THEN Matched \cup {q} ELSE Matched
  BY <1>2, <1>3 DEF Matched
<1>5. CASE ~s
  BY <1>2, <1>4, <1>5 DEF FS!vars
<1>6. CASE s
  <2>1. next = flags
    BY <1>1, <1>6 DEF MaySkip, FlagsIn
  <2>2. FS!Fits(r, flags) /\ FS!Edit(r, flags) = flags
    BY <1>2, <2>1, SameSet
  <2>3. FS!Match(q)
    BY <1>2, <1>4, <1>6, <2>2 DEF FS!Match
  <2> QED BY <2>3 DEF FS!Next
<1> QED BY <1>5, <1>6

(* What a command says when it ends is so.                                  *)
LEMMA TellMaps ==
  ASSUME IInv, NEW q \in Commands, Refuse(q) \/ Skip(q) \/ Succeed(q) \/ Fail(q)
  PROVE  FS!Next
<1>1. /\ blob' = blob /\ request' = request /\ committed' = committed
      /\ backups' = backups /\ plan' = plan /\ outcome[q] = "none"
  BY DEF Refuse, Skip, Succeed, Fail, store, asked, IInv, StageAt
<1>2. Matched' = Matched
  BY <1>1 DEF Matched
<1>3. \/ outcome' = [outcome EXCEPT ![q] = "refused"] /\ q \notin committed
      \/ outcome' = [outcome EXCEPT ![q] = "skipped"] /\ q \in Matched \ committed
      \/ outcome' = [outcome EXCEPT ![q] = "success"] /\ q \in committed
      \/ outcome' = [outcome EXCEPT ![q] = "failed"]
  BY DEF Refuse, Skip, Succeed, Fail, End, IInv, StageAt, Matched
<1>4. FS!Tell(q)
  BY <1>1, <1>2, <1>3 DEF FS!Tell
<1> QED BY <1>4 DEF FS!Next

LEMMA BackUpMaps ==
  ASSUME IInv, NEW q \in Commands, BackUp(q)
  PROVE  [FS!Next]_(FS!vars)
<1>1. /\ blob' = blob /\ request' = request /\ committed' = committed
      /\ plan' = plan /\ outcome' = outcome
      /\ backups' = [backups EXCEPT ![q] = @ \cup ({blob} \ {Absent})]
  BY DEF BackUp, asked
<1>2. Matched' = Matched
  BY <1>1 DEF Matched
<1>3. CASE blob = Absent
  <2>1. backups' = backups
    BY <1>1, <1>3 DEF IInv, TypeOK
  <2> QED BY <1>1, <1>2, <2>1 DEF FS!vars
<1>4. CASE blob # Absent
  <2>1. backups' = [backups EXCEPT ![q] = @ \cup {FlagsIn(blob)}]
    BY <1>1, <1>4 DEF FlagsIn
  <2>2. FS!Keep(q)
    BY <1>1, <1>2, <2>1 DEF FS!Keep
  <2> QED BY <2>2 DEF FS!Next
<1> QED BY <1>3, <1>4

LEMMA WriteMaps ==
  ASSUME IInv, NEW q \in Commands, WriteKey(q) \/ Update(q)
  PROVE  FS!Next
<1>1. /\ Commit(q) /\ PlanAt(q) /\ plan[q].cur = blob
      /\ pc[q] \in {"apply", "write", "update"}
      /\ blob # Absent /\ blob # NoFlags => blob \in backups[q]
  BY WritesWhatItRead
<1>2. /\ request' = request /\ backups' = backups /\ plan' = plan
      /\ outcome' = outcome /\ committed' = committed \cup {q}
      /\ blob' = IF Deletes(q) THEN Absent ELSE plan[q].next
  BY <1>1 DEF Commit, asked
<1>3. outcome[q] = "none" /\ q \notin committed
  BY <1>1 DEF IInv, StageAt
<1>4. FS!Fits(request[q], FlagsIn(blob))
  <2>1. request[q] \in Requests /\ Fits(request[q], FlagsIn(blob))
    BY <1>1 DEF PlanAt, IInv, TypeOK
  <2> QED BY <2>1, SameSet
<1>5. FlagsIn(blob)' = FS!Edit(request[q], FlagsIn(blob))
  <2>1. plan[q].next = Edit(request[q], FlagsIn(blob))
    BY <1>1 DEF PlanAt
  <2>2. Edit(request[q], FlagsIn(blob)) \in Sets
    <3>1. request[q] \in Requests /\ FlagsIn(blob) \in Sets
      BY SetsFacts DEF IInv, TypeOK
    <3> QED BY <3>1, EditIsSet
  <2>3. CASE Deletes(q)
    <3>1. FlagsIn(blob)' = NoFlags
      BY <1>2, <2>3 DEF FlagsIn
    <3>2. Edit(request[q], FlagsIn(blob)) = NoFlags
      BY <2>3 DEF IInv, StageAt, Edit, NoFlags
    <3> QED BY <3>1, <3>2, SameSet
  <2>4. CASE ~Deletes(q)
    <3>1. FlagsIn(blob)' = plan[q].next
      BY <1>2, <2>1, <2>2, <2>4, SetsFacts DEF FlagsIn
    <3> QED BY <2>1, <3>1, SameSet
  <2> QED BY <2>3, <2>4
<1>6. FlagsIn(blob) # FS!Empty => FlagsIn(blob) \in backups[q]
  BY <1>1, SameSet DEF FlagsIn
<1>7. Matched' = Matched
  BY <1>2 DEF Matched
<1>8. FS!Change(q)
  BY <1>2, <1>3, <1>4, <1>5, <1>6, <1>7 DEF FS!Change
<1> QED BY <1>8 DEF FS!Next

LEMMA StepMaps == IInv /\ [Next]_vars => [FS!Next]_(FS!vars)
<1> SUFFICES ASSUME IInv, [Next]_vars PROVE [FS!Next]_(FS!vars)
  OBVIOUS
<1>1. ASSUME NEW q \in Commands, Ask(q) \/ Authorize(q) \/ Inspect(q) \/ Crash(q)
      PROVE  UNCHANGED FS!vars
  <2>1. /\ blob' = blob /\ request' = request /\ committed' = committed
        /\ plan' = plan /\ outcome' = outcome /\ backups' = backups
    BY <1>1 DEF Ask, Authorize, Inspect, Crash, store, asked
  <2> QED BY <2>1 DEF FS!vars, Matched
<1>2. ASSUME NEW q \in Commands, Planning(q) \/ Applying(q) \/ Crash(q)
      PROVE  [FS!Next]_(FS!vars)
  BY <1>1, <1>2, ReadMaps, TellMaps, BackUpMaps, WriteMaps DEF Planning, Applying
<1>3. CASE OtherWrite
  <2>1. /\ request' = request /\ committed' = committed
        /\ plan' = plan /\ outcome' = outcome /\ backups' = backups
    BY <1>3 DEF OtherWrite, asked
  <2>2. FS!Others
    BY <2>1 DEF FS!Others, Matched
  <2> QED BY <2>2 DEF FS!Next
<1>4. CASE UNCHANGED vars
  BY <1>4 DEF vars, FS!vars, Matched
<1> QED BY <1>2, <1>3, <1>4 DEF Next

(* AtomicEdits holds: FlagWrites implements FlagSet, whatever the backend,  *)
(* the commands, the flags and the other writers (cmd/flag_write.go:400).   *)
THEOREM EditsAreAtomic == Spec => AtomicEdits
BY InitMaps, StepMaps, Inductive, PTL DEF Spec, AtomicEdits, FS!Spec
=============================================================================
