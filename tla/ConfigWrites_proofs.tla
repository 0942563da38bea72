------------------------- MODULE ConfigWrites_proofs -------------------------
(* Proofs about ConfigWrites for any commands, keys and contents, for any   *)
(* placement of keys in objects and whatever other writers do.              *)
EXTENDS ConfigWrites, FiniteSetTheorems, FunctionTheorems, TLAPS

-----------------------------------------------------------------------------
(* What the helpers return.                                                 *)

LEMMA ContentFacts ==
  /\ Absent \notin Contents /\ NoLocal \notin Contents /\ Unread \notin Contents
  /\ Absent # NoLocal
<1>1. Cardinality({Absent, Unread}) <= 2
  <2>1. IsFiniteSet({Unread}) /\ Cardinality({Unread}) = 1
    BY FS_Singleton
  <2>2. {Absent, Unread} = {Unread} \cup {Absent}
    OBVIOUS
  <2> QED
    BY <2>1, <2>2, FS_AddElement
<1>2. Absent # NoLocal
  <2> SUFFICES ASSUME Absent = NoLocal PROVE FALSE
    OBVIOUS
  <2>1. {Absent, NoLocal, Unread} = {Absent, Unread}
    OBVIOUS
  <2> QED
    BY <1>1, <2>1, ConstantsOK
<1> QED
  BY <1>2, ConstantsOK

(* A key has an object and a revision.                                      *)
LEMMA RevFacts ==
  ASSUME TypeOK, NEW k \in Keys
  PROVE  /\ Obj(k) \in Objects
         /\ Rev(k) \in Nat
         /\ blob[k] \in Blobs
         /\ k \in Nat
BY ConstantsOK DEF TypeOK, Objects, Rev, Obj

LEMMA EntryFacts ==
  ASSUME TypeOK, NEW p \in Commands, NEW e \in plan[p]
  PROVE  /\ e \in Entries
         /\ e.key \in Keys /\ e.revision \in Nat /\ e.next \in Blobs
         /\ Rev(e.key) \in Nat
         /\ e.kind \in {"create", "update", "put", "delete", "skip"}
BY RevFacts DEF TypeOK, Entries

(* A command works at one entry at a time: of two entries left, one comes   *)
(* before the other.                                                        *)
LEMMA CurrentIsUnique ==
  ASSUME TypeOK, NEW p \in Commands, PlanAt(p), NEW e, NEW f, Current(p, e), Current(p, f)
  PROVE  e = f
<1>1. e \in plan[p] /\ f \in plan[p] /\ ~Before(e, f) /\ ~Before(f, e)
  BY DEF Current, Todo
<1>2. e.key \in Nat /\ f.key \in Nat
  BY <1>1, EntryFacts, RevFacts
<1>3. e.key = f.key
  BY <1>1, <1>2 DEF Before
<1> QED
  BY <1>1, <1>3 DEF PlanAt

(* An outcome has the type of an outcome.                                   *)
LEMMA TallyIsOutcome ==
  ASSUME TypeOK, NEW p \in Commands, NEW failed \in Int
  PROVE  Tally(p, failed) \in Outcomes
<1>1. IsFiniteSet(plan[p]) /\ succeeded[p] \in Int
  BY DEF TypeOK
<1>2. IsFiniteSet({e \in plan[p] : e.kind = "skip"}) /\ IsFiniteSet(Todo(p))
  BY <1>1, FS_Subset DEF Todo
<1>3. /\ Cardinality({e \in plan[p] : e.kind = "skip"}) \in Int
      /\ Cardinality(Todo(p)) \in Int
  BY <1>2, FS_CardinalityType
<1> QED
  BY <1>1, <1>3 DEF Tally, Outcomes, Statuses

LEMMA NoOutcomeIsOutcome ==
  ASSUME NEW status \in {"none", "refused", "unchanged"}
  PROVE  NoOutcome(status) \in Outcomes
BY DEF NoOutcome, Outcomes, Statuses

-----------------------------------------------------------------------------
(* The types, one lemma for each kind of step.  That a key to plan has a    *)
(* local content is part of the invariant.                                  *)

(* What asking does, once for the four of them.                             *)
LEMMA AskSteps ==
  ASSUME TypeOK, NEW p \in Commands, AskAny(p)
  PROVE  \E r \in Requests :
           /\ Ask(p, r)
           /\ request' = [request EXCEPT ![p] = r]
           /\ left'[p] = {k \in Keys : r.local[k] # NoLocal}
           /\ pc[p] = "start" /\ pc'[p] = "plan"
           /\ r.scope # {} => r.verb \in Batches
           /\ r.verb = "rollback" => r.expected = 0
           /\ \A k \in left'[p] : r.verb # "delete" /\ r.expected <= Rev(k)
           /\ \/ plan' = plan
              \/ \E e \in Entries :
                   /\ plan' = [plan EXCEPT ![p] = {e}]
                   /\ r.verb = "delete" /\ e.kind = "delete"
                   /\ e.revision <= Rev(e.key)
<1> DEFINE Asked(r) ==
      /\ Ask(p, r)
      /\ request' = [request EXCEPT ![p] = r]
      /\ left'[p] = {k \in Keys : r.local[k] # NoLocal}
      /\ pc[p] = "start" /\ pc'[p] = "plan"
      /\ r.scope # {} => r.verb \in Batches
      /\ r.verb = "rollback" => r.expected = 0
      /\ \A k \in left'[p] : r.verb # "delete" /\ r.expected <= Rev(k)
      /\ \/ plan' = plan
         \/ \E e \in Entries :
              /\ plan' = [plan EXCEPT ![p] = {e}]
              /\ r.verb = "delete" /\ e.kind = "delete"
              /\ e.revision <= Rev(e.key)
<1>0. /\ NoLocals \in [Keys -> Contents \cup {NoLocal}]
      /\ \A k \in Keys, c \in Contents :
           [NoLocals EXCEPT ![k] = c] \in [Keys -> Contents \cup {NoLocal}]
      /\ \A k \in Keys : Rev(k) \in Nat
  BY RevFacts DEF NoLocals
<1>1. ASSUME NEW r, Ask(p, r)
      PROVE  /\ request' = [request EXCEPT ![p] = r]
             /\ left'[p] = {k \in Keys : r.local[k] # NoLocal}
             /\ pc[p] = "start" /\ pc'[p] = "plan"
  BY <1>1 DEF Ask, TypeOK
<1>2. CASE AskPush(p)
  <2>1. PICK k \in Keys, c \in Contents, m \in {"any", "create", "update"}, b \in BOOLEAN :
          \E n \in 0..Rev(k) :
            /\ Ask(p, [verb |-> "push", mode |-> m, local |-> [NoLocals EXCEPT ![k] = c],
                       expected |-> n, scope |-> {}, backup |-> b])
            /\ UNCHANGED plan
    BY <1>2 DEF AskPush
  <2>2. PICK n \in 0..Rev(k) :
            /\ Ask(p, [verb |-> "push", mode |-> m, local |-> [NoLocals EXCEPT ![k] = c],
                       expected |-> n, scope |-> {}, backup |-> b])
            /\ UNCHANGED plan
    BY <2>1
  <2> DEFINE r == [verb |-> "push", mode |-> m, local |-> [NoLocals EXCEPT ![k] = c],
                   expected |-> n, scope |-> {}, backup |-> b]
  <2>3. r \in Requests
    BY <1>0 DEF Requests
  <2>4. \A j \in Keys : r.local[j] # NoLocal => j = k
    BY DEF NoLocals
  <2>5. n <= Rev(k)
    BY <1>0
  <2> QED
    BY <2>2, <2>3, <2>4, <2>5, <1>1
<1>3. CASE AskDelete(p)
  <2>1. PICK k \in Keys, b \in BOOLEAN : \E n \in 0..Rev(k) :
          /\ Ask(p, [verb |-> "delete", mode |-> "any", local |-> NoLocals,
                     expected |-> n, scope |-> {}, backup |-> b])
          /\ plan' = [plan EXCEPT ![p] =
               {[key |-> k, cur |-> Unread, revision |-> n, next |-> Absent,
                 kind |-> "delete"]}]
    BY <1>3 DEF AskDelete
  <2>2. PICK n \in 0..Rev(k) :
          /\ Ask(p, [verb |-> "delete", mode |-> "any", local |-> NoLocals,
                     expected |-> n, scope |-> {}, backup |-> b])
          /\ plan' = [plan EXCEPT ![p] =
               {[key |-> k, cur |-> Unread, revision |-> n, next |-> Absent,
                 kind |-> "delete"]}]
    BY <2>1
  <2> DEFINE r == [verb |-> "delete", mode |-> "any", local |-> NoLocals,
                   expected |-> n, scope |-> {}, backup |-> b]
             e == [key |-> k, cur |-> Unread, revision |-> n, next |-> Absent,
                   kind |-> "delete"]
  <2>3. r \in Requests /\ e \in Entries /\ n <= Rev(k)
    BY <1>0 DEF Requests, Entries, Blobs
  <2>4. {j \in Keys : r.local[j] # NoLocal} = {}
    BY DEF NoLocals
  <2>5. \E f \in Entries : /\ plan' = [plan EXCEPT ![p] = {f}]
                            /\ f.kind = "delete" /\ f.revision <= Rev(f.key)
    <3>1. plan' = [plan EXCEPT ![p] = {e}] /\ e.kind = "delete" /\ e.revision <= Rev(e.key)
      BY <2>2, <2>3
    <3> QED
      BY <2>3, <3>1
  <2>6. Ask(p, r) /\ r.verb = "delete" /\ r.scope = {}
    BY <2>2
  <2> HIDE DEF r, e
  <2>7. Asked(r)
    BY <2>4, <2>5, <2>6, <1>1
  <2> QED
    BY <2>3, <2>7
<1>4. CASE AskBatch(p)
  <2>1. PICK v \in Batches, m \in {"any", "skip", "overwrite"}, b \in BOOLEAN,
             local \in [Keys -> Contents \cup {NoLocal}], S \in SUBSET Keys :
          /\ Ask(p, [verb |-> v, mode |-> m, local |-> local, expected |-> 0,
                     scope |-> S, backup |-> b])
          /\ UNCHANGED plan
    BY <1>4 DEF AskBatch
  <2> DEFINE r == [verb |-> v, mode |-> m, local |-> local, expected |-> 0,
                   scope |-> S, backup |-> b]
  <2>2. r \in Requests /\ r.verb # "delete"
    BY DEF Requests, Batches
  <2>3. \A k \in Keys : 0 <= Rev(k)
    BY <1>0
  <2> QED
    BY <2>1, <2>2, <2>3, <1>1
<1>5. CASE AskRollback(p)
  <2>1. PICK k \in Keys, c \in Contents, b \in BOOLEAN :
          /\ Ask(p, [verb |-> "rollback", mode |-> "any", expected |-> 0, scope |-> {},
                     local |-> [NoLocals EXCEPT ![k] = c], backup |-> b])
          /\ UNCHANGED plan
    BY <1>5 DEF AskRollback
  <2> DEFINE r == [verb |-> "rollback", mode |-> "any", expected |-> 0, scope |-> {},
                   local |-> [NoLocals EXCEPT ![k] = c], backup |-> b]
  <2>2. r \in Requests
    BY <1>0 DEF Requests
  <2>3. \A j \in Keys : 0 <= Rev(j)
    BY <1>0
  <2> QED
    BY <2>1, <2>2, <2>3, <1>1
<1> QED
  BY <1>2, <1>3, <1>4, <1>5 DEF AskAny

LEMMA AskKeepsTypes ==
  ASSUME TypeOK, NEW p \in Commands, AskAny(p)
  PROVE  TypeOK'
<1>1. PICK r \in Requests :
        /\ Ask(p, r)
        /\ request' = [request EXCEPT ![p] = r]
        /\ plan' = plan \/ \E e \in Entries : plan' = [plan EXCEPT ![p] = {e}]
  BY AskSteps
<1>2. plan' \in [Commands -> SUBSET Entries] /\ \A q \in Commands : IsFiniteSet(plan'[q])
  <2>1. CASE plan' = plan
    BY <2>1 DEF TypeOK
  <2>2. ASSUME NEW e \in Entries, plan' = [plan EXCEPT ![p] = {e}]
        PROVE  plan' \in [Commands -> SUBSET Entries] /\ \A q \in Commands : IsFiniteSet(plan'[q])
    BY <2>2, FS_Singleton DEF TypeOK
  <2> QED
    BY <1>1, <2>1, <2>2
<1>3. left' \in [Commands -> SUBSET Keys]
  BY <1>1 DEF Ask, TypeOK
<1> QED
  BY <1>1, <1>2, <1>3 DEF Ask, TypeOK, store, history

LEMMA PlanningKeepsTypes ==
  ASSUME TypeOK, NEW p \in Commands, RequestAt(p), Planning(p)
  PROVE  TypeOK'
<1>0. request[p] \in Requests
  BY DEF TypeOK
<1>1. CASE PlanRead(p)
  <2>1. PICK k \in left[p] :
          /\ plan' = [plan EXCEPT ![p] = @ \cup
               {[key |-> k, cur |-> blob[k], revision |-> PlannedRevision(p, k),
                 next |-> request[p].local[k], kind |-> Kind(p, k)]}]
          /\ left' = [left EXCEPT ![p] = @ \ {k}]
    BY <1>1 DEF PlanRead
  <2>2. k \in Keys
    BY DEF TypeOK
  <2>3. request[p].local[k] \in Contents
    BY <1>0, <1>1, <2>1, <2>2 DEF RequestAt, PlanRead, Requests
  <2>4. PlannedRevision(p, k) \in Nat
    BY <1>0, <2>2, RevFacts DEF PlannedRevision, Requests
  <2>5. Kind(p, k) \in {"create", "update", "put", "delete", "skip"}
    BY DEF Kind
  <2>6. [key |-> k, cur |-> blob[k], revision |-> PlannedRevision(p, k),
         next |-> request[p].local[k], kind |-> Kind(p, k)] \in Entries
    BY <2>2, <2>3, <2>4, <2>5, RevFacts DEF Entries, Blobs
  <2>7. plan' \in [Commands -> SUBSET Entries] /\ \A q \in Commands : IsFiniteSet(plan'[q])
    <3>1. PICK e \in Entries : plan' = [plan EXCEPT ![p] = @ \cup {e}]
      BY <2>1, <2>6
    <3>2. IsFiniteSet(plan[p] \cup {e})
      BY FS_AddElement DEF TypeOK
    <3> QED
      BY <3>1, <3>2 DEF TypeOK
  <2>8. left' \in [Commands -> SUBSET Keys]
    BY <2>1 DEF TypeOK
  <2> QED
    BY <1>1, <2>7, <2>8 DEF PlanRead, TypeOK, store, history
<1>2. CASE PlanPrune(p)
  <2> DEFINE pruned(k) == [key |-> k, cur |-> blob[k], revision |-> Rev(k),
                           next |-> Absent, kind |-> "delete"]
             f == [k \in Prunable(p) |-> pruned(k)]
             S == {pruned(k) : k \in Prunable(p)}
  <2>1. Prunable(p) \subseteq Keys
    BY <1>0 DEF Prunable, Requests
  <2>2. S \subseteq Entries
    BY <2>1, RevFacts DEF Entries, Blobs
  <2>3. IsFiniteSet(S)
    <3>1. IsFiniteSet(Prunable(p))
      BY <2>1, FS_Subset, ConstantsOK
    <3>2. f \in [Prunable(p) -> S] /\ \A s \in S : \E k \in Prunable(p) : f[k] = s
      OBVIOUS
    <3>3. f \in Surjection(Prunable(p), S)
      BY <3>2, Fun_IsSurj
    <3> QED
      BY <3>1, <3>3, FS_Surjection
  <2>4. plan' = [plan EXCEPT ![p] = @ \cup S]
    BY <1>2 DEF PlanPrune
  <2> HIDE DEF S
  <2>5. plan' \in [Commands -> SUBSET Entries]
    BY <2>2, <2>4 DEF TypeOK
  <2>6. \A q \in Commands : IsFiniteSet(plan'[q])
    BY <2>3, <2>4, FS_Union DEF TypeOK
  <2> QED
    BY <1>2, <2>5, <2>6 DEF PlanPrune, TypeOK, store, history
<1>3. CASE PlanFails(p)
  BY <1>3, NoOutcomeIsOutcome DEF PlanFails, TypeOK, store, history
<1>4. CASE Authorize(p)
  <2>1. {e.key : e \in Todo(p)} \subseteq Keys
    BY EntryFacts DEF Todo
  <2>2. left' \in [Commands -> SUBSET Keys] /\ outcome' \in [Commands -> Outcomes]
    BY <1>4, <2>1, NoOutcomeIsOutcome DEF Authorize, TypeOK
  <2> QED
    BY <1>4, <2>2 DEF Authorize, TypeOK, store, history
<1> QED
  BY <1>1, <1>2, <1>3, <1>4 DEF Planning

(* What Commit does to the backend.                                         *)
LEMMA CommitKeepsTypes ==
  ASSUME TypeOK, NEW p \in Commands, NEW e \in plan[p], Commit(p, e)
  PROVE  TypeOK'
<1>1. e.key \in Keys /\ e.next \in Blobs /\ Obj(e.key) \in Objects
  BY EntryFacts, RevFacts
<1>2. blob' \in [Keys -> Blobs] /\ rev' \in [Objects -> Nat]
  BY <1>1 DEF Commit, TypeOK
<1>3. committed' \in [Commands -> SUBSET Keys] /\ disturbed' \in [Commands -> BOOLEAN]
  BY <1>1 DEF Commit, TypeOK, DisturbedBy
<1> QED
  BY <1>2, <1>3 DEF Commit, TypeOK

LEMMA ApplyingKeepsTypes ==
  ASSUME TypeOK, NEW p \in Commands, Applying(p)
  PROVE  TypeOK'
<1>1. CASE BackUp(p)
  <2>1. PICK e \in plan[p] : backups' = backups \cup
          IF blob[e.key] = Absent THEN {}
          ELSE {[by |-> p, key |-> e.key, content |-> blob[e.key]]}
    BY <1>1 DEF BackUp
  <2>2. e.key \in Keys /\ (blob[e.key] # Absent => blob[e.key] \in Contents)
    BY EntryFacts, RevFacts DEF Blobs
  <2>3. backups' \subseteq Backups
    BY <2>1, <2>2 DEF TypeOK, Backups
  <2> QED
    BY <1>1, <2>3 DEF BackUp, TypeOK, history
<1>2. CASE WriteKey(p)
  BY <1>2, CommitKeepsTypes DEF WriteKey
<1>3. CASE Inspect(p)
  <2>1. seen' \in [Commands -> Nat]
    BY <1>3, EntryFacts DEF Inspect, TypeOK
  <2> QED
    BY <1>3, <2>1 DEF Inspect, TypeOK, store, history
<1>4. CASE Update(p)
  BY <1>4, CommitKeepsTypes DEF Update
<1>5. CASE Answered(p)
  <2>1. left' \in [Commands -> SUBSET Keys] /\ succeeded' \in [Commands -> Nat]
    BY <1>5 DEF Answered, TypeOK
  <2> QED
    BY <1>5, <2>1 DEF Answered, TypeOK, store, history
<1>6. ASSUME NEW failed \in Int, End(p, failed), refused' \in [Commands -> BOOLEAN]
      PROVE  TypeOK'
  BY <1>6, TallyIsOutcome DEF End, TypeOK, store
<1>7. CASE Refuse(p)
  BY <1>7, <1>6 DEF Refuse, TypeOK
<1>8. CASE Fail(p) \/ Succeed(p)
  BY <1>8, <1>6 DEF Fail, Succeed, TypeOK
<1> QED
  BY <1>1, <1>2, <1>3, <1>4, <1>5, <1>7, <1>8 DEF Applying

LEMMA OtherWriteKeepsTypes ==
  ASSUME TypeOK, NEW k \in Keys, OtherWrite(k)
  PROVE  TypeOK'
<1>1. blob' \in [Keys -> Blobs] /\ rev' \in [Objects -> Nat]
  BY RevFacts DEF OtherWrite, TypeOK
<1>2. disturbed' \in [Commands -> BOOLEAN]
  BY DEF OtherWrite, TypeOK
<1> QED
  BY <1>1, <1>2 DEF OtherWrite, TypeOK

LEMMA TypeCorrectAtInit == Init => TypeOK
<1> SUFFICES ASSUME Init PROVE TypeOK
  OBVIOUS
<1>1. [verb |-> "import", mode |-> "any", local |-> NoLocals,
       expected |-> 0, scope |-> {}, backup |-> FALSE] \in Requests
  BY DEF Requests, NoLocals, Batches
<1>2. NoOutcome("none") \in Outcomes
  BY NoOutcomeIsOutcome
<1>3. IsFiniteSet({})
  BY FS_EmptySet
<1> QED
  BY <1>1, <1>2, <1>3 DEF Init, TypeOK, Blobs

LEMMA TypesAreKept == TypeOK /\ CommandInv /\ [Next]_vars => TypeOK'
<1> SUFFICES ASSUME TypeOK, CommandInv, [Next]_vars PROVE TypeOK'
  OBVIOUS
<1>1. CASE UNCHANGED vars
  BY <1>1 DEF TypeOK, vars
<1>2. ASSUME NEW p \in Commands, Crash(p) PROVE TypeOK'
  BY <1>2 DEF Crash, TypeOK, store, history
<1>3. ASSUME NEW p \in Commands, Planning(p) PROVE TypeOK'
  BY <1>3, PlanningKeepsTypes DEF CommandInv
<1> QED
  BY <1>1, <1>2, <1>3, AskKeepsTypes, ApplyingKeepsTypes, OtherWriteKeepsTypes DEF Next

-----------------------------------------------------------------------------
(* What single steps do, stated once for the proofs below.                  *)

(* A command does not change the backend.                                   *)
LEMMA BackendStays ==
  ASSUME [Next]_vars
  PROVE  backend' = backend /\ \A k : Obj(k)' = Obj(k)
<1> SUFFICES backend' = backend
  BY DEF Obj
<1>1. ASSUME NEW p \in Commands, AskAny(p) \/ Planning(p) \/ Crash(p)
      PROVE  backend' = backend
  BY <1>1 DEF AskAny, AskPush, AskDelete, AskBatch, AskRollback, Ask, Planning, PlanRead,
     PlanPrune, PlanFails, Authorize, Crash, store
<1>2. ASSUME NEW p \in Commands, Applying(p) PROVE backend' = backend
  BY <1>2 DEF Applying, BackUp, WriteKey, Inspect, Update, Commit, Answered, Refuse,
     Fail, Succeed, End, store
<1> QED
  BY <1>1, <1>2 DEF Next, OtherWrite, vars

(* A step leaves a blob and its revision alone, or moves the revision to    *)
(* one that the object has never had.                                       *)
LEMMA RevisionsRise ==
  ASSUME TypeOK, [Next]_vars, NEW k \in Keys
  PROVE  \/ blob'[k] = blob[k] /\ Rev(k)' = Rev(k)
         \/ Rev(k)' = Rev(k) + 1
<1> DEFINE Risen == \/ blob'[k] = blob[k] /\ Rev(k)' = Rev(k)
                    \/ Rev(k)' = Rev(k) + 1
<1> SUFFICES Risen
  OBVIOUS
<1>1. ASSUME NEW j \in Keys, NEW b, blob' = [blob EXCEPT ![j] = b],
             rev' = [rev EXCEPT ![Obj(j)] = @ + 1]
      PROVE  Risen
  <2>1. CASE Obj(k) = Obj(j)
    BY <1>1, <2>1, RevFacts, BackendStays DEF Rev, TypeOK
  <2>2. CASE Obj(k) # Obj(j)
    BY <1>1, <2>2, RevFacts, BackendStays DEF Rev, TypeOK
  <2> QED
    BY <2>1, <2>2
<1>2. ASSUME NEW p \in Commands, WriteKey(p) \/ Update(p) PROVE Risen
  <2>1. PICK e \in plan[p] : Commit(p, e)
    BY <1>2 DEF WriteKey, Update
  <2> QED
    BY <2>1, <1>1, EntryFacts DEF Commit
<1>3. ASSUME NEW j \in Keys, OtherWrite(j) PROVE Risen
  BY <1>1, <1>3 DEF OtherWrite
<1>4. ASSUME blob' = blob, rev' = rev PROVE Risen
  BY <1>4, BackendStays DEF Rev
<1>5. ASSUME NEW p \in Commands, AskAny(p) \/ Planning(p) \/ Crash(p)
      PROVE  blob' = blob /\ rev' = rev
  BY <1>5 DEF AskAny, AskPush, AskDelete, AskBatch, AskRollback, Ask, Planning, PlanRead,
     PlanPrune, PlanFails, Authorize, Crash, store
<1>6. ASSUME NEW p \in Commands, Applying(p), ~WriteKey(p), ~Update(p)
      PROVE  blob' = blob /\ rev' = rev
  BY <1>6 DEF Applying, BackUp, Inspect, Answered, Refuse, Fail, Succeed, End, store
<1> HIDE DEF Risen
<1>7. CASE UNCHANGED vars
  BY <1>4, <1>7 DEF vars
<1> QED
  BY <1>2, <1>3, <1>4, <1>5, <1>6, <1>7 DEF Next

(* The steps of one command leave the course of every other one alone.      *)
LEMMA CourseSteps ==
  ASSUME TypeOK, [Next]_vars, NEW p \in Commands
  PROVE  \/ /\ pc'[p] = pc[p] /\ request'[p] = request[p] /\ plan'[p] = plan[p]
            /\ left'[p] = left[p] /\ seen'[p] = seen[p]
            /\ committed'[p] = committed[p]
         \/ AskAny(p) \/ Planning(p) \/ Applying(p) \/ Crash(p)
<1> DEFINE Same == /\ pc'[p] = pc[p] /\ request'[p] = request[p] /\ plan'[p] = plan[p]
                   /\ left'[p] = left[p] /\ seen'[p] = seen[p]
                   /\ committed'[p] = committed[p]
<1>1. ASSUME NEW q \in Commands, q # p, AskAny(q) PROVE Same
  BY <1>1 DEF AskAny, AskPush, AskDelete, AskBatch, AskRollback, Ask, TypeOK, history
<1>2. ASSUME NEW q \in Commands, q # p, Planning(q) PROVE Same
  BY <1>2 DEF Planning, PlanRead, PlanPrune, PlanFails, Authorize, TypeOK, history
<1>3. ASSUME NEW q \in Commands, q # p, Applying(q) PROVE Same
  BY <1>3 DEF Applying, BackUp, WriteKey, Inspect, Update, Commit, Answered, Refuse,
     Fail, Succeed, End, TypeOK, history
<1>4. ASSUME NEW q \in Commands, q # p, Crash(q) PROVE Same
  BY <1>4 DEF Crash, TypeOK, history
<1>5. ASSUME NEW k \in Keys, OtherWrite(k) PROVE Same
  BY <1>5 DEF OtherWrite
<1>6. CASE UNCHANGED vars
  BY <1>6 DEF vars
<1> QED
  BY <1>1, <1>2, <1>3, <1>4, <1>5, <1>6 DEF Next

(* A backup is never dropped.                                               *)
LEMMA BackupsGrow ==
  ASSUME [Next]_vars
  PROVE  backups \subseteq backups'
<1>1. ASSUME NEW p \in Commands, AskAny(p) PROVE backups' = backups
  BY <1>1 DEF AskAny, AskPush, AskDelete, AskBatch, AskRollback, Ask, store
<1>2. ASSUME NEW p \in Commands, Planning(p) \/ Crash(p) PROVE backups' = backups
  BY <1>2 DEF Planning, PlanRead, PlanPrune, PlanFails, Authorize, Crash, store
<1>3. ASSUME NEW p \in Commands, Applying(p) PROVE backups \subseteq backups'
  BY <1>3 DEF Applying, BackUp, WriteKey, Inspect, Update, Commit, Answered, Refuse,
     Fail, Succeed, End, store
<1> QED
  BY <1>1, <1>2, <1>3 DEF Next, OtherWrite, vars

(* A write that takes effect is the commit of the entry that its command is *)
(* at, and the backend has checked its precondition.                        *)
LEMMA CommitSteps ==
  ASSUME TypeOK, NEW p \in Commands, WriteKey(p) \/ Update(p)
  PROVE  \E e \in plan[p] :
           /\ Current(p, e) /\ Commit(p, e)
           /\ pc[p] \in {"apply", "write", "update"}
           /\ committed'[p] = committed[p] \cup {e.key}
           /\ \/ pc[p] = "update" /\ Accepted(p, e)
              \/ pc[p] = (IF request[p].backup THEN "write" ELSE "apply") /\ Allowed(e)
<1>1. CASE WriteKey(p)
  <2>1. PICK e \in plan[p] : ReadyToWrite(p, e) /\ Allowed(e) /\ Commit(p, e)
    BY <1>1 DEF WriteKey
  <2> QED
    BY <2>1 DEF ReadyToWrite, Commit, TypeOK
<1>2. CASE Update(p)
  <2>1. PICK e \in plan[p] : Current(p, e) /\ Accepted(p, e) /\ Commit(p, e)
    BY <1>2 DEF Update
  <2> QED
    BY <1>2, <2>1 DEF Update, Commit, TypeOK
<1> QED
  BY <1>1, <1>2

(* What the steps after asking do to the request, the plan and the history. *)
LEMMA AfterAsking ==
  ASSUME TypeOK, NEW p \in Commands, Planning(p) \/ Applying(p) \/ Crash(p)
  PROVE  /\ request' = request
         /\ plan' = plan \/ PlanRead(p) \/ PlanPrune(p)
         /\ pc'[p] # "start"
         /\ pc'[p] = "plan" => pc[p] = "plan" /\ left'[p] \subseteq left[p]
         /\ committed' = committed \/ WriteKey(p) \/ Update(p)
         /\ committed[p] \subseteq committed'[p]
<1>1. CASE Planning(p)
  BY <1>1 DEF Planning, PlanRead, PlanPrune, PlanFails, Authorize, TypeOK, history
<1>2. CASE Applying(p)
  BY <1>2 DEF Applying, BackUp, WriteKey, Inspect, Update, Commit, Answered, Refuse,
     Fail, Succeed, End, TypeOK, history
<1>3. CASE Crash(p)
  BY <1>3 DEF Crash, TypeOK, history
<1> QED
  BY <1>1, <1>2, <1>3

(* The entries that planning adds.                                          *)
LEMMA PlannedEntry ==
  ASSUME TypeOK, NEW p \in Commands, PlanRead(p)
  PROVE  \E k \in left[p] : \E e :
           /\ Fits(p, k) /\ k \in Keys
           /\ e.key = k /\ e.cur = blob[k] /\ e.revision = PlannedRevision(p, k)
           /\ e.kind = Kind(p, k)
           /\ plan' = [plan EXCEPT ![p] = @ \cup {e}]
           /\ left'[p] = left[p] \ {k}
<1>1. PICK k \in left[p] :
        /\ Fits(p, k)
        /\ plan' = [plan EXCEPT ![p] = @ \cup
             {[key |-> k, cur |-> blob[k], revision |-> PlannedRevision(p, k),
               next |-> request[p].local[k], kind |-> Kind(p, k)]}]
        /\ left' = [left EXCEPT ![p] = @ \ {k}]
  BY DEF PlanRead
<1> DEFINE e == [key |-> k, cur |-> blob[k], revision |-> PlannedRevision(p, k),
                 next |-> request[p].local[k], kind |-> Kind(p, k)]
<1>2. /\ e.key = k /\ e.cur = blob[k] /\ e.revision = PlannedRevision(p, k)
      /\ e.kind = Kind(p, k)
      /\ plan' = [plan EXCEPT ![p] = @ \cup {e}]
  BY <1>1
<1> HIDE DEF e
<1>3. k \in Keys /\ left'[p] = left[p] \ {k}
  BY <1>1 DEF TypeOK
<1> QED
  BY <1>1, <1>2, <1>3

LEMMA PrunedEntries ==
  ASSUME TypeOK, NEW p \in Commands, PlanPrune(p)
  PROVE  /\ \A e \in plan'[p] \ plan[p] :
              /\ e.key \in Prunable(p) /\ e.cur = blob[e.key]
              /\ e.revision = Rev(e.key) /\ e.kind = "delete"
         /\ \A e, f \in plan'[p] \ plan[p] : e.key = f.key => e = f
<1>1. plan'[p] = plan[p] \cup
        {[key |-> k, cur |-> blob[k], revision |-> Rev(k), next |-> Absent,
          kind |-> "delete"] : k \in Prunable(p)}
  BY DEF PlanPrune, TypeOK
<1> QED
  BY <1>1

-----------------------------------------------------------------------------
(* Each part of the invariant, in turn.                                     *)

LEMMA PresentHasRevisionHolds ==
  ASSUME IInv, [Next]_vars
  PROVE  PresentHasRevision'
<1> SUFFICES ASSUME NEW k \in Keys, blob'[k] # Absent PROVE Rev(k)' > 0
  BY DEF PresentHasRevision
<1>1. TypeOK /\ Rev(k) \in Nat /\ (blob[k] # Absent => Rev(k) > 0)
  BY RevFacts DEF IInv, PresentHasRevision
<1> QED
  BY <1>1, RevisionsRise

LEMMA RequestAtHolds ==
  ASSUME IInv, [Next]_vars, NEW p \in Commands
  PROVE  RequestAt(p)'
<1>0. TypeOK /\ RequestAt(p)
  BY DEF IInv, CommandInv
<1>1. \A k \in Keys, n \in Nat : n <= Rev(k) => n <= Rev(k)'
  <2> SUFFICES ASSUME NEW k \in Keys, NEW n \in Nat, n <= Rev(k) PROVE n <= Rev(k)'
    OBVIOUS
  <2>1. Rev(k) \in Nat
    BY <1>0, RevFacts
  <2>2. Rev(k)' = Rev(k) \/ Rev(k)' = Rev(k) + 1
    BY <1>0, RevisionsRise
  <2> QED
    BY <2>1, <2>2
<1>2. left[p] \subseteq Keys /\ request[p].expected \in Nat
  BY <1>0 DEF TypeOK, Requests
<1>3. CASE /\ pc'[p] = pc[p] /\ request'[p] = request[p] /\ plan'[p] = plan[p]
           /\ left'[p] = left[p]
  BY <1>0, <1>1, <1>2, <1>3 DEF RequestAt, IsBatch
<1>4. CASE AskAny(p)
  <2>1. PICK r \in Requests :
          /\ request' = [request EXCEPT ![p] = r]
          /\ left'[p] = {k \in Keys : r.local[k] # NoLocal}
          /\ pc'[p] = "plan"
          /\ r.scope # {} => r.verb \in Batches
          /\ r.verb = "rollback" => r.expected = 0
          /\ \A k \in left'[p] : r.verb # "delete" /\ r.expected <= Rev(k)
    BY <1>0, <1>4, AskSteps
  <2>2. request'[p] = r /\ r.expected \in Nat
    BY <1>0, <2>1 DEF TypeOK, Requests
  <2>3. \A k \in left'[p] : r.expected <= Rev(k)'
    BY <2>1, <2>2, <1>1
  <2> QED
    BY <2>1, <2>2, <2>3 DEF RequestAt, IsBatch
<1>5. CASE Planning(p) \/ Applying(p) \/ Crash(p)
  <2>1. /\ request' = request /\ pc'[p] # "start"
        /\ pc'[p] = "plan" => pc[p] = "plan" /\ left'[p] \subseteq left[p]
    BY <1>0, <1>5, AfterAsking
  <2> QED
    BY <2>1, <1>0, <1>1, <1>2 DEF RequestAt, IsBatch
<1> QED
  BY <1>0, <1>3, <1>4, <1>5, CourseSteps

LEMMA PlanAtHolds ==
  ASSUME IInv, [Next]_vars, NEW p \in Commands
  PROVE  PlanAt(p)'
<1>0. TypeOK /\ RequestAt(p) /\ PlanAt(p)
  BY DEF IInv, CommandInv
<1>1. CASE /\ pc'[p] = pc[p] /\ request'[p] = request[p] /\ plan'[p] = plan[p]
           /\ left'[p] = left[p]
  BY <1>0, <1>1 DEF PlanAt, IsBatch
<1>2. CASE AskAny(p)
  <2>1. PICK r \in Requests :
          /\ request' = [request EXCEPT ![p] = r]
          /\ pc[p] = "start"
          /\ \A k \in left'[p] : r.verb # "delete"
          /\ \/ plan' = plan
             \/ \E e \in Entries : plan' = [plan EXCEPT ![p] = {e}] /\ r.verb = "delete"
    BY <1>0, <1>2, AskSteps
  <2>2. plan[p] = {} /\ request'[p] = r
    BY <1>0, <2>1 DEF RequestAt, TypeOK
  <2>3. CASE plan' = plan
    BY <2>2, <2>3 DEF PlanAt
  <2>4. ASSUME NEW e \in Entries, plan' = [plan EXCEPT ![p] = {e}], r.verb = "delete"
        PROVE  PlanAt(p)'
    <3>1. plan'[p] = {e} /\ left'[p] = {}
      BY <1>0, <2>1, <2>4 DEF TypeOK
    <3>2. ~IsBatch(p)'
      BY <2>2, <2>4 DEF IsBatch, Batches
    <3> QED
      BY <3>1, <3>2 DEF PlanAt
  <2> QED
    BY <2>1, <2>3, <2>4
<1>3. ASSUME request' = request, plan' = plan,
             pc'[p] = "plan" => pc[p] = "plan" /\ left'[p] \subseteq left[p]
      PROVE  PlanAt(p)'
  BY <1>0, <1>3 DEF PlanAt, IsBatch
<1>4. CASE PlanRead(p)
  <2>1. PICK k \in left[p] : \E e :
           /\ e.key = k
           /\ plan' = [plan EXCEPT ![p] = @ \cup {e}]
           /\ left'[p] = left[p] \ {k}
    BY <1>0, <1>4, PlannedEntry
  <2>2. PICK e : /\ e.key = k
                 /\ plan' = [plan EXCEPT ![p] = @ \cup {e}]
    BY <2>1
  <2>3. plan'[p] = plan[p] \cup {e} /\ request' = request /\ pc[p] = "plan"
    BY <1>0, <1>4, <2>2 DEF TypeOK, PlanRead
  <2>4. request[p].local[k] # NoLocal /\ \A f \in plan[p] : f.key # k
    BY <1>0, <2>1, <2>3 DEF RequestAt, PlanAt
  <2> QED
    BY <1>0, <2>1, <2>2, <2>3, <2>4 DEF PlanAt, IsBatch
<1>5. CASE PlanPrune(p)
  <2>1. pc[p] = "plan" /\ pc'[p] = "pruned" /\ IsBatch(p)
    BY <1>0, <1>5 DEF PlanPrune, RequestAt, TypeOK
  <2>2. \A e \in plan'[p] \ plan[p] : request[p].local[e.key] = NoLocal
    BY <1>0, <1>5, PrunedEntries DEF Prunable
  <2>3. \A e \in plan[p] : request[p].local[e.key] # NoLocal
    BY <1>0, <2>1 DEF PlanAt
  <2>4. \A e, f \in plan'[p] : e.key = f.key => e = f
    BY <1>0, <1>5, <2>2, <2>3, PrunedEntries DEF PlanAt
  <2> QED
    BY <2>1, <2>4 DEF PlanAt
<1>6. CASE Planning(p) \/ Applying(p) \/ Crash(p)
  BY <1>0, <1>3, <1>4, <1>5, <1>6, AfterAsking
<1> QED
  BY <1>0, <1>1, <1>2, <1>6, CourseSteps

LEMMA EntryAtHolds ==
  ASSUME IInv, [Next]_vars, NEW p \in Commands, NEW e \in plan'[p]
  PROVE  EntryAt(p, e)'
<1>0. /\ TypeOK /\ RequestAt(p) /\ PresentHasRevision
      /\ \A f \in plan[p] : EntryAt(p, f)
  BY DEF IInv, CommandInv
<1>1. ASSUME e \in plan[p], request'[p] = request[p]
      PROVE  EntryAt(p, e)'
  <2>1. EntryAt(p, e) /\ e.key \in Keys /\ e.revision \in Nat /\ Rev(e.key) \in Nat
    BY <1>0, <1>1, EntryFacts
  <2>2. e.revision <= Rev(e.key)'
    BY <2>1, <1>0, RevisionsRise DEF EntryAt
  <2>3. e.revision = Rev(e.key)' => blob'[e.key] = blob[e.key] /\ Rev(e.key)' = Rev(e.key)
    BY <2>1, <1>0, RevisionsRise DEF EntryAt
  <2> QED
    BY <1>1, <2>1, <2>2, <2>3 DEF EntryAt, IsBatch
<1>2. CASE request'[p] = request[p] /\ plan'[p] = plan[p]
  BY <1>1, <1>2
<1>3. CASE AskAny(p)
  <2>1. PICK r \in Requests :
          /\ request' = [request EXCEPT ![p] = r]
          /\ Ask(p, r) /\ pc[p] = "start"
          /\ \/ plan' = plan
             \/ \E f \in Entries :
                  /\ plan' = [plan EXCEPT ![p] = {f}]
                  /\ r.verb = "delete" /\ f.kind = "delete"
                  /\ f.revision <= Rev(f.key)
    BY <1>0, <1>3, AskSteps
  <2>2. plan[p] = {} /\ request'[p] = r
    BY <1>0, <2>1 DEF RequestAt, TypeOK
  <2>3. \E f \in Entries :
          /\ plan' = [plan EXCEPT ![p] = {f}]
          /\ r.verb = "delete" /\ f.kind = "delete"
          /\ f.revision <= Rev(f.key)
    BY <2>1, <2>2
  <2>4. r.verb = "delete" /\ e.kind = "delete" /\ e.revision <= Rev(e.key)
    BY <1>0, <2>3 DEF TypeOK
  <2>5. ~IsBatch(p)'
    BY <2>2, <2>4 DEF IsBatch, Batches
  <2>6. Rev(e.key)' = Rev(e.key)
    BY <2>1 DEF Ask, store, Rev, Obj
  <2> QED
    BY <2>4, <2>5, <2>6 DEF EntryAt
<1>4. CASE PlanRead(p)
  <2>1. request' = request /\ rev' = rev /\ blob' = blob /\ pc[p] = "plan"
    BY <1>4 DEF PlanRead, store
  <2>2. PICK k \in left[p] : \E f :
           /\ Fits(p, k) /\ k \in Keys
           /\ f.key = k /\ f.cur = blob[k] /\ f.revision = PlannedRevision(p, k)
           /\ f.kind = Kind(p, k)
           /\ plan' = [plan EXCEPT ![p] = @ \cup {f}]
    BY <1>0, <1>4, PlannedEntry
  <2>3. CASE e \in plan[p]
    BY <1>1, <2>1, <2>3
  <2>4. CASE e \notin plan[p]
    <3>1. /\ e.key = k /\ e.cur = blob[k] /\ e.revision = PlannedRevision(p, k)
          /\ e.kind = Kind(p, k)
      BY <1>0, <2>2, <2>4 DEF TypeOK
    <3>2. /\ request[p].expected \in Nat /\ request[p].expected <= Rev(k)
          /\ Rev(k) \in Nat /\ (blob[k] # Absent => Rev(k) > 0)
          /\ request[p].verb # "delete"
          /\ request[p].verb \in Batches \cup {"push", "delete", "rollback"}
      BY <1>0, <2>1, <2>2, RevFacts DEF TypeOK, Requests, RequestAt, PresentHasRevision
    <3>3. e.revision <= Rev(k)
      BY <3>1, <3>2 DEF PlannedRevision
    <3>4. CASE IsBatch(p)
      <4>1. e.kind = "create" => e.cur = Absent
        BY <3>1, <3>4 DEF Kind, IsBatch, Batches
      <4>2. e.kind \in {"create", "skip", "update"}
        BY <3>1, <3>4 DEF Kind, IsBatch, Batches
      <4>3. e.kind = "update" => e.cur # Absent
        BY <3>1, <3>4 DEF Kind, IsBatch, Batches
      <4>4. e.kind = "update" => e.revision > 0
        BY <3>1, <3>2, <3>4, <4>3 DEF PlannedRevision
      <4> QED
        BY <2>1, <3>1, <3>3, <4>1, <4>2, <4>4, BackendStays DEF EntryAt, Rev
    <3>5. CASE ~IsBatch(p)
      <4>1. request[p].verb \in {"push", "rollback"}
        BY <3>2, <3>5 DEF IsBatch
      <4>2. e.kind = "create" => e.cur = Absent
        BY <2>2, <3>1, <4>1 DEF Kind, Fits
      <4>3. e.kind = "put" => e.revision = 0
        BY <1>0, <3>1, <3>5, <4>1 DEF Kind, PlannedRevision, RequestAt
      <4>4. e.kind = "update" => e.revision > 0
        BY <3>1, <3>2, <3>5, <4>1 DEF Kind, PlannedRevision
      <4>5. e.kind # "delete"
        BY <3>1, <4>1 DEF Kind
      <4>6. ~IsBatch(p)'
        BY <2>1, <3>5 DEF IsBatch
      <4> QED
        BY <2>1, <3>1, <3>3, <4>2, <4>3, <4>4, <4>5, <4>6, BackendStays
           DEF EntryAt, Rev
    <3> QED
      BY <3>4, <3>5
  <2> QED
    BY <2>3, <2>4
<1>5. CASE PlanPrune(p)
  <2>1. request' = request /\ rev' = rev /\ blob' = blob
    BY <1>5 DEF PlanPrune, store
  <2>2. CASE e \in plan[p]
    BY <1>1, <2>1, <2>2
  <2>3. CASE e \notin plan[p]
    <3>1. /\ e.key \in Prunable(p) /\ e.cur = blob[e.key]
          /\ e.revision = Rev(e.key) /\ e.kind = "delete"
      BY <1>0, <1>5, <2>3, PrunedEntries
    <3>2. e.key \in Keys /\ blob[e.key] # Absent
      BY <1>0, <3>1 DEF Prunable, TypeOK, Requests
    <3>3. Rev(e.key) \in Nat /\ Rev(e.key) > 0
      BY <1>0, <3>2, RevFacts DEF PresentHasRevision
    <3> QED
      BY <2>1, <3>1, <3>3, BackendStays DEF EntryAt, Rev
  <2> QED
    BY <2>2, <2>3
<1>6. CASE Planning(p) \/ Applying(p) \/ Crash(p)
  BY <1>0, <1>2, <1>4, <1>5, <1>6, AfterAsking
<1> QED
  BY <1>0, <1>2, <1>3, <1>6, CourseSteps

(* What is left to write, and what has been written.                        *)
LEMMA ProgressAtHolds ==
  ASSUME IInv, [Next]_vars, NEW p \in Commands
  PROVE  ProgressAt(p)'
<1>0. /\ TypeOK /\ ProgressAt(p) /\ PlanAt(p)
      /\ \A e \in plan[p] : Current(p, e) => ApplyAt(p, e)
  BY DEF IInv, CommandInv
<1> DEFINE early == {"start", "plan", "pruned"}
           late == {"apply", "write", "update", "answer"}
<1>1. ASSUME pc'[p] \in late => pc[p] \in late, pc'[p] \in early => pc[p] \in early,
             request'[p] = request[p], plan'[p] = plan[p], left'[p] = left[p],
             committed'[p] = committed[p]
      PROVE  ProgressAt(p)'
  <2>1. Todo(p)' = Todo(p)
    BY <1>1 DEF Todo, Dropped, IsBatch
  <2> QED
    BY <1>0, <1>1, <2>1 DEF ProgressAt
<1>2. CASE /\ pc'[p] = pc[p] /\ request'[p] = request[p] /\ plan'[p] = plan[p]
           /\ left'[p] = left[p] /\ committed'[p] = committed[p]
  BY <1>1, <1>2
<1>3. CASE AskAny(p)
  <2>1. PICK r \in Requests : Ask(p, r) /\ pc[p] = "start" /\ pc'[p] = "plan"
    BY <1>0, <1>3, AskSteps
  <2> QED
    BY <1>0, <2>1 DEF Ask, ProgressAt, history
<1>4. CASE PlanRead(p) \/ PlanPrune(p) \/ PlanFails(p)
  BY <1>0, <1>4 DEF PlanRead, PlanPrune, PlanFails, ProgressAt, TypeOK, history
<1>5. CASE Authorize(p)
  <2>1. /\ committed' = committed /\ request' = request /\ plan' = plan
        /\ \/ pc'[p] = "done"
           \/ pc'[p] = "apply" /\ left'[p] = {e.key : e \in Todo(p)}
    BY <1>0, <1>5 DEF Authorize, TypeOK, history
  <2>2. Todo(p)' = Todo(p)
    BY <2>1 DEF Todo, Dropped, IsBatch
  <2> QED
    BY <2>1, <2>2 DEF ProgressAt
<1>6. CASE BackUp(p) \/ Inspect(p)
  <2>1. /\ pc[p] \in late /\ pc'[p] \in late /\ request' = request /\ plan' = plan
        /\ left' = left /\ committed' = committed
    BY <1>0, <1>6 DEF BackUp, Inspect, ReadyToWrite, TypeOK, history
  <2> QED
    BY <1>1, <2>1
<1>7. CASE WriteKey(p) \/ Update(p)
  <2>1. PICK e \in plan[p] : /\ Commit(p, e) /\ pc[p] \in {"apply", "write", "update"}
                             /\ committed'[p] = committed[p] \cup {e.key}
    BY <1>0, <1>7, CommitSteps
  <2>2. pc'[p] = "answer" /\ request' = request /\ plan' = plan /\ left' = left
    BY <1>0, <2>1 DEF Commit, TypeOK
  <2>3. Todo(p)' = Todo(p)
    BY <2>2 DEF Todo, Dropped, IsBatch
  <2> QED
    BY <1>0, <2>1, <2>2, <2>3 DEF ProgressAt
<1>8. CASE Answered(p)
  <2>1. PICK e \in plan[p] : Current(p, e) /\ left'[p] = left[p] \ {e.key}
    BY <1>0, <1>8 DEF Answered, TypeOK
  <2>2. /\ pc[p] = "answer" /\ pc'[p] = "apply" /\ request' = request /\ plan' = plan
        /\ committed' = committed
    BY <1>0, <1>8 DEF Answered, TypeOK, history
  <2>3. e.key \in committed[p]
    BY <1>0, <2>1, <2>2 DEF ApplyAt
  <2>4. Todo(p)' = Todo(p)
    BY <2>2 DEF Todo, Dropped, IsBatch
  <2> QED
    BY <1>0, <2>1, <2>2, <2>3, <2>4 DEF ProgressAt
<1>9. CASE Refuse(p) \/ Fail(p) \/ Succeed(p) \/ Crash(p)
  <2>1. pc'[p] \in {"done", "dead"}
    BY <1>0, <1>9 DEF Refuse, Fail, Succeed, End, Crash, TypeOK
  <2> QED
    BY <2>1 DEF ProgressAt
<1> QED
  BY <1>0, <1>2, <1>3, <1>4, <1>5, <1>6, <1>7, <1>8, <1>9, CourseSteps
     DEF Planning, Applying

(* What a command has saved stays saved until it writes: whoever changes    *)
(* the blob takes away the revision, or the absence, that allows the write. *)
LEMMA SavedStays ==
  ASSUME IInv, [Next]_vars, NEW p \in Commands, NEW e \in plan[p], Current(p, e),
         request'[p] = request[p], SavedAt(p, e)
  PROVE  SavedAt(p, e)'
<1>1. EntryAt(p, e) /\ TypeOK
  BY DEF IInv, CommandInv
<1>2. e.kind # "skip" /\ e.key \in Keys /\ e.revision \in Nat /\ Rev(e.key) \in Nat
      /\ e.kind \in {"create", "update", "put", "delete", "skip"}
  BY <1>1, EntryFacts DEF Current, Todo
<1>3. CASE blob'[e.key] = blob[e.key] /\ Rev(e.key)' = Rev(e.key)
  <2>1. Allowed(e)' => Allowed(e)
    BY <1>3, BackendStays DEF Allowed
  <2> QED
    BY <1>3, <2>1, BackupsGrow DEF SavedAt, IsBatch
<1>4. CASE Rev(e.key)' = Rev(e.key) + 1
  <2>1. Rev(e.key)' # e.revision
    BY <1>1, <1>2, <1>4 DEF EntryAt
  <2>2. CASE e.kind \in {"update", "delete"} /\ e.revision # 0
    BY <2>1, <2>2 DEF SavedAt, Allowed
  <2>3. CASE e.kind = "create"
    BY <2>3 DEF SavedAt, Allowed
  <2>4. CASE e.kind = "put" \/ (e.kind \in {"update", "delete"} /\ e.revision = 0)
    <3>1. ~IsBatch(p) /\ e.revision = 0
      BY <1>1, <1>2, <2>4 DEF EntryAt
    <3> QED
      BY <3>1 DEF SavedAt, IsBatch
  <2> QED
    BY <1>2, <2>2, <2>3, <2>4
<1> QED
  BY <1>1, <1>2, <1>3, <1>4, RevisionsRise

LEMMA ApplyAtHolds ==
  ASSUME IInv, [Next]_vars, NEW p \in Commands, NEW e \in plan'[p], Current(p, e)'
  PROVE  ApplyAt(p, e)'
<1>0. /\ TypeOK /\ PlanAt(p) /\ PresentHasRevision
      /\ \A f \in plan[p] : EntryAt(p, f) /\ (Current(p, f) => ApplyAt(p, f))
  BY DEF IInv, CommandInv
<1>1. ASSUME pc'[p] \notin {"write", "update", "answer"} PROVE ApplyAt(p, e)'
  BY <1>1 DEF ApplyAt
<1>2. ASSUME request'[p] = request[p], plan'[p] = plan[p], left'[p] = left[p]
      PROVE  e \in plan[p] /\ Current(p, e) /\ ApplyAt(p, e)
  BY <1>0, <1>2 DEF Current, Todo, Dropped, IsBatch
<1>3. CASE /\ pc'[p] = pc[p] /\ request'[p] = request[p] /\ plan'[p] = plan[p]
           /\ left'[p] = left[p] /\ seen'[p] = seen[p]
           /\ committed'[p] = committed[p]
  <2>1. e \in plan[p] /\ Current(p, e) /\ ApplyAt(p, e)
    BY <1>2, <1>3
  <2>2. pc[p] \in {"write", "update"} /\ request[p].backup => SavedAt(p, e)'
    BY <1>3, <2>1, SavedStays DEF ApplyAt
  <2>3. ASSUME pc[p] = "update" PROVE SeenAt(p, e)'
    <3>1. SeenAt(p, e) /\ e.key \in Keys /\ Rev(e.key) \in Nat /\ seen[p] \in Nat
      BY <1>0, <2>1, <2>3, EntryFacts DEF ApplyAt, TypeOK
    <3>2. /\ seen[p] <= Rev(e.key)'
          /\ seen[p] = Rev(e.key)' =>
               blob'[e.key] = blob[e.key] /\ Rev(e.key)' = Rev(e.key)
      BY <1>0, <3>1, RevisionsRise DEF SeenAt
    <3> QED
      BY <1>3, <3>1, <3>2, BackendStays DEF SeenAt, Allowed
  <2> QED
    BY <1>3, <2>1, <2>2, <2>3 DEF ApplyAt
<1>4. CASE AskAny(p)
  BY <1>0, <1>1, <1>4, AskSteps
<1>5. CASE Planning(p) \/ Crash(p)
  <2>1. pc'[p] \notin {"write", "update", "answer"}
    BY <1>0, <1>5 DEF Planning, PlanRead, PlanPrune, PlanFails, Authorize, Crash, TypeOK
  <2> QED
    BY <1>1, <2>1
<1>6. CASE Answered(p) \/ Refuse(p) \/ Fail(p) \/ Succeed(p)
  <2>1. pc'[p] \notin {"write", "update", "answer"}
    BY <1>0, <1>6 DEF Answered, Refuse, Fail, Succeed, End, TypeOK
  <2> QED
    BY <1>1, <2>1
<1>7. CASE BackUp(p)
  <2>1. /\ pc'[p] = "write" /\ request' = request /\ plan' = plan /\ left' = left
        /\ blob' = blob
    BY <1>0, <1>7 DEF BackUp, TypeOK
  <2>2. PICK f \in plan[p] :
          /\ Current(p, f)
          /\ backups' = backups \cup
               IF blob[f.key] = Absent THEN {}
               ELSE {[by |-> p, key |-> f.key, content |-> blob[f.key]]}
    BY <1>7 DEF BackUp
  <2>3. e = f
    BY <1>0, <1>2, <2>1, <2>2, CurrentIsUnique
  <2>4. SavedAt(p, e)'
    BY <2>1, <2>2, <2>3 DEF SavedAt
  <2> QED
    BY <2>1, <2>4 DEF ApplyAt
<1>8. CASE Inspect(p)
  <2>1. /\ pc'[p] = "update" /\ request' = request /\ plan' = plan /\ left' = left
        /\ blob' = blob /\ rev' = rev /\ backups' = backups
    BY <1>0, <1>8 DEF Inspect, TypeOK, store
  <2>2. PICK f \in plan[p] :
          /\ ReadyToWrite(p, f) /\ Allowed(f)
          /\ f.kind = "delete" => blob[f.key] # Absent
          /\ \/ seen'[p] = Rev(f.key)
             \/ f.kind \in {"create", "put"} /\ seen'[p] = 0
    BY <1>0, <1>8 DEF Inspect, TypeOK
  <2>3. e = f /\ Current(p, f)
    BY <1>0, <1>2, <2>1, <2>2, CurrentIsUnique DEF ReadyToWrite
  <2>4. /\ e \in plan[p] /\ EntryAt(p, e) /\ ApplyAt(p, e)
        /\ e.kind \in {"create", "update", "put", "delete"}
        /\ e.key \in Keys /\ e.revision \in Nat /\ Rev(e.key) \in Nat
    BY <1>0, <2>3, EntryFacts DEF Current, Todo
  <2>5. request[p].backup => SavedAt(p, e)'
    <3> SUFFICES ASSUME request[p].backup PROVE SavedAt(p, e)'
      OBVIOUS
    <3>1. SavedAt(p, e)
      BY <2>2, <2>3, <2>4 DEF ReadyToWrite, ApplyAt
    <3> QED
      BY <2>1, <3>1, BackendStays DEF SavedAt, Allowed, IsBatch, Rev
  <2>6. Allowed(e)' /\ Rev(e.key)' = Rev(e.key)
    BY <2>1, <2>2, <2>3, BackendStays DEF Allowed, Rev
  <2>7. seen'[p] = 0 => e.kind \in {"create", "put"}
    <3> SUFFICES ASSUME Rev(e.key) = 0, e.kind \in {"update", "delete"} PROVE FALSE
      BY <2>2, <2>3, <2>4
    <3>1. blob[e.key] = Absent
      BY <1>0, <2>4 DEF PresentHasRevision
    <3>2. e.kind = "update" /\ e.revision > 0
      BY <2>2, <2>3, <2>4, <3>1 DEF EntryAt
    <3> QED
      BY <2>2, <2>3, <2>4, <3>2 DEF Allowed
  <2>8. SeenAt(p, e)'
    BY <2>2, <2>3, <2>4, <2>6, <2>7 DEF SeenAt
  <2> QED
    BY <2>1, <2>5, <2>8 DEF ApplyAt
<1>9. CASE WriteKey(p) \/ Update(p)
  <2>1. PICK f \in plan[p] : /\ Current(p, f) /\ Commit(p, f)
                             /\ committed'[p] = committed[p] \cup {f.key}
    BY <1>0, <1>9, CommitSteps
  <2>2. pc'[p] = "answer" /\ request' = request /\ plan' = plan /\ left' = left
    BY <1>0, <2>1 DEF Commit, TypeOK
  <2>3. e = f
    BY <1>0, <1>2, <2>1, <2>2, CurrentIsUnique
  <2> QED
    BY <2>1, <2>2, <2>3 DEF ApplyAt
<1> QED
  BY <1>0, <1>3, <1>4, <1>5, <1>6, <1>7, <1>8, <1>9, CourseSteps DEF Applying

LEMMA DeletesComeLastHolds ==
  ASSUME IInv, [Next]_vars
  PROVE  DeletesComeLast'
<1> SUFFICES ASSUME NEW p \in Commands, NEW d \in plan'[p], NEW e \in plan'[p],
                    d.kind = "delete", d.key \in committed'[p],
                    e \in Todo(p)', e.kind # "delete"
             PROVE  e.key \in committed'[p]
  BY DEF DeletesComeLast
<1>0. TypeOK /\ PlanAt(p) /\ ProgressAt(p) /\ DeletesComeLast
  BY DEF IInv, CommandInv
<1>1. ASSUME request'[p] = request[p], plan'[p] = plan[p]
      PROVE  d \in plan[p] /\ e \in Todo(p)
  BY <1>1 DEF Todo, Dropped, IsBatch
<1>2. CASE /\ request'[p] = request[p] /\ plan'[p] = plan[p]
           /\ committed'[p] = committed[p]
  <2>1. d \in plan[p] /\ e \in plan[p] /\ e \in Todo(p)
    BY <1>1, <1>2
  <2> QED
    BY <1>0, <1>2, <2>1 DEF DeletesComeLast
<1>3. CASE AskAny(p)
  <2>1. PICK r \in Requests : Ask(p, r) /\ pc[p] = "start"
    BY <1>0, <1>3, AskSteps
  <2> QED
    BY <1>0, <2>1 DEF Ask, ProgressAt, history
<1>4. CASE PlanRead(p) \/ PlanPrune(p)
  BY <1>0, <1>4 DEF PlanRead, PlanPrune, ProgressAt, history
<1>5. CASE WriteKey(p) \/ Update(p)
  <2>1. PICK f \in plan[p] :
          /\ Current(p, f) /\ Commit(p, f)
          /\ pc[p] \in {"apply", "write", "update"}
          /\ committed'[p] = committed[p] \cup {f.key}
    BY <1>0, <1>5, CommitSteps
  <2>2. request'[p] = request[p] /\ plan'[p] = plan[p]
    BY <2>1 DEF Commit
  <2>3. d \in plan[p] /\ e \in plan[p] /\ e \in Todo(p)
    BY <1>1, <2>2
  <2>4. CASE d.key \in committed[p]
    BY <1>0, <2>1, <2>3, <2>4 DEF DeletesComeLast
  <2>5. CASE d.key = f.key
    <3>1. d = f
      BY <1>0, <2>3, <2>5 DEF PlanAt
    <3>2. Before(e, d)
      BY DEF Before
    <3>3. e.key \notin left[p]
      BY <2>1, <2>3, <3>1, <3>2 DEF Current
    <3> QED
      BY <1>0, <2>1, <2>3, <3>3 DEF ProgressAt
  <2> QED
    BY <2>1, <2>4, <2>5
<1>6. CASE Planning(p) \/ Applying(p) \/ Crash(p)
  <2>1. /\ request' = request
        /\ plan' = plan \/ PlanRead(p) \/ PlanPrune(p)
        /\ committed' = committed \/ WriteKey(p) \/ Update(p)
    BY <1>0, <1>6, AfterAsking
  <2> QED
    BY <1>2, <1>4, <1>5, <2>1
<1> QED
  BY <1>0, <1>2, <1>3, <1>6, CourseSteps

-----------------------------------------------------------------------------
(* Conflicts.                                                               *)

(* While nobody disturbs a command, only its own writes change the blobs.   *)
LEMMA UndisturbedSteps ==
  ASSUME TypeOK, [Next]_vars, NEW p \in Commands, pc[p] # "start", ~disturbed'[p]
  PROVE  /\ ~disturbed[p]
         /\ (blob' = blob /\ rev' = rev) \/ WriteKey(p) \/ Update(p)
<1>1. ASSUME NEW q \in Commands, AskAny(q) \/ Planning(q) \/ Crash(q)
      PROVE  blob' = blob /\ rev' = rev /\ disturbed' = disturbed
  BY <1>1 DEF AskAny, AskPush, AskDelete, AskBatch, AskRollback, Ask, Planning, PlanRead,
     PlanPrune, PlanFails, Authorize, Crash, store, history
<1>2. ASSUME NEW q \in Commands, Applying(q), ~WriteKey(q), ~Update(q)
      PROVE  blob' = blob /\ rev' = rev /\ disturbed' = disturbed
  BY <1>2 DEF Applying, BackUp, Inspect, Answered, Refuse, Fail, Succeed, End, store, history
<1>3. ASSUME NEW q \in Commands, WriteKey(q) \/ Update(q)
      PROVE  q = p /\ ~disturbed[p]
  BY <1>3 DEF WriteKey, Update, Commit, DisturbedBy
<1>4. ASSUME NEW k \in Keys, OtherWrite(k) PROVE FALSE
  BY <1>4 DEF OtherWrite
<1>5. CASE UNCHANGED vars
  BY <1>5 DEF vars
<1> QED
  BY <1>1, <1>2, <1>3, <1>4, <1>5 DEF Next

(* A command is refused by a refusal of its own, while it applies its plan. *)
LEMMA RefusedSteps ==
  ASSUME TypeOK, [Next]_vars, NEW p \in Commands, refused'[p] # refused[p]
  PROVE  Refuse(p) /\ pc[p] \in {"apply", "write", "update"}
<1>1. ASSUME NEW q \in Commands, AskAny(q) \/ Planning(q) \/ Crash(q)
      PROVE  refused' = refused
  BY <1>1 DEF AskAny, AskPush, AskDelete, AskBatch, AskRollback, Ask, Planning, PlanRead,
     PlanPrune, PlanFails, Authorize, Crash, history
<1>2. ASSUME NEW q \in Commands, Applying(q), ~Refuse(q) PROVE refused' = refused
  BY <1>2 DEF Applying, BackUp, WriteKey, Inspect, Update, Commit, Answered, Fail, Succeed,
     history
<1>3. ASSUME NEW q \in Commands, Refuse(q) PROVE q = p
  BY <1>3 DEF Refuse, TypeOK
<1>4. Refuse(p)
  BY <1>1, <1>2, <1>3 DEF Next, OtherWrite, vars
<1> QED
  BY <1>4 DEF Refuse, ReadyToWrite

(* A command writes each key once: what it has written and not yet dropped  *)
(* from what is left is the entry it is at.                                 *)
LEMMA WrittenOnce ==
  ASSUME IInv, [Next]_vars, NEW p \in Commands,
         pc'[p] \in {"apply", "write", "update", "answer"},
         NEW e \in Todo(p)', e.key \in left'[p] \cap committed'[p]
  PROVE  pc'[p] = "answer" /\ Current(p, e)'
<1>0. /\ TypeOK /\ PlanAt(p) /\ ProgressAt(p) /\ UndisturbedAt(p)
  BY DEF IInv, CommandInv
<1>1. CASE /\ pc'[p] = pc[p] /\ request'[p] = request[p] /\ plan'[p] = plan[p]
           /\ left'[p] = left[p] /\ committed'[p] = committed[p]
  BY <1>0, <1>1 DEF UndisturbedAt, Current, Todo, Dropped, IsBatch
<1>2. CASE AskAny(p) \/ Crash(p)
  <2>1. pc'[p] \in {"plan", "dead"}
    BY <1>0, <1>2, AskSteps DEF Crash, TypeOK
  <2> QED
    BY <2>1
<1>3. CASE Planning(p)
  <2>1. Authorize(p) /\ pc[p] \in {"plan", "pruned"} /\ committed' = committed
    BY <1>0, <1>3 DEF Planning, PlanRead, PlanPrune, PlanFails, Authorize, Planned,
       TypeOK, history
  <2> QED
    BY <1>0, <2>1 DEF ProgressAt
<1>4. CASE BackUp(p) \/ Inspect(p)
  <2>1. /\ pc[p] \in {"apply", "write"} /\ request' = request /\ plan' = plan
        /\ left' = left /\ committed' = committed
    BY <1>4 DEF BackUp, Inspect, ReadyToWrite, history
  <2> QED
    BY <1>0, <2>1 DEF UndisturbedAt, Todo, Dropped, IsBatch
<1>5. CASE Answered(p)
  <2>1. PICK f \in plan[p] : Current(p, f) /\ left'[p] = left[p] \ {f.key}
    BY <1>0, <1>5 DEF Answered, TypeOK
  <2>2. /\ pc[p] = "answer" /\ request' = request /\ plan' = plan
        /\ committed' = committed
    BY <1>5 DEF Answered, history
  <2>3. Current(p, e)
    BY <1>0, <2>1, <2>2 DEF UndisturbedAt, Todo, Dropped, IsBatch
  <2>4. e = f
    BY <1>0, <2>1, <2>3, CurrentIsUnique
  <2> QED
    BY <2>1, <2>4
<1>6. CASE WriteKey(p) \/ Update(p)
  <2>1. PICK f \in plan[p] :
          /\ Current(p, f) /\ Commit(p, f)
          /\ pc[p] \in {"apply", "write", "update"}
          /\ committed'[p] = committed[p] \cup {f.key}
    BY <1>0, <1>6, CommitSteps
  <2>2. /\ pc'[p] = "answer" /\ request' = request /\ plan' = plan /\ left' = left
    BY <1>0, <2>1 DEF Commit, TypeOK
  <2>3. e \in Todo(p) /\ e.key \in left[p]
    BY <2>2 DEF Todo, Dropped, IsBatch
  <2>4. e.key = f.key
    BY <1>0, <2>1, <2>3 DEF UndisturbedAt
  <2>5. e = f
    BY <1>0, <2>1, <2>3, <2>4 DEF PlanAt, Todo
  <2> QED
    BY <2>1, <2>2, <2>5 DEF Current, Todo, Dropped, IsBatch
<1>7. CASE Refuse(p) \/ Fail(p) \/ Succeed(p)
  BY <1>0, <1>7 DEF Refuse, Fail, Succeed, End, TypeOK
<1> QED
  BY <1>0, <1>1, <1>2, <1>3, <1>4, <1>5, <1>6, <1>7, CourseSteps DEF Applying

(* What an undisturbed batch on etcd or Consul has still to write is as it  *)
(* was planned.                                                             *)
LEMMA StillAsPlanned ==
  ASSUME IInv, [Next]_vars, NEW p \in Commands, backend = "kv", IsBatch(p)',
         ~disturbed'[p], NEW e \in plan'[p]
  PROVE  /\ e.kind \in {"update", "delete"} => e.cur # Absent
         /\ e.key \notin committed'[p] =>
              blob'[e.key] = e.cur /\ (e.cur # Absent => Rev(e.key)' = e.revision)
<1>0. TypeOK /\ RequestAt(p) /\ UndisturbedAt(p)
  BY DEF IInv, CommandInv
<1>1. pc[p] # "start"
  <2> SUFFICES ASSUME pc[p] = "start" PROVE FALSE
    OBVIOUS
  <2>1. plan[p] = {}
    BY <1>0 DEF RequestAt
  <2>2. ~Planning(p) /\ ~Applying(p) /\ ~Crash(p)
    BY DEF Planning, PlanRead, PlanPrune, PlanFails, Authorize, Planned, Applying, BackUp,
       WriteKey, Inspect, Update, Answered, Refuse, Fail, Succeed, ReadyToWrite, Crash
  <2>3. CASE AskAny(p)
    <3>1. PICK r \in Requests :
            /\ request' = [request EXCEPT ![p] = r]
            /\ \/ plan' = plan
               \/ r.verb = "delete"
      BY <1>0, <2>3, AskSteps
    <3>2. r.verb \in Batches
      BY <1>0, <3>1 DEF IsBatch, TypeOK
    <3> QED
      BY <2>1, <3>1, <3>2 DEF Batches
  <2> QED
    BY <1>0, <2>1, <2>2, <2>3, CourseSteps
<1>2. /\ request'[p] = request[p] /\ committed[p] \subseteq committed'[p]
      /\ plan'[p] = plan[p] \/ PlanRead(p) \/ PlanPrune(p)
  <2>1. ~AskAny(p)
    BY <1>0, <1>1, AskSteps
  <2> QED
    BY <1>0, <2>1, AfterAsking, CourseSteps
<1>3. /\ IsBatch(p) /\ ~disturbed[p]
      /\ (blob' = blob /\ rev' = rev) \/ WriteKey(p) \/ Update(p)
  BY <1>0, <1>1, <1>2, UndisturbedSteps DEF IsBatch
<1>4. ASSUME e \in plan[p]
      PROVE  /\ e.kind \in {"update", "delete"} => e.cur # Absent
             /\ e.key \notin committed[p] =>
                  blob[e.key] = e.cur /\ (e.cur # Absent => Rev(e.key) = e.revision)
  BY <1>0, <1>3, <1>4 DEF UndisturbedAt
<1>5. CASE e \in plan[p] /\ blob' = blob /\ rev' = rev
  BY <1>2, <1>4, <1>5, BackendStays DEF Rev
<1>6. CASE e \in plan[p] /\ (WriteKey(p) \/ Update(p))
  <2>1. PICK f \in plan[p] : Commit(p, f) /\ committed'[p] = committed[p] \cup {f.key}
    BY <1>0, <1>6, CommitSteps
  <2>2. e.key \in Keys /\ f.key \in Keys
    BY <1>0, <1>6, EntryFacts
  <2>3. e.key # f.key => blob'[e.key] = blob[e.key]
    BY <1>0, <2>1, <2>2 DEF Commit, TypeOK
  <2>4. e.key # f.key => Rev(e.key)' = Rev(e.key)
    <3>1. e.key # f.key => Obj(e.key) # Obj(f.key)
      BY DEF Obj
    <3> QED
      BY <1>0, <2>1, <2>2, <3>1, RevFacts, BackendStays DEF Commit, Rev, TypeOK
  <2> QED
    BY <1>4, <1>6, <2>1, <2>3, <2>4
<1>7. CASE e \notin plan[p] /\ PlanRead(p)
  <2>1. PICK k \in left[p] : \E f :
          /\ f.key = k /\ f.cur = blob[k] /\ f.revision = PlannedRevision(p, k)
          /\ f.kind = Kind(p, k)
          /\ plan' = [plan EXCEPT ![p] = @ \cup {f}]
    BY <1>0, <1>7, PlannedEntry
  <2>2. /\ e.key = k /\ e.cur = blob[k] /\ e.revision = PlannedRevision(p, k)
        /\ e.kind = Kind(p, k)
    BY <1>0, <1>7, <2>1 DEF TypeOK
  <2>3. blob' = blob /\ rev' = rev
    BY <1>7 DEF PlanRead, store
  <2>4. e.kind \in {"update", "delete"} => e.cur # Absent
    BY <1>3, <2>2 DEF Kind, IsBatch, Batches
  <2> QED
    BY <1>3, <2>2, <2>3, <2>4, BackendStays DEF PlannedRevision, Rev
<1>8. CASE e \notin plan[p] /\ PlanPrune(p)
  <2>1. /\ e.key \in Prunable(p) /\ e.cur = blob[e.key]
        /\ e.revision = Rev(e.key) /\ e.kind = "delete"
    BY <1>0, <1>8, PrunedEntries
  <2>2. blob' = blob /\ rev' = rev
    BY <1>8 DEF PlanPrune, store
  <2> QED
    BY <2>1, <2>2, BackendStays DEF Prunable, Rev
<1> QED
  BY <1>2, <1>3, <1>5, <1>6, <1>7, <1>8

LEMMA UndisturbedAtHolds ==
  ASSUME IInv, [Next]_vars, NEW p \in Commands
  PROVE  UndisturbedAt(p)'
<1>0. TypeOK /\ UndisturbedAt(p) /\ \A e \in plan[p] : EntryAt(p, e)
  BY DEF IInv, CommandInv
<1>1. pc'[p] = "start" => ~refused'[p]
  <2> SUFFICES ASSUME pc'[p] = "start" PROVE ~refused'[p]
    OBVIOUS
  <2>1. pc[p] = "start"
    BY <1>0, AskSteps, AfterAsking, CourseSteps
  <2> QED
    BY <1>0, <2>1, RefusedSteps DEF UndisturbedAt
<1>2. backend = "kv" => pc'[p] # "update"
  <2> SUFFICES ASSUME backend = "kv" PROVE pc'[p] # "update"
    OBVIOUS
  <2>1. CASE AskAny(p)
    BY <1>0, <2>1, AskSteps
  <2>2. CASE Planning(p) \/ Crash(p)
    BY <1>0, <2>2 DEF Planning, PlanRead, PlanPrune, PlanFails, Authorize, Crash, Planned,
       UndisturbedAt, TypeOK
  <2>3. CASE Applying(p)
    BY <1>0, <2>3 DEF Applying, BackUp, WriteKey, Inspect, Update, Commit, Answered, Refuse,
       Fail, Succeed, End, TypeOK
  <2> QED
    BY <1>0, <2>1, <2>2, <2>3, CourseSteps DEF UndisturbedAt
<1>3. ASSUME backend = "kv", IsBatch(p)', ~disturbed'[p] PROVE ~refused'[p]
  <2> SUFFICES ASSUME refused'[p] PROVE FALSE
    OBVIOUS
  <2>1. CASE pc[p] = "start"
    BY <1>0, <2>1, RefusedSteps DEF UndisturbedAt, TypeOK
  <2>2. CASE pc[p] # "start"
    <3>1. request'[p] = request[p] /\ ~disturbed[p]
      BY <1>0, <1>3, <2>2, AskSteps, AfterAsking, CourseSteps, UndisturbedSteps
    <3>2. ~refused[p]
      BY <1>0, <1>3, <3>1 DEF UndisturbedAt, IsBatch
    <3>3. Refuse(p)
      BY <1>0, <3>2, RefusedSteps
    <3>4. PICK e \in plan[p] : ReadyToWrite(p, e) /\ ~Allowed(e)
      BY <1>0, <1>3, <3>3 DEF Refuse, UndisturbedAt
    <3>5. e.key \notin committed[p]
      BY <1>0, <3>4 DEF ReadyToWrite, Current, UndisturbedAt
    <3>6. /\ e.kind \in {"update", "delete"} => e.cur # Absent
          /\ blob[e.key] = e.cur /\ (e.cur # Absent => Rev(e.key) = e.revision)
      BY <1>0, <1>3, <3>1, <3>5 DEF UndisturbedAt, IsBatch
    <3> QED
      BY <1>0, <3>4, <3>6 DEF Allowed, EntryAt
  <2> QED
    BY <2>1, <2>2
<1> QED
  BY <1>1, <1>2, <1>3, WrittenOnce, StillAsPlanned, BackendStays DEF UndisturbedAt

-----------------------------------------------------------------------------
(* The tally of a batch.                                                    *)

(* An outcome is recorded once, by the last step of a command.              *)
LEMMA OutcomeSteps ==
  ASSUME TypeOK, [Next]_vars, NEW p \in Commands
  PROVE  \/ outcome'[p] = outcome[p]
         \/ PlanFails(p) \/ Authorize(p) \/ Refuse(p) \/ Fail(p) \/ Succeed(p)
<1>1. ASSUME NEW q \in Commands, AskAny(q) \/ PlanRead(q) \/ PlanPrune(q) \/ Crash(q)
      PROVE  outcome' = outcome
  BY <1>1 DEF AskAny, AskPush, AskDelete, AskBatch, AskRollback, Ask, PlanRead, PlanPrune,
     Crash
<1>2. ASSUME NEW q \in Commands, Applying(q), ~Refuse(q), ~Fail(q), ~Succeed(q)
      PROVE  outcome' = outcome
  BY <1>2 DEF Applying, BackUp, WriteKey, Inspect, Update, Commit, Answered
<1>3. ASSUME NEW q \in Commands, q # p,
             PlanFails(q) \/ Authorize(q) \/ Refuse(q) \/ Fail(q) \/ Succeed(q)
      PROVE  outcome'[p] = outcome[p]
  BY <1>3 DEF PlanFails, Authorize, Refuse, Fail, Succeed, End, TypeOK
<1> QED
  BY <1>1, <1>2, <1>3 DEF Next, Planning, OtherWrite, vars

(* Only the answer to a write of its own makes a command count.             *)
LEMMA SucceededSteps ==
  ASSUME TypeOK, [Next]_vars, NEW p \in Commands
  PROVE  succeeded'[p] = succeeded[p] \/ Answered(p)
<1>1. ASSUME NEW q \in Commands, AskAny(q) \/ Planning(q) \/ Crash(q)
      PROVE  succeeded' = succeeded
  BY <1>1 DEF AskAny, AskPush, AskDelete, AskBatch, AskRollback, Ask, Planning, PlanRead,
     PlanPrune, PlanFails, Authorize, Crash
<1>2. ASSUME NEW q \in Commands, Applying(q), ~Answered(q)
      PROVE  succeeded' = succeeded
  BY <1>2 DEF Applying, BackUp, WriteKey, Inspect, Update, Commit, Refuse, Fail, Succeed, End
<1>3. ASSUME NEW q \in Commands, q # p, Answered(q)
      PROVE  succeeded'[p] = succeeded[p]
  BY <1>3 DEF Answered, TypeOK
<1> QED
  BY <1>1, <1>2, <1>3 DEF Next, OtherWrite, vars

(* While a command applies its plan, its count misses at most the one write *)
(* whose answer it awaits.                                                  *)
LEMMA AtMostOneUncounted ==
  ASSUME IInv, NEW p \in Commands, pc[p] \in {"apply", "write", "update", "answer"}
  PROVE  /\ succeeded[p] \in Nat /\ Cardinality(committed[p]) \in Nat
         /\ succeeded[p] <= Cardinality(committed[p])
         /\ Cardinality(committed[p]) <= succeeded[p] + 1
<1> DEFINE counted == committed[p] \ left[p]
<1>1. /\ TypeOK /\ PlanAt(p) /\ UndisturbedAt(p) /\ TallyAt(p)
      /\ committed[p] \subseteq {e.key : e \in Todo(p)}
  BY DEF IInv, CommandInv, TallyInv, TallyAt
<1>2. IsFiniteSet(counted)
  <2>1. counted \in SUBSET Keys
    BY <1>1 DEF TypeOK
  <2> QED
    BY <2>1, FS_Subset, ConstantsOK
<1>3. succeeded[p] = Cardinality(counted)
  BY <1>1 DEF TallyAt
<1>4. committed[p] = counted \/ \E k : k \notin counted /\ committed[p] = counted \cup {k}
  <2>1. CASE committed[p] \cap left[p] = {}
    BY <2>1
  <2>2. ASSUME NEW k \in committed[p] \cap left[p]
        PROVE  committed[p] = counted \cup {k}
    <3>1. PICK e \in Todo(p) : e.key = k /\ Current(p, e)
      BY <1>1, <2>2 DEF UndisturbedAt
    <3>2. \A j \in committed[p] \cap left[p] : \E f \in Todo(p) : f.key = j /\ Current(p, f)
      BY <1>1 DEF UndisturbedAt
    <3>3. \A j \in committed[p] \cap left[p] : j = k
      BY <1>1, <3>1, <3>2, CurrentIsUnique
    <3> QED
      BY <3>3
  <2> QED
    BY <2>1, <2>2
<1>5. Cardinality(counted) \in Nat
  BY <1>2, FS_CardinalityType
<1>6. ASSUME NEW k, k \notin counted
      PROVE  Cardinality(counted \cup {k}) = Cardinality(counted) + 1
  <2> HIDE DEF counted
  <2> QED
    BY <1>2, <1>6, FS_AddElement
<1> HIDE DEF counted
<1> QED
  BY <1>3, <1>4, <1>5, <1>6

(* The sizes of the parts of a plan.                                        *)
LEMMA PlanSizes ==
  ASSUME TypeOK, NEW p \in Commands
  PROVE  /\ Cardinality(Todo(p)) \in Nat
         /\ Cardinality({e \in plan[p] : e.kind = "skip"}) \in Nat
         /\ Padded = {} => Cardinality(plan[p]) =
              Cardinality(Todo(p)) + Cardinality({e \in plan[p] : e.kind = "skip"})
<1> DEFINE skips == {e \in plan[p] : e.kind = "skip"}
<1>1. IsFiniteSet(Todo(p)) /\ IsFiniteSet(skips)
  <2>1. \A T \in SUBSET plan[p] : IsFiniteSet(T)
    BY FS_Subset DEF TypeOK
  <2> QED
    BY <2>1 DEF Todo
<1>2. Cardinality(Todo(p) \cup skips) =
        Cardinality(Todo(p)) + Cardinality(skips) - Cardinality(Todo(p) \cap skips)
  <2> HIDE DEF skips
  <2> QED
    BY <1>1, FS_Union
<1>3. Cardinality(Todo(p) \cap skips) = 0
  <2>1. Todo(p) \cap skips = {}
    BY DEF Todo
  <2> QED
    BY <2>1, FS_EmptySet
<1>4. Padded = {} => Todo(p) \cup skips = plan[p]
  BY DEF Todo, Dropped
<1>5. Cardinality(Todo(p)) \in Nat /\ Cardinality(skips) \in Nat
  BY <1>1, FS_CardinalityType
<1>6. Padded = {} => Cardinality(plan[p]) = Cardinality(Todo(p)) + Cardinality(skips)
  <2> SUFFICES ASSUME Padded = {}
               PROVE  Cardinality(plan[p]) = Cardinality(Todo(p)) + Cardinality(skips)
    OBVIOUS
  <2> HIDE DEF skips
  <2>1. Cardinality(plan[p]) = Cardinality(Todo(p) \cup skips)
    BY <1>4, Zenon
  <2> QED
    BY <1>2, <1>3, <1>5, <2>1
<1> QED
  BY <1>5, <1>6

LEMMA TallyInvHolds ==
  ASSUME IInv, [Next]_vars
  PROVE  TallyInv'
<1> SUFFICES ASSUME NEW p \in Commands PROVE TallyAt(p)' /\ HonestAt(p)'
  BY DEF TallyInv
<1> DEFINE late == {"apply", "write", "update", "answer"}
<1>0. /\ TypeOK /\ ProgressAt(p) /\ PlanAt(p) /\ UndisturbedAt(p) /\ RequestAt(p)
      /\ \A e \in plan[p] : Current(p, e) => ApplyAt(p, e)
      /\ TallyAt(p) /\ HonestAt(p)
      /\ committed[p] \subseteq Keys
  BY DEF IInv, CommandInv, TallyInv, TypeOK
<1>a. /\ \/ outcome'[p] = outcome[p]
         \/ PlanFails(p) \/ Authorize(p) \/ Refuse(p) \/ Fail(p) \/ Succeed(p)
      /\ succeeded'[p] = succeeded[p] \/ Answered(p)
  BY <1>0, OutcomeSteps, SucceededSteps
<1>b. outcome'[p].status = "none" => HonestAt(p)'
  BY DEF HonestAt
<1>c. request'[p] = request[p] /\ plan'[p] = plan[p] => Todo(p)' = Todo(p)
  BY DEF Todo, Dropped, IsBatch
<1>1. CASE /\ pc'[p] = pc[p] /\ request'[p] = request[p] /\ plan'[p] = plan[p]
           /\ left'[p] = left[p] /\ committed'[p] = committed[p]
           /\ succeeded'[p] = succeeded[p] /\ outcome'[p] = outcome[p]
  <2>1. TallyAt(p)'
    BY <1>0, <1>1, <1>c DEF TallyAt
  <2>2. HonestAt(p)'
    BY <1>0, <1>1, <1>c DEF HonestAt
  <2> QED
    BY <2>1, <2>2
<1>2. CASE AskAny(p)
  <2>1. PICK r \in Requests : Ask(p, r) /\ pc[p] = "start" /\ pc'[p] = "plan"
    BY <1>0, <1>2, AskSteps
  <2>2. committed'[p] = {} /\ succeeded' = succeeded /\ outcome' = outcome
    BY <1>0, <2>1 DEF Ask, ProgressAt, history
  <2> QED
    BY <1>0, <1>b, <2>1, <2>2 DEF TallyAt
<1>3. CASE PlanRead(p) \/ PlanPrune(p)
  <2>1. /\ pc[p] = "plan" /\ pc'[p] \in {"plan", "pruned"} /\ committed'[p] = {}
        /\ succeeded' = succeeded /\ outcome' = outcome
    BY <1>0, <1>3 DEF PlanRead, PlanPrune, ProgressAt, TypeOK, history
  <2> QED
    BY <1>0, <1>b, <2>1 DEF TallyAt
<1>4. CASE PlanFails(p)
  <2>1. /\ pc'[p] = "done" /\ committed'[p] = {}
        /\ outcome'[p] = NoOutcome("refused")
    BY <1>0, <1>4 DEF PlanFails, ProgressAt, TypeOK, history
  <2>2. Cardinality(committed'[p]) = 0
    BY <2>1, FS_EmptySet
  <2> QED
    BY <2>1, <2>2 DEF TallyAt, HonestAt, NoOutcome
<1>5. CASE Authorize(p)
  <2>1. /\ committed'[p] = {} /\ succeeded'[p] = 0
        /\ request' = request /\ plan' = plan
        /\ \/ /\ Todo(p) = {} /\ pc'[p] = "done"
              /\ outcome'[p] = NoOutcome("unchanged")
           \/ /\ pc'[p] = "apply" /\ outcome' = outcome /\ pc[p] # "done"
    BY <1>0, <1>5 DEF Authorize, Planned, ProgressAt, TallyAt, TypeOK, history
  <2>2. Cardinality(committed'[p] \ left'[p]) = 0
    <3>1. committed'[p] \ left'[p] = {}
      BY <2>1
    <3> QED
      BY <3>1, FS_EmptySet
  <2>3. TallyAt(p)'
    BY <1>0, <2>1, <2>2 DEF TallyAt
  <2>4. HonestAt(p)'
    <3>1. CASE outcome' = outcome /\ pc[p] # "done"
      BY <1>0, <1>b, <3>1 DEF TallyAt
    <3>2. CASE Todo(p) = {} /\ outcome'[p] = NoOutcome("unchanged")
      <4>1. Todo(p)' = {}
        BY <1>c, <2>1, <3>2
      <4> QED
        BY <2>1, <3>2, <4>1 DEF HonestAt, NoOutcome
    <3> QED
      BY <2>1, <3>1, <3>2
  <2> QED
    BY <2>3, <2>4
<1>6. CASE Crash(p)
  <2>1. /\ pc[p] # "done" /\ pc'[p] = "dead" /\ outcome' = outcome /\ plan' = plan
        /\ request' = request /\ committed' = committed
    BY <1>0, <1>6 DEF Crash, TypeOK, history
  <2> QED
    BY <1>0, <1>b, <1>c, <2>1 DEF TallyAt
<1>7. CASE BackUp(p) \/ Inspect(p)
  <2>1. /\ pc[p] \in late /\ pc'[p] \in late /\ request' = request /\ plan' = plan
        /\ left' = left /\ committed' = committed
        /\ succeeded' = succeeded /\ outcome' = outcome
    BY <1>0, <1>7 DEF BackUp, Inspect, ReadyToWrite, TypeOK, history
  <2> QED
    BY <1>0, <1>b, <1>c, <2>1 DEF TallyAt
<1>8. CASE WriteKey(p) \/ Update(p)
  <2>1. PICK e \in plan[p] : /\ Current(p, e) /\ Commit(p, e)
                             /\ pc[p] \in {"apply", "write", "update"}
                             /\ committed'[p] = committed[p] \cup {e.key}
    BY <1>0, <1>8, CommitSteps
  <2>2. /\ pc'[p] = "answer" /\ request' = request /\ plan' = plan /\ left' = left
        /\ succeeded' = succeeded /\ outcome' = outcome
    BY <1>0, <2>1 DEF Commit, TypeOK
  <2>3. e \in Todo(p) /\ e.key \in left[p]
    BY <2>1 DEF Current
  <2>4. committed'[p] \ left'[p] = committed[p] \ left[p]
    BY <2>1, <2>2, <2>3
  <2>5. committed'[p] \subseteq {f.key : f \in Todo(p)'}
    BY <1>0, <1>c, <2>1, <2>2, <2>3 DEF TallyAt
  <2> QED
    BY <1>0, <1>b, <2>1, <2>2, <2>4, <2>5 DEF TallyAt
<1>9. CASE Answered(p)
  <2>1. PICK e \in plan[p] : Current(p, e) /\ left'[p] = left[p] \ {e.key}
    BY <1>0, <1>9 DEF Answered, TypeOK
  <2>2. /\ pc[p] = "answer" /\ pc'[p] = "apply" /\ request' = request /\ plan' = plan
        /\ committed' = committed /\ outcome' = outcome
        /\ succeeded'[p] = succeeded[p] + 1
    BY <1>0, <1>9 DEF Answered, TypeOK, history
  <2>3. e.key \in committed[p] /\ e.key \in left[p]
    BY <1>0, <2>1, <2>2 DEF ApplyAt, Current
  <2> DEFINE counted == committed[p] \ left[p]
  <2>4. committed'[p] \ left'[p] = counted \cup {e.key} /\ e.key \notin counted
    BY <2>1, <2>2, <2>3
  <2>5. succeeded[p] = Cardinality(counted)
    BY <1>0, <2>2 DEF TallyAt
  <2>6. IsFiniteSet(counted)
    <3>1. counted \in SUBSET Keys
      BY <1>0
    <3> QED
      BY <3>1, FS_Subset, ConstantsOK
  <2>7. Cardinality(committed'[p] \ left'[p]) = succeeded'[p]
    <3> HIDE DEF counted
    <3>1. Cardinality(counted \cup {e.key}) = Cardinality(counted) + 1
      BY <2>4, <2>6, FS_AddElement
    <3> QED
      BY <2>2, <2>4, <2>5, <3>1
  <2> QED
    BY <1>0, <1>b, <1>c, <2>2, <2>7 DEF TallyAt
<1>10. CASE Refuse(p) \/ Fail(p)
  <2>1. /\ pc[p] \in late /\ pc'[p] = "done" /\ request' = request /\ plan' = plan
        /\ committed' = committed /\ outcome'[p] = Tally(p, 1)
    BY <1>0, <1>10 DEF Refuse, Fail, End, ReadyToWrite, TypeOK
  <2>2. Todo(p)' = Todo(p)
    BY <1>c, <2>1
  <2> DEFINE skips == Cardinality({e \in plan[p] : e.kind = "skip"})
  <2>3. /\ outcome'[p].status \in {"failed", "partial_failed"}
        /\ outcome'[p].succeeded = succeeded[p] /\ outcome'[p].failed = 1
        /\ outcome'[p].skipped = Cardinality(Todo(p)) + skips - succeeded[p] - 1
    BY <2>1 DEF Tally
  <2>4. /\ Cardinality(Todo(p)) \in Nat /\ skips \in Nat
    BY <1>0, PlanSizes
  <2>5. /\ succeeded[p] \in Nat /\ Cardinality(committed[p]) \in Nat
        /\ succeeded[p] <= Cardinality(committed[p])
        /\ Cardinality(committed[p]) <= succeeded[p] + 1
    BY <2>1, AtMostOneUncounted
  <2>6. skips' = skips /\ Cardinality(Todo(p)') = Cardinality(Todo(p))
    BY <2>1, <2>2
  <2>7. HonestAt(p)'
    <3>1. /\ outcome'[p].succeeded + outcome'[p].failed + outcome'[p].skipped
               = Cardinality(Todo(p)) + skips
          /\ outcome'[p].succeeded <= Cardinality(committed[p])
          /\ Cardinality(committed[p]) <= outcome'[p].succeeded + outcome'[p].failed
      <4> HIDE DEF skips
      <4> QED
        BY <2>3, <2>4, <2>5
    <3> QED
      BY <2>1, <2>2, <2>3, <3>1 DEF HonestAt
  <2> QED
    BY <1>0, <2>1, <2>2, <2>7 DEF TallyAt
<1>11. CASE Succeed(p)
  <2>1. /\ pc[p] = "apply" /\ pc'[p] = "done" /\ request' = request /\ plan' = plan
        /\ committed' = committed /\ outcome'[p] = Tally(p, 0) /\ left[p] = {}
    BY <1>0, <1>11 DEF Succeed, End, TypeOK
  <2>2. Todo(p)' = Todo(p)
    BY <1>c, <2>1
  <2> DEFINE skips == Cardinality({e \in plan[p] : e.kind = "skip"})
  <2>3. /\ outcome'[p].status = "success"
        /\ outcome'[p].succeeded = succeeded[p] /\ outcome'[p].failed = 0
        /\ outcome'[p].skipped = Cardinality(Todo(p)) + skips - succeeded[p] - 0
    BY <2>1 DEF Tally
  <2>4. Cardinality(Todo(p)) \in Nat /\ skips \in Nat /\ succeeded[p] \in Nat
    BY <1>0, PlanSizes DEF TypeOK
  <2>5. succeeded[p] = Cardinality(committed[p])
    <3>1. committed[p] \ left[p] = committed[p]
      BY <2>1
    <3> QED
      BY <1>0, <2>1, <3>1 DEF TallyAt
  <2>6. committed[p] = {e.key : e \in Todo(p)}
    BY <1>0, <2>1 DEF TallyAt, ProgressAt
  <2>7. HonestAt(p)'
    <3>1. /\ outcome'[p].succeeded + outcome'[p].failed + outcome'[p].skipped
               = Cardinality(Todo(p)) + skips
          /\ outcome'[p].succeeded <= Cardinality(committed[p])
          /\ Cardinality(committed[p]) <= outcome'[p].succeeded + outcome'[p].failed
      <4> HIDE DEF skips
      <4> QED
        BY <2>3, <2>4, <2>5
    <3> QED
      BY <2>1, <2>2, <2>3, <2>6, <3>1 DEF HonestAt
  <2> QED
    BY <1>0, <2>1, <2>2, <2>7 DEF TallyAt
<1> QED
  BY <1>0, <1>a, <1>1, <1>2, <1>3, <1>4, <1>5, <1>6, <1>7, <1>8, <1>9, <1>10, <1>11,
     CourseSteps DEF Planning, Applying

-----------------------------------------------------------------------------
(* The inductive invariant: without a lock, every revision that a plan or   *)
(* an Update holds tells what its command needs to know of the blob as it   *)
(* is now, and a command writes the entries of its plan one at a time.      *)
THEOREM Inductive == Spec => []IInv
<1>1. Init => IInv
  <2> SUFFICES ASSUME Init PROVE IInv
    OBVIOUS
  <2>1. TypeOK
    BY TypeCorrectAtInit
  <2>2. \A p \in Commands : plan[p] = {} /\ pc[p] = "start" /\ committed[p] = {}
    BY DEF Init
  <2>3. \A p \in Commands : /\ RequestAt(p) /\ PlanAt(p) /\ ProgressAt(p)
                            /\ UndisturbedAt(p)
    BY <2>2 DEF Init, RequestAt, PlanAt, ProgressAt, UndisturbedAt
  <2>4. PresentHasRevision /\ DeletesComeLast
    BY <2>2 DEF Init, PresentHasRevision, DeletesComeLast
  <2>5. TallyInv
    BY <2>2 DEF Init, TallyInv, TallyAt, HonestAt, NoOutcome
  <2> QED
    BY <2>1, <2>2, <2>3, <2>4, <2>5 DEF IInv, CommandInv
<1>2. IInv /\ [Next]_vars => IInv'
  <2> SUFFICES ASSUME IInv, [Next]_vars PROVE IInv'
    OBVIOUS
  <2>1. TypeOK'
    BY TypesAreKept DEF IInv
  <2>2. CommandInv'
    BY RequestAtHolds, PlanAtHolds, ProgressAtHolds, UndisturbedAtHolds, EntryAtHolds,
       ApplyAtHolds
       DEF CommandInv
  <2> QED
    BY <2>1, <2>2, PresentHasRevisionHolds, DeletesComeLastHolds, TallyInvHolds DEF IInv
<1> QED
  BY <1>1, <1>2, PTL DEF Spec

(* The type invariant: no interleaving of commands, backend errors, crashes *)
(* and other writers takes a variable out of its type.                      *)
THEOREM TypeCorrect == Spec => []TypeOK
<1>1. IInv => TypeOK
  BY DEF IInv
<1> QED
  BY <1>1, Inductive, PTL

(* Deletes come last: for any plan of any size, a reconcile has made all    *)
(* its creates and updates when it makes its first delete.                  *)
THEOREM NoGap == Spec => []DeletesComeLast
<1>1. IInv => DeletesComeLast
  BY DEF IInv
<1> QED
  BY <1>1, Inductive, PTL

(* A write that takes effect found its precondition true, or found nothing. *)
LEMMA WritesAreAllowed ==
  ASSUME IInv, [Next]_vars, NEW p \in Commands, NEW e \in plan[p], Writes(p, e)
  PROVE  /\ EntryAt(p, e) /\ e.kind # "skip"
         /\ \/ Allowed(e)
            \/ blob[e.key] = Absent /\ e.kind \in {"create", "put"}
         /\ request[p].backup => blob[e.key] = Absent \/ SavedAt(p, e)
<1>0. /\ TypeOK /\ PlanAt(p)
      /\ \A f \in plan[p] : EntryAt(p, f) /\ (Current(p, f) => ApplyAt(p, f))
  BY DEF IInv, CommandInv
<1>1. WriteKey(p) \/ Update(p)
  <2>1. committed'[p] # committed[p]
    BY DEF Writes
  <2>2. CASE AskAny(p)
    BY <1>0, <2>1, <2>2, AskSteps DEF Ask, history
  <2> QED
    BY <1>0, <2>1, <2>2, AfterAsking, CourseSteps
<1>2. PICK f \in plan[p] :
        /\ Current(p, f)
        /\ committed'[p] = committed[p] \cup {f.key}
        /\ \/ pc[p] = "update" /\ Accepted(p, f)
           \/ pc[p] = (IF request[p].backup THEN "write" ELSE "apply") /\ Allowed(f)
  BY <1>0, <1>1, CommitSteps
<1>3. e = f /\ e.key \in Keys
  BY <1>0, <1>2, EntryFacts DEF Writes, PlanAt
<1>4. EntryAt(p, e) /\ ApplyAt(p, e) /\ e.kind # "skip"
  BY <1>0, <1>2, <1>3 DEF Current, Todo
<1>5. CASE pc[p] = "update" /\ Accepted(p, e)
  <2>1. SeenAt(p, e) /\ (request[p].backup => SavedAt(p, e))
    BY <1>4, <1>5 DEF ApplyAt
  <2> QED
    BY <1>3, <1>4, <1>5, <2>1 DEF Accepted, SeenAt, Vacant
<1>6. CASE pc[p] = (IF request[p].backup THEN "write" ELSE "apply") /\ Allowed(e)
  BY <1>4, <1>6 DEF ApplyAt
<1> QED
  BY <1>2, <1>3, <1>5, <1>6

(* No lost update: for any commands, keys and contents, on both kinds of    *)
(* backend, a batch and a push --create-only replace only what they planned *)
(* to replace.                                                              *)
THEOREM NoUpdateIsLost == Spec => NoLostUpdate
<1>1. IInv /\ [Next]_vars =>
        [ \A p \in Commands : \A e \in plan[p] :
            Writes(p, e) /\ (IsBatch(p) \/ e.kind = "create") => blob[e.key] = e.cur ]_vars
  <2> SUFFICES ASSUME IInv, [Next]_vars, NEW p \in Commands, NEW e \in plan[p],
                      Writes(p, e), IsBatch(p) \/ e.kind = "create"
               PROVE  blob[e.key] = e.cur
    OBVIOUS
  <2>1. /\ EntryAt(p, e) /\ e.kind # "skip"
        /\ \/ Allowed(e)
           \/ blob[e.key] = Absent /\ e.kind \in {"create", "put"}
    BY WritesAreAllowed
  <2>2. e.kind \in {"create", "update", "put", "delete", "skip"} /\ e.revision \in Nat
    BY EntryFacts DEF IInv
  <2>3. CASE e.kind = "create"
    BY <2>1, <2>3 DEF EntryAt, Allowed
  <2>4. CASE e.kind \in {"update", "delete"}
    BY <2>1, <2>2, <2>4 DEF EntryAt, Allowed
  <2> QED
    BY <2>1, <2>2, <2>3, <2>4 DEF EntryAt
<1> QED
  BY <1>1, Inductive, PTL DEF Spec, NoLostUpdate

(* Backups come first: what a write with a precondition destroys has been   *)
(* saved by the same command, exactly as it was.                            *)
THEOREM BackupsComeFirst == Spec => SavedBeforeReplaced
<1>1. IInv /\ [Next]_vars =>
        [ \A p \in Commands : \A e \in plan[p] :
            Writes(p, e) /\ request[p].backup /\ (IsBatch(p) \/ e.revision # 0)
              /\ blob[e.key] # Absent =>
                [by |-> p, key |-> e.key, content |-> blob[e.key]] \in backups ]_vars
  <2> SUFFICES ASSUME IInv, [Next]_vars, NEW p \in Commands, NEW e \in plan[p],
                      Writes(p, e), request[p].backup, IsBatch(p) \/ e.revision # 0,
                      blob[e.key] # Absent
               PROVE  [by |-> p, key |-> e.key, content |-> blob[e.key]] \in backups
    OBVIOUS
  <2>1. Allowed(e) /\ SavedAt(p, e)
    BY WritesAreAllowed
  <2> QED
    BY <2>1 DEF SavedAt
<1> QED
  BY <1>1, Inductive, PTL DEF Spec, SavedBeforeReplaced

(* On etcd and Consul, a batch is told CONFLICT only if somebody else has   *)
(* written since it was asked, however many keys it writes.                 *)
THEOREM NoSelfConflict == Spec => []ConflictMeansInterference
<1>1. IInv => ConflictMeansInterference
  BY DEF IInv, CommandInv, UndisturbedAt, ConflictMeansInterference
<1> QED
  BY <1>1, Inductive, PTL

(* What a command reports is true of every write that it attempted, for any *)
(* keys, and whatever is done between its reads and its writes: the counts  *)
(* add up, a success has written them all, and a failure hides at most the  *)
(* one write it failed at.                                                  *)
THEOREM AttemptsAreReported == Spec => [](\A p \in Commands : HonestAt(p))
<1>1. IInv => \A p \in Commands : HonestAt(p)
  BY DEF IInv, TallyInv
<1> QED
  BY <1>1, Inductive, PTL

(* A batch attempts every change that it planned and previewed if no key of *)
(* its source has spaces around it; its report is then true of the plan.    *)
THEOREM OutcomesAreHonest ==
  ASSUME Padded = {}
  PROVE  Spec => []OutcomeHonest
<1>1. IInv => OutcomeHonest
  <2> SUFFICES ASSUME IInv, NEW p \in Commands
               PROVE  LET o == outcome[p]
                          n == Cardinality(committed[p])
                      IN /\ o.status \in {"success", "failed", "partial_failed"} =>
                              /\ o.succeeded + o.failed + o.skipped = Cardinality(plan[p])
                              /\ o.succeeded <= n /\ n <= o.succeeded + o.failed
                         /\ o.status \in {"success", "unchanged"} => committed[p] =
                              {e.key : e \in {f \in plan[p] : f.kind # "skip"}}
                         /\ o.status = "refused" => n = 0
    BY DEF OutcomeHonest
  <2>1. TypeOK /\ HonestAt(p)
    BY DEF IInv, TallyInv
  <2>2. Todo(p) = {f \in plan[p] : f.kind # "skip"}
    BY DEF Todo, Dropped
  <2>3. Cardinality(plan[p]) =
          Cardinality(Todo(p)) + Cardinality({e \in plan[p] : e.kind = "skip"})
    BY <2>1, PlanSizes
  <2> QED
    BY <2>1, <2>2, <2>3 DEF HonestAt
<1> QED
  BY <1>1, Inductive, PTL

(* config_bulk.go:1190: a planned create or update of a key with spaces     *)
(* around it is never written, and the batch that drops it may succeed: by  *)
(* AttemptsAreReported its report says nothing of that key.                 *)
THEOREM PaddedKeysAreDropped ==
  Spec => [](\A p \in Commands : \A e \in plan[p] :
               Dropped(p, e) => e.key \notin committed[p])
<1>1. IInv => \A p \in Commands : \A e \in plan[p] :
                Dropped(p, e) => e.key \notin committed[p]
  <2> SUFFICES ASSUME IInv, NEW p \in Commands, NEW e \in plan[p],
                      Dropped(p, e), e.key \in committed[p]
               PROVE  FALSE
    OBVIOUS
  <2>1. PlanAt(p) /\ committed[p] \subseteq {f.key : f \in Todo(p)}
    BY DEF IInv, CommandInv, TallyInv, TallyAt
  <2>2. PICK f \in Todo(p) : f.key = e.key
    BY <2>1
  <2>3. f \in plan[p] /\ ~Dropped(p, f)
    BY <2>2 DEF Todo
  <2> QED
    BY <2>1, <2>2, <2>3 DEF PlanAt
<1> QED
  BY <1>1, Inductive, PTL

-----------------------------------------------------------------------------
(* Several keys in one Kubernetes object.                                   *)

(* Once a batch has written a key, the revision that it planned for any key *)
(* of the same object is in the past.                                       *)
MovedInv ==
  \A p \in Commands : \A e \in plan[p] : Versioned(p, e) =>
    /\ pc[p] # "start"
    /\ \A k \in committed[p] : Obj(k) = Obj(e.key) => e.revision < Rev(e.key)

LEMMA MovedInvHolds ==
  ASSUME IInv, MovedInv, [Next]_vars
  PROVE  MovedInv'
<1> SUFFICES ASSUME NEW p \in Commands, NEW e \in plan'[p], Versioned(p, e)'
             PROVE  /\ pc'[p] # "start"
                    /\ \A k \in committed'[p] : Obj(k)' = Obj(e.key)' => e.revision < Rev(e.key)'
  BY DEF MovedInv
<1>0. TypeOK /\ RequestAt(p) /\ ProgressAt(p) /\ \A f \in plan[p] : EntryAt(p, f)
  BY DEF IInv, CommandInv
<1>1. ASSUME request'[p] = request[p], e \in plan[p],
             NEW k \in committed[p], Obj(k)' = Obj(e.key)'
      PROVE  e.revision < Rev(e.key)'
  <2>1. e.revision < Rev(e.key)
    BY <1>1, BackendStays DEF MovedInv, Versioned, IsBatch
  <2>2. e.key \in Keys /\ e.revision \in Nat /\ Rev(e.key) \in Nat
    BY <1>0, <1>1, EntryFacts
  <2> QED
    BY <1>0, <2>1, <2>2, RevisionsRise
<1>2. CASE /\ pc'[p] = pc[p] /\ request'[p] = request[p] /\ plan'[p] = plan[p]
           /\ committed'[p] = committed[p]
  BY <1>1, <1>2 DEF MovedInv, Versioned, IsBatch
<1>3. CASE AskAny(p)
  <2>1. PICK r \in Requests : Ask(p, r) /\ pc[p] = "start" /\ pc'[p] = "plan"
    BY <1>0, <1>3, AskSteps
  <2>2. committed'[p] = {}
    BY <1>0, <2>1 DEF Ask, ProgressAt, history
  <2> QED
    BY <2>1, <2>2
<1>4. CASE Planning(p) \/ Applying(p) \/ Crash(p)
  <2>1. /\ request' = request /\ pc'[p] # "start"
        /\ plan' = plan \/ PlanRead(p) \/ PlanPrune(p)
        /\ committed' = committed \/ WriteKey(p) \/ Update(p)
    BY <1>0, <1>4, AfterAsking
  <2>2. CASE PlanRead(p) \/ PlanPrune(p)
    <3>1. committed'[p] = {}
      BY <1>0, <2>2 DEF PlanRead, PlanPrune, ProgressAt, history
    <3> QED
      BY <2>1, <3>1
  <2>3. CASE WriteKey(p) \/ Update(p)
    <3>1. PICK f \in plan[p] :
            Commit(p, f) /\ committed'[p] = committed[p] \cup {f.key}
      BY <1>0, <2>3, CommitSteps
    <3>2. plan' = plan
      BY <3>1 DEF Commit
    <3>3. e \in plan[p] /\ f.key \in Keys /\ e.key \in Keys
      BY <1>0, <3>2, EntryFacts
    <3>4. ASSUME Obj(f.key)' = Obj(e.key)' PROVE e.revision < Rev(e.key)'
      <4>1. Obj(f.key) = Obj(e.key) /\ Obj(e.key)' = Obj(e.key)
        BY <3>4, BackendStays
      <4>2. Rev(e.key)' = Rev(e.key) + 1
        BY <1>0, <3>1, <3>3, <4>1, RevFacts DEF Commit, Rev, TypeOK
      <4>3. e.revision <= Rev(e.key) /\ e.revision \in Nat /\ Rev(e.key) \in Nat
        BY <1>0, <3>3, EntryFacts DEF EntryAt
      <4> QED
        BY <4>2, <4>3
    <3> QED
      BY <1>1, <2>1, <3>1, <3>3, <3>4
  <2>4. CASE plan' = plan /\ committed' = committed
    BY <1>1, <2>1, <2>4
  <2> QED
    BY <2>1, <2>2, <2>3, <2>4
<1> QED
  BY <1>0, <1>2, <1>3, <1>4, CourseSteps

(* Once a batch has written into an object, what it has still to write there *)
(* was planned with a revision that is past (config_bulk.go:806).            *)
THEOREM Moved == Spec => []MovedInv
<1>1. Init => MovedInv
  BY DEF Init, MovedInv
<1>2. IInv /\ MovedInv /\ [Next]_vars => MovedInv'
  BY MovedInvHolds
<1> QED
  BY <1>1, <1>2, Inductive, PTL DEF Spec

(* OneUpdateInAnObject holds: config_bulk.go:806 binds every write of a     *)
(* batch to the resourceVersion that its plan read, so that after a write   *)
(* into an object it can no longer update or delete any other key of it.    *)
THEOREM OneUpdatePerObject == Spec => OneUpdateInAnObject
<1>1. IInv /\ MovedInv /\ [Next]_vars =>
        [ \A p \in Commands : \A e \in plan[p] :
            Writes(p, e) /\ Versioned(p, e) =>
              \A k \in committed[p] : Obj(k) # Obj(e.key) ]_vars
  <2> SUFFICES ASSUME IInv, MovedInv, [Next]_vars, NEW p \in Commands, NEW e \in plan[p],
                      Writes(p, e), Versioned(p, e),
                      NEW k \in committed[p], Obj(k) = Obj(e.key)
               PROVE  FALSE
    OBVIOUS
  <2>1. EntryAt(p, e) /\ Allowed(e)
    BY WritesAreAllowed DEF Versioned
  <2>2. e.revision \in Nat /\ Rev(e.key) \in Nat
    BY EntryFacts DEF IInv
  <2>3. e.revision < Rev(e.key)
    BY DEF MovedInv
  <2> QED
    BY <2>1, <2>2, <2>3 DEF Versioned, EntryAt, Allowed
<1> QED
  BY <1>1, Inductive, Moved, PTL DEF Spec, OneUpdateInAnObject

(* So a batch that plans to update or delete two keys of one Kubernetes     *)
(* object never succeeds, whatever the other writers do or leave alone.     *)
NotBoth ==
  \A p \in Commands : \A d, e \in plan[p] :
    /\ Versioned(p, d) /\ Versioned(p, e) /\ d.key # e.key /\ Obj(d.key) = Obj(e.key)
    => ~(d.key \in committed[p] /\ e.key \in committed[p])

LEMMA NotBothHolds ==
  ASSUME IInv, MovedInv, NotBoth, [Next]_vars
  PROVE  NotBoth'
<1> SUFFICES ASSUME NEW p \in Commands, NEW d \in plan'[p], NEW e \in plan'[p],
                    Versioned(p, d)', Versioned(p, e)', d.key # e.key,
                    Obj(d.key)' = Obj(e.key)',
                    d.key \in committed'[p], e.key \in committed'[p]
             PROVE  FALSE
  BY DEF NotBoth
<1>0. TypeOK /\ ProgressAt(p) /\ PlanAt(p)
  BY DEF IInv, CommandInv
<1>1. Obj(d.key) = Obj(e.key)
  BY BackendStays
<1>2. CASE request'[p] = request[p] /\ plan'[p] = plan[p] /\ committed'[p] = committed[p]
  BY <1>1, <1>2 DEF NotBoth, Versioned, IsBatch
<1>3. CASE AskAny(p)
  <2>1. PICK r \in Requests : Ask(p, r) /\ pc[p] = "start"
    BY <1>0, <1>3, AskSteps
  <2> QED
    BY <1>0, <2>1 DEF Ask, ProgressAt, history
<1>4. CASE Planning(p) \/ Applying(p) \/ Crash(p)
  <2>1. /\ request' = request
        /\ plan' = plan \/ PlanRead(p) \/ PlanPrune(p)
        /\ committed' = committed \/ WriteKey(p) \/ Update(p)
    BY <1>0, <1>4, AfterAsking
  <2>2. CASE PlanRead(p) \/ PlanPrune(p)
    BY <1>0, <2>2 DEF PlanRead, PlanPrune, ProgressAt, history
  <2>3. CASE WriteKey(p) \/ Update(p)
    <3>1. PICK f \in plan[p] :
            Commit(p, f) /\ Current(p, f) /\ committed'[p] = committed[p] \cup {f.key}
      BY <1>0, <2>3, CommitSteps
    <3>2. /\ plan' = plan /\ d \in plan[p] /\ e \in plan[p]
          /\ Versioned(p, d) /\ Versioned(p, e)
      BY <2>1, <3>1 DEF Commit, Versioned, IsBatch
    <3>3. ASSUME NEW g \in plan[p], NEW h \in plan[p], Versioned(p, h),
                 g.key \in committed[p], h.key \notin committed[p], h.key \in committed'[p],
                 Obj(g.key) = Obj(h.key)
          PROVE  FALSE
      <4>1. Writes(p, h)
        BY <3>3 DEF Writes
      <4>2. EntryAt(p, h) /\ Allowed(h)
        BY <3>3, <4>1, WritesAreAllowed DEF Versioned
      <4>3. h.revision \in Nat /\ Rev(h.key) \in Nat /\ h.revision < Rev(h.key)
        BY <1>0, <3>3, EntryFacts DEF MovedInv
      <4> QED
        BY <3>3, <4>2, <4>3 DEF Versioned, EntryAt, Allowed
    <3> QED
      BY <1>1, <3>1, <3>2, <3>3 DEF NotBoth
  <2>4. CASE plan' = plan /\ committed' = committed
    BY <1>2, <2>1, <2>4
  <2> QED
    BY <2>1, <2>2, <2>3, <2>4
<1> QED
  BY <1>0, <1>2, <1>3, <1>4, CourseSteps

(* A batch that has to update or delete two data keys of one Kubernetes     *)
(* object never ends in success, even if nobody else writes                 *)
(* (config_bulk.go:806).                                                    *)
THEOREM TwoUpdatesNeverSucceed ==
  Spec => [](\A p \in Commands : \A d, e \in Todo(p) :
               /\ Versioned(p, d) /\ Versioned(p, e)
               /\ d.key # e.key /\ Obj(d.key) = Obj(e.key)
               => outcome[p].status # "success")
<1>1. Init => NotBoth
  BY DEF Init, NotBoth
<1>2. IInv /\ MovedInv /\ NotBoth /\ [Next]_vars => NotBoth'
  BY NotBothHolds
<1>3. IInv /\ NotBoth =>
        \A p \in Commands : \A d, e \in Todo(p) :
          /\ Versioned(p, d) /\ Versioned(p, e)
          /\ d.key # e.key /\ Obj(d.key) = Obj(e.key)
          => outcome[p].status # "success"
  <2> SUFFICES ASSUME IInv, NotBoth, NEW p \in Commands,
                      NEW d \in Todo(p), NEW e \in Todo(p),
                      Versioned(p, d), Versioned(p, e),
                      d.key # e.key, Obj(d.key) = Obj(e.key),
                      outcome[p].status = "success"
               PROVE  FALSE
    OBVIOUS
  <2>1. committed[p] = {f.key : f \in Todo(p)}
    BY DEF IInv, TallyInv, HonestAt
  <2>2. d \in plan[p] /\ e \in plan[p]
    BY DEF Todo
  <2> QED
    BY <2>1, <2>2 DEF NotBoth
<1> QED
  BY <1>1, <1>2, <1>3, Inductive, Moved, PTL DEF Spec
=============================================================================
