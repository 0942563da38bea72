-------------------------- MODULE RuleWrites_proofs --------------------------
(* Proofs about RuleWrites for any commands, rule types and rules, for both *)
(* kinds of backend and whatever other writers do.                          *)
EXTENDS RuleWrites, FiniteSetTheorems, TLAPS

-----------------------------------------------------------------------------
(* What the helpers return.                                                 *)

(* The empty set of rules is a rule set, no rule set is the absent blob,    *)
(* and reading a blob gives a rule set.                                     *)
LEMMA RuleSetFacts ==
  /\ NoRules \in RuleSets
  /\ Absent \notin RuleSets
  /\ RulesIn(Absent) = NoRules
  /\ \A b \in Blobs : RulesIn(b) \in RuleSets
  /\ \A b \in Blobs : RulesIn(b) # NoRules => b # Absent
BY ConstantsOK DEF NoRules, RuleSets, RulesIn, Blobs

(* An edit of a rule set is a rule set.                                     *)
LEMMA EditIsRuleSet ==
  ASSUME NEW p \in Commands, request[p] \in Requests, NEW rules \in RuleSets
  PROVE  Edit(p, rules) \in RuleSets
BY DEF Edit, RuleSets, Requests

(* A set of types has one least element at most.                            *)
LEMMA LeastIsUnique ==
  ASSUME NEW S \in SUBSET Types, NEW t, NEW u, IsLeast(t, S), IsLeast(u, S)
  PROVE  t = u /\ t \in S /\ t \in Types
BY ConstantsOK DEF IsLeast

(* An outcome has the type of an outcome.                                   *)
LEMMA TallyIsOutcome ==
  ASSUME TypeOK, NEW p \in Commands, NEW failed \in Int
  PROVE  Tally(p, failed) \in Outcomes
<1>1. IsFiniteSet({e \in plan[p] : e.skip})
  BY FS_Subset DEF TypeOK
<1>2. IsFiniteSet(request[p].types)
  <2>1. request[p].types \subseteq Types
    BY DEF TypeOK, Requests
  <2> QED
    BY <2>1, FS_Subset, ConstantsOK
<1>3. /\ Cardinality({e \in plan[p] : e.skip}) \in Int
      /\ Cardinality(request[p].types) \in Int
  BY <1>1, <1>2, FS_CardinalityType
<1>4. succeeded[p] \in Int
  BY DEF TypeOK
<1> QED
  BY <1>3, <1>4 DEF Tally, Outcomes, Statuses

-----------------------------------------------------------------------------
(* The type invariant, one lemma for each kind of step.                     *)
LEMMA AskKeepsTypes ==
  ASSUME TypeOK, NEW p \in Commands, AskAny(p)
  PROVE  TypeOK'
<1>1. ASSUME NEW verb \in Verbs, NEW types \in SUBSET Types, NEW mask \in SUBSET Rules,
             NEW local \in RuleSets, NEW expected \in Nat,
             Ask(p, verb, types, mask, local, expected)
      PROVE  TypeOK'
  <2>1. request' \in [Commands -> Requests]
    BY <1>1 DEF Ask, Requests, TypeOK
  <2> QED
    BY <1>1, <2>1 DEF Ask, TypeOK, store
<1>2. \A R \in SUBSET Rules : Own(p, R) \in RuleSets
  BY DEF Own, RuleSets
<1>3. \A t \in Types : 0..rev[t] \subseteq Nat
  BY DEF TypeOK
<1>4. Singles \subseteq Verbs /\ {"delete", "clear", "import", "rollback"} \subseteq Verbs
  BY DEF Verbs
<1>5. CASE AskSingle(p)
  BY <1>5, <1>1, <1>2, <1>3, <1>4 DEF AskSingle
<1>9. CASE AskDelete(p)
  BY <1>9, <1>1, <1>3, <1>4, RuleSetFacts DEF AskDelete
<1>6. CASE AskClear(p)
  BY <1>6, <1>1, <1>3, <1>4, RuleSetFacts DEF AskClear
<1>7. CASE AskImport(p)
  BY <1>7, <1>1, <1>2, <1>4 DEF AskImport
<1>8. CASE AskRollback(p)
  <2>1. PICK b \in backups : Ask(p, "rollback", {b.type}, Rules, b.rules, 0)
    BY <1>8 DEF AskRollback
  <2>2. b.type \in Types /\ b.rules \in RuleSets
    BY DEF TypeOK, Backups
  <2> QED
    BY <2>1, <2>2, <1>1, <1>4
<1> QED
  BY <1>5, <1>6, <1>7, <1>8, <1>9 DEF AskAny

(* The entry that PlanRead adds.                                            *)
LEMMA PlannedEntry ==
  ASSUME TypeOK, NEW p \in Commands, PlanRead(p)
  PROVE  \E t \in Types, e \in Entries :
           /\ IsLeast(t, left[p])
           /\ e.type = t /\ e.cur = blob[t] /\ e.revision = PlannedRevision(p, t)
           /\ e.next = Edit(p, RulesIn(blob[t]))
           /\ e.skip \in Skips(blob[t], e.next)
           /\ e.backup = NeedsBackup(p, RulesIn(blob[t]))
           /\ plan' = [plan EXCEPT ![p] = @ \cup {e}]
           /\ left' = [left EXCEPT ![p] = @ \ {t}]
<1>1. PICK t \in Types : LET rules == RulesIn(blob[t]) IN
        /\ IsLeast(t, left[p])
        /\ \E s \in Skips(blob[t], Edit(p, rules)) :
             plan' = [plan EXCEPT ![p] = @ \cup
               {[type |-> t, cur |-> blob[t], revision |-> PlannedRevision(p, t),
                 next |-> Edit(p, rules), skip |-> s, backup |-> NeedsBackup(p, rules)]}]
        /\ left' = [left EXCEPT ![p] = @ \ {t}]
  BY DEF PlanRead
<1>2. PICK s \in Skips(blob[t], Edit(p, RulesIn(blob[t]))) :
        plan' = [plan EXCEPT ![p] = @ \cup
          {[type |-> t, cur |-> blob[t], revision |-> PlannedRevision(p, t),
            next |-> Edit(p, RulesIn(blob[t])), skip |-> s,
            backup |-> NeedsBackup(p, RulesIn(blob[t]))]}]
  BY <1>1
<1> DEFINE e == [type |-> t, cur |-> blob[t], revision |-> PlannedRevision(p, t),
                 next |-> Edit(p, RulesIn(blob[t])), skip |-> s,
                 backup |-> NeedsBackup(p, RulesIn(blob[t]))]
<1>3. blob[t] \in Blobs /\ Edit(p, RulesIn(blob[t])) \in RuleSets
  BY RuleSetFacts, EditIsRuleSet DEF TypeOK
<1>4. PlannedRevision(p, t) \in Nat
  BY DEF TypeOK, PlannedRevision, Requests
<1>5. s \in BOOLEAN /\ NeedsBackup(p, RulesIn(blob[t])) \in BOOLEAN
  BY DEF Skips, NeedsBackup
<1>6. e \in Entries
  BY <1>3, <1>4, <1>5 DEF Entries
<1> QED
  BY <1>1, <1>2, <1>6

LEMMA PlanningKeepsTypes ==
  ASSUME TypeOK, NEW p \in Commands, Planning(p)
  PROVE  TypeOK'
<1>1. CASE PlanRead(p)
  <2>1. PICK t \in Types, e \in Entries :
          /\ plan' = [plan EXCEPT ![p] = @ \cup {e}]
          /\ left' = [left EXCEPT ![p] = @ \ {t}]
    BY <1>1, PlannedEntry
  <2>2. plan' \in [Commands -> SUBSET Entries]
    BY <2>1 DEF TypeOK
  <2>3. \A q \in Commands : IsFiniteSet(plan'[q])
    BY <2>1, FS_AddElement DEF TypeOK
  <2>4. left' \in [Commands -> SUBSET Types]
    BY <2>1 DEF TypeOK
  <2> QED
    BY <1>1, <2>2, <2>3, <2>4 DEF PlanRead, TypeOK, store
<1>2. CASE PlanFails(p)
  <2>1. Refusal \in Outcomes
    BY DEF Refusal, Outcomes, Statuses
  <2> QED
    BY <1>2, <2>1 DEF PlanFails, TypeOK, store, course
<1>3. CASE Authorize(p)
  <2>1. request[p].types \in SUBSET Types
    BY DEF TypeOK, Requests
  <2> QED
    BY <1>3, <2>1 DEF Authorize, TypeOK, store
<1> QED
  BY <1>1, <1>2, <1>3 DEF Planning

(* What Commit does to the backend.                                         *)
LEMMA CommitKeepsTypes ==
  ASSUME TypeOK, NEW p \in Commands, NEW e \in plan[p], Commit(p, e)
  PROVE  TypeOK'
<1>1. e \in Entries
  BY DEF TypeOK
<1>2. e.type \in Types /\ e.next \in RuleSets
  BY <1>1 DEF Entries
<1>3. blob' \in [Types -> Blobs] /\ rev' \in [Types -> Nat]
  BY <1>2 DEF Commit, TypeOK, Blobs
<1>4. committed' \in [Commands -> SUBSET Types]
  BY <1>2 DEF Commit, TypeOK
<1> QED
  BY <1>3, <1>4 DEF Commit, TypeOK, course

LEMMA ApplyingKeepsTypes ==
  ASSUME TypeOK, NEW p \in Commands, Applying(p)
  PROVE  TypeOK'
<1>0. \A e \in plan[p] : e.type \in Types
  BY DEF TypeOK, Entries
<1>1. CASE Skip(p)
  BY <1>1 DEF Skip, TypeOK, store
<1>2. CASE BackUp(p)
  <2>1. PICK e \in plan[p] : backups' = backups \cup
          IF blob[e.type] = Absent THEN {}
          ELSE {[by |-> p, type |-> e.type, rules |-> blob[e.type]]}
    BY <1>2 DEF BackUp
  <2>2. blob[e.type] # Absent => blob[e.type] \in RuleSets
    BY <1>0 DEF TypeOK, Blobs
  <2>3. backups' \subseteq Backups
    BY <2>1, <2>2, <1>0 DEF TypeOK, Backups
  <2> QED
    BY <1>2, <2>3 DEF BackUp, TypeOK, course
<1>3. CASE WriteKey(p)
  BY <1>3, CommitKeepsTypes DEF WriteKey
<1>4. CASE Inspect(p)
  <2>1. seen' \in [Commands -> Nat]
    BY <1>4, <1>0 DEF Inspect, TypeOK
  <2> QED
    BY <1>4, <2>1 DEF Inspect, TypeOK, store
<1>5. CASE Update(p)
  BY <1>5, CommitKeepsTypes DEF Update
<1>6. CASE Answered(p)
  <2>1. left' \in [Commands -> SUBSET Types] /\ succeeded' \in [Commands -> Nat]
    BY <1>6 DEF Answered, TypeOK
  <2> QED
    BY <1>6, <2>1 DEF Answered, TypeOK, store
<1>7. CASE Fail(p)
  BY <1>7, TallyIsOutcome DEF Fail, TypeOK, store, course
<1>8. CASE Succeed(p)
  BY <1>8, TallyIsOutcome DEF Succeed, TypeOK, store, course
<1> QED
  BY <1>1, <1>2, <1>3, <1>4, <1>5, <1>6, <1>7, <1>8 DEF Applying

LEMMA OtherWriteKeepsTypes ==
  ASSUME TypeOK, NEW t \in Types, OtherWrite(t)
  PROVE  TypeOK'
<1>1. blob[t] \in Blobs /\ Absent \in Blobs /\ [Rules -> {Other, NoRule}] \subseteq Blobs
  BY DEF TypeOK, Blobs, RuleSets
<1>2. blob' \in [Types -> Blobs] /\ rev' \in [Types -> Nat]
  BY <1>1 DEF OtherWrite, TypeOK
<1> QED
  BY <1>2 DEF OtherWrite, TypeOK, course

LEMMA TypeCorrectAtInit == Init => TypeOK
<1> SUFFICES ASSUME Init PROVE TypeOK
  OBVIOUS
<1>1. [verb |-> "import", types |-> {}, mask |-> {}, local |-> NoRules,
       expected |-> 0] \in Requests
  BY RuleSetFacts DEF Requests, Verbs
<1>2. [Refusal EXCEPT !.status = "none"] \in Outcomes
  BY DEF Refusal, Outcomes, Statuses
<1>3. IsFiniteSet({})
  BY FS_EmptySet
<1> QED
  BY <1>1, <1>2, <1>3 DEF Init, TypeOK, Blobs

LEMMA TypesAreKept == TypeOK /\ [Next]_vars => TypeOK'
<1> SUFFICES ASSUME TypeOK, [Next]_vars PROVE TypeOK'
  OBVIOUS
<1>1. CASE UNCHANGED vars
  BY <1>1 DEF TypeOK, vars
<1>2. ASSUME NEW p \in Commands, Crash(p) PROVE TypeOK'
  BY <1>2 DEF Crash, TypeOK, store, course
<1> QED
  BY <1>1, <1>2, AskKeepsTypes, PlanningKeepsTypes, ApplyingKeepsTypes,
     OtherWriteKeepsTypes DEF Next

(* The type invariant: no interleaving of commands, backend errors, crashes *)
(* and other writers takes a variable out of its type.                      *)
THEOREM TypeCorrect == Spec => []TypeOK
BY TypeCorrectAtInit, TypesAreKept, PTL DEF Spec

-----------------------------------------------------------------------------
(* What single steps do, stated once for the proofs below.                  *)

(* A step leaves a rule set and its revision alone, or moves the revision   *)
(* to one that the object has never had.                                    *)
LEMMA RevisionsRise ==
  ASSUME TypeOK, [Next]_vars, NEW t \in Types
  PROVE  \/ blob'[t] = blob[t] /\ rev'[t] = rev[t]
         \/ rev'[t] = rev[t] + 1
<1>1. ASSUME NEW u \in Types, NEW b, blob' = [blob EXCEPT ![u] = b],
             rev' = [rev EXCEPT ![u] = @ + 1]
      PROVE  \/ blob'[t] = blob[t] /\ rev'[t] = rev[t]
             \/ rev'[t] = rev[t] + 1
  BY <1>1 DEF TypeOK
<1>2. ASSUME NEW p \in Commands, NEW e \in plan[p], Commit(p, e)
      PROVE  \/ blob'[t] = blob[t] /\ rev'[t] = rev[t]
             \/ rev'[t] = rev[t] + 1
  BY <1>1, <1>2 DEF Commit, TypeOK, Entries
<1>3. ASSUME NEW p \in Commands, WriteKey(p) \/ Update(p)
      PROVE  \/ blob'[t] = blob[t] /\ rev'[t] = rev[t]
             \/ rev'[t] = rev[t] + 1
  BY <1>2, <1>3 DEF WriteKey, Update
<1>4. ASSUME NEW u \in Types, OtherWrite(u)
      PROVE  \/ blob'[t] = blob[t] /\ rev'[t] = rev[t]
             \/ rev'[t] = rev[t] + 1
  BY <1>1, <1>4 DEF OtherWrite
<1>5. ASSUME NEW p \in Commands, AskAny(p) \/ Planning(p) \/ Crash(p)
      PROVE  blob' = blob /\ rev' = rev
  BY <1>5 DEF AskAny, AskSingle, AskDelete, AskClear, AskImport, AskRollback, Ask, Planning,
     PlanRead, PlanFails, Authorize, Crash, store
<1>6. ASSUME NEW p \in Commands, Applying(p), ~WriteKey(p), ~Update(p)
      PROVE  blob' = blob /\ rev' = rev
  BY <1>6 DEF Applying, Skip, BackUp, Inspect, Answered, Fail, Succeed, store
<1> QED
  BY <1>3, <1>4, <1>5, <1>6 DEF Next, vars

(* The steps of one command leave the course of every other one alone, and  *)
(* a command is asked once.                                                 *)
LEMMA CourseSteps ==
  ASSUME TypeOK, [Next]_vars, NEW p \in Commands
  PROVE  \/ /\ pc'[p] = pc[p] /\ request'[p] = request[p] /\ plan'[p] = plan[p]
            /\ left'[p] = left[p] /\ seen'[p] = seen[p]
         \/ AskAny(p) \/ Planning(p) \/ Applying(p) \/ Crash(p)
<1> DEFINE Same == /\ pc'[p] = pc[p] /\ request'[p] = request[p] /\ plan'[p] = plan[p]
                   /\ left'[p] = left[p] /\ seen'[p] = seen[p]
<1>1. ASSUME NEW q \in Commands, q # p, AskAny(q) PROVE Same
  BY <1>1 DEF AskAny, AskSingle, AskDelete, AskClear, AskImport, AskRollback, Ask, TypeOK
<1>2. ASSUME NEW q \in Commands, q # p, Planning(q) PROVE Same
  BY <1>2 DEF Planning, PlanRead, PlanFails, Authorize, TypeOK, course
<1>3. ASSUME NEW q \in Commands, q # p, Applying(q) PROVE Same
  BY <1>3 DEF Applying, Skip, BackUp, WriteKey, Inspect, Update, Commit, Answered,
     Fail, Succeed, TypeOK, course
<1>4. ASSUME NEW q \in Commands, q # p, Crash(q) PROVE Same
  BY <1>4 DEF Crash, TypeOK, course
<1>5. ASSUME NEW t \in Types, OtherWrite(t) PROVE Same
  BY <1>5 DEF OtherWrite, TypeOK, course
<1>6. CASE UNCHANGED vars
  BY <1>6 DEF vars
<1> QED
  BY <1>1, <1>2, <1>3, <1>4, <1>5, <1>6 DEF Next

(* Asking sets the request and the position of a command that had no plan.  *)
LEMMA AskSteps ==
  ASSUME TypeOK, NEW p \in Commands, AskAny(p)
  PROVE  /\ pc[p] = "start" /\ pc'[p] = "plan"
         /\ plan' = plan /\ seen' = seen /\ blob' = blob /\ rev' = rev
         /\ left'[p] = request'[p].types
         /\ \A t \in left'[p] : request'[p].expected <= rev[t]
         /\ request'[p].verb = "clear" =>
              request'[p].mask = Rules /\ request'[p].local = NoRules
<1> DEFINE Asked ==
      /\ pc[p] = "start" /\ pc'[p] = "plan"
      /\ plan' = plan /\ seen' = seen /\ blob' = blob /\ rev' = rev
      /\ left'[p] = request'[p].types
      /\ \A t \in left'[p] : request'[p].expected <= rev[t]
      /\ request'[p].verb = "clear" =>
           request'[p].mask = Rules /\ request'[p].local = NoRules
<1>1. ASSUME NEW verb, NEW types, NEW mask, NEW local, NEW expected,
             Ask(p, verb, types, mask, local, expected),
             \A t \in types : expected <= rev[t],
             verb = "clear" => mask = Rules /\ local = NoRules
      PROVE  Asked
  <2>1. /\ request'[p] = [verb |-> verb, types |-> types, mask |-> mask,
                          local |-> local, expected |-> expected]
        /\ left'[p] = types /\ pc'[p] = "plan"
    BY <1>1 DEF Ask, TypeOK
  <2> QED
    BY <1>1, <2>1 DEF Ask, store
<1> SUFFICES Asked
  OBVIOUS
<1> HIDE DEF Asked
<1>2. \A t \in Types : rev[t] \in Nat
  BY DEF TypeOK
<1>3. CASE AskSingle(p)
  <2>1. PICK verb \in Singles, t \in Types, r \in Rules : \E n \in 0..rev[t] :
          Ask(p, verb, {t}, {r}, Own(p, {r}), n)
    BY <1>3 DEF AskSingle
  <2>2. PICK n \in 0..rev[t] : Ask(p, verb, {t}, {r}, Own(p, {r}), n)
    BY <2>1
  <2>3. verb # "clear" /\ \A u \in {t} : n <= rev[u]
    BY <2>1, <1>2 DEF Singles
  <2> QED
    BY <2>2, <2>3, <1>1
<1>7. CASE AskDelete(p)
  <2>1. PICK t \in Types, R \in SUBSET Rules : \E n \in 0..rev[t] :
          Ask(p, "delete", {t}, R, NoRules, n)
    BY <1>7 DEF AskDelete
  <2>2. PICK n \in 0..rev[t] : Ask(p, "delete", {t}, R, NoRules, n)
    BY <2>1
  <2>3. \A u \in {t} : n <= rev[u]
    BY <1>2
  <2> QED
    BY <2>2, <2>3, <1>1
<1>4. CASE AskClear(p)
  <2>1. PICK t \in Types : \E n \in 0..rev[t] : Ask(p, "clear", {t}, Rules, NoRules, n)
    BY <1>4 DEF AskClear
  <2>2. PICK n \in 0..rev[t] : Ask(p, "clear", {t}, Rules, NoRules, n)
    BY <2>1
  <2>3. \A u \in {t} : n <= rev[u]
    BY <1>2
  <2> QED
    BY <2>2, <2>3, <1>1
<1>5. CASE AskImport(p)
  <2>1. PICK S \in SUBSET Types, R \in SUBSET Rules : Ask(p, "import", S, Rules, Own(p, R), 0)
    BY <1>5 DEF AskImport
  <2>2. \A u \in S : 0 <= rev[u]
    BY <1>2
  <2> QED
    BY <2>1, <2>2, <1>1
<1>6. CASE AskRollback(p)
  <2>1. PICK b \in backups : Ask(p, "rollback", {b.type}, Rules, b.rules, 0)
    BY <1>6 DEF AskRollback
  <2>2. b.type \in Types
    BY DEF TypeOK, Backups
  <2>3. \A u \in {b.type} : 0 <= rev[u]
    BY <2>2, <1>2
  <2> QED
    BY <2>1, <2>3, <1>1
<1> QED
  BY <1>3, <1>4, <1>5, <1>6, <1>7 DEF AskAny

(* After it is asked, a command keeps its request, and only planning adds   *)
(* to its plan.                                                             *)
LEMMA AfterAsking ==
  ASSUME TypeOK, NEW p \in Commands, Planning(p) \/ Applying(p) \/ Crash(p)
  PROVE  /\ pc[p] # "start" /\ pc'[p] # "start"
         /\ request' = request
         /\ plan' = plan \/ PlanRead(p)
         /\ pc'[p] = "plan" => PlanRead(p) /\ pc[p] = "plan"
<1>1. CASE Planning(p)
  BY <1>1 DEF Planning, PlanRead, PlanFails, Authorize, TypeOK, course
<1>2. CASE Applying(p)
  BY <1>2 DEF Applying, Skip, BackUp, WriteKey, Inspect, Update, Commit, Answered,
     Fail, Succeed, ReadyToWrite, TypeOK, course
<1>3. CASE Crash(p)
  BY <1>3 DEF Crash, TypeOK, course
<1> QED
  BY <1>1, <1>2, <1>3

-----------------------------------------------------------------------------
(* The parts of the inductive invariant, one lemma for each.                *)

LEMMA PresentHasRevisionHolds ==
  ASSUME TypeOK, PresentHasRevision, [Next]_vars
  PROVE  PresentHasRevision'
<1>1. \A t \in Types : rev[t] \in Nat
  BY DEF TypeOK
<1> QED
  BY <1>1, RevisionsRise DEF PresentHasRevision

LEMMA ExpectedWasSeenHolds ==
  ASSUME TypeOK, ExpectedWasSeen, [Next]_vars
  PROVE  ExpectedWasSeen'
<1> SUFFICES ASSUME NEW p \in Commands, pc'[p] = "plan", NEW t \in left'[p]
             PROVE  request'[p].expected <= rev'[t]
  BY DEF ExpectedWasSeen
<1>1. request[p].expected \in Nat /\ left[p] \in SUBSET Types
  BY DEF TypeOK, Requests
<1>2. \A u \in Types : rev[u] \in Nat /\ rev'[u] \in Nat /\ rev[u] <= rev'[u]
  BY RevisionsRise DEF TypeOK
<1>3. CASE pc[p] = "plan" /\ request'[p] = request[p] /\ left'[p] \subseteq left[p]
  BY <1>1, <1>2, <1>3 DEF ExpectedWasSeen
<1>4. CASE AskAny(p)
  BY <1>4, AskSteps
<1>5. CASE Planning(p) \/ Applying(p) \/ Crash(p)
  <2>1. PlanRead(p) /\ pc[p] = "plan" /\ request' = request
    BY <1>5, AfterAsking
  <2>2. left'[p] \subseteq left[p]
    BY <2>1, PlannedEntry DEF TypeOK
  <2> QED
    BY <2>1, <2>2, <1>3
<1> QED
  BY <1>3, <1>4, <1>5, CourseSteps

(* A request to clear asks for no rules at all.                             *)
LEMMA ClearAsksForNothing ==
  ASSUME NEW p \in Commands,
         request[p].verb = "clear" =>
           request[p].mask = Rules /\ request[p].local = NoRules
  PROVE  Deletes(p) => \A rules \in RuleSets : Edit(p, rules) = NoRules
BY DEF Deletes, Edit, NoRules

LEMMA PlanInvHolds ==
  ASSUME TypeOK, PlanInv, [Next]_vars
  PROVE  PlanInv'
<1> SUFFICES ASSUME NEW p \in Commands PROVE RequestAt(p)' /\ PlanAt(p)'
  BY DEF PlanInv
<1>0. RequestAt(p) /\ PlanAt(p)
  BY DEF PlanInv
<1>1. CASE /\ pc'[p] = pc[p] /\ request'[p] = request[p] /\ plan'[p] = plan[p]
           /\ left'[p] = left[p] /\ seen'[p] = seen[p]
  BY <1>0, <1>1 DEF RequestAt, PlanAt, Deletes, Edit
<1>2. CASE AskAny(p)
  <2>1. /\ pc[p] = "start" /\ pc'[p] = "plan" /\ plan' = plan
        /\ request'[p].verb = "clear" =>
             request'[p].mask = Rules /\ request'[p].local = NoRules
    BY <1>2, AskSteps
  <2>2. plan'[p] = {}
    BY <2>1, <1>0 DEF RequestAt
  <2>3. Deletes(p)' => \A rules \in RuleSets : Edit(p, rules)' = NoRules
    BY <2>1 DEF Deletes, Edit, NoRules
  <2> QED
    BY <2>1, <2>2, <2>3 DEF RequestAt, PlanAt
<1>3. CASE Planning(p) \/ Applying(p) \/ Crash(p)
  <2>1. /\ pc[p] # "start" /\ pc'[p] # "start" /\ request' = request
        /\ plan' = plan \/ PlanRead(p)
        /\ pc'[p] = "plan" => PlanRead(p) /\ pc[p] = "plan"
    BY <1>3, AfterAsking
  <2>2. RequestAt(p)'
    BY <2>1, <1>0 DEF RequestAt, Deletes, Edit
  <2>3. CASE PlanRead(p)
    <3>1. pc[p] = "plan"
      BY <2>3 DEF PlanRead
    <3>2. PICK t \in Types, e \in Entries :
            /\ IsLeast(t, left[p]) /\ e.type = t
            /\ plan'[p] = plan[p] \cup {e} /\ left'[p] = left[p] \ {t}
      BY <2>3, PlannedEntry DEF TypeOK
    <3>3. t \in left[p] /\ \A f \in plan[p] : f.type # t /\ f.type \notin left'[p]
      BY <3>1, <3>2, <1>0 DEF IsLeast, PlanAt
    <3> QED
      BY <2>2, <3>2, <3>3, <1>0 DEF PlanAt
  <2>4. CASE ~PlanRead(p)
    BY <2>1, <2>2, <2>4, <1>0 DEF PlanAt
  <2> QED
    BY <2>3, <2>4
<1> QED
  BY <1>1, <1>2, <1>3, CourseSteps

LEMMA EntriesInvHolds ==
  ASSUME TypeOK, PresentHasRevision, ExpectedWasSeen, PlanInv, EntriesInv, [Next]_vars
  PROVE  EntriesInv'
<1> SUFFICES ASSUME NEW p \in Commands, NEW e \in plan'[p] PROVE EntryAt(p, e)'
  BY DEF EntriesInv
<1>1. ASSUME e \in plan[p], request'[p] = request[p] PROVE EntryAt(p, e)'
  <2>1. e.type \in Types /\ e.revision \in Nat /\ rev[e.type] \in Nat
    BY <1>1 DEF TypeOK, Entries
  <2>2. EntryAt(p, e)
    BY <1>1 DEF EntriesInv
  <2>3. Edit(p, RulesIn(e.cur))' = Edit(p, RulesIn(e.cur)) /\ Deletes(p)' = Deletes(p)
    BY <1>1 DEF Edit, Deletes, RulesIn
  <2>4. e.revision <= rev'[e.type]
    BY <2>1, <2>2, RevisionsRise DEF EntryAt
  <2>5. e.revision > 0 /\ e.revision = rev'[e.type] => blob'[e.type] = e.cur
    BY <2>1, <2>2, RevisionsRise DEF EntryAt
  <2> QED
    BY <2>2, <2>3, <2>4, <2>5 DEF EntryAt, RulesIn
<1>2. CASE /\ pc'[p] = pc[p] /\ request'[p] = request[p] /\ plan'[p] = plan[p]
           /\ left'[p] = left[p] /\ seen'[p] = seen[p]
  BY <1>1, <1>2
<1>3. CASE AskAny(p)
  BY <1>3, AskSteps DEF PlanInv, RequestAt
<1>4. CASE Planning(p) \/ Applying(p) \/ Crash(p)
  <2>1. request' = request /\ (plan' = plan \/ PlanRead(p))
    BY <1>4, AfterAsking
  <2>2. CASE e \in plan[p]
    BY <2>1, <2>2, <1>1
  <2>3. CASE e \notin plan[p]
    <3>0. PlanRead(p)
      BY <2>1, <2>3
    <3>1. PICK t \in Types :
            /\ IsLeast(t, left[p])
            /\ e.type = t /\ e.cur = blob[t] /\ e.revision = PlannedRevision(p, t)
            /\ e.next = Edit(p, RulesIn(blob[t]))
            /\ e.skip \in Skips(blob[t], e.next)
            /\ e.backup = NeedsBackup(p, RulesIn(blob[t]))
      BY <2>3, <3>0, PlannedEntry DEF TypeOK
    <3>2. blob' = blob /\ rev' = rev /\ pc[p] = "plan" /\ t \in left[p]
      BY <3>0, <3>1 DEF PlanRead, store, IsLeast
    <3>3. /\ request[p].expected \in Nat /\ rev[t] \in Nat
          /\ request[p].expected <= rev[t]
          /\ blob[t] # Absent => rev[t] > 0
      BY <3>1, <3>2 DEF ExpectedWasSeen, PresentHasRevision, TypeOK, Requests
    <3>4. /\ e.revision <= rev[t]
          /\ e.revision = 0 => e.cur = Absent
      BY <3>1, <3>3 DEF PlannedRevision
    <3>5. e.cur = Absent /\ Deletes(p) => e.skip
      <4> SUFFICES ASSUME blob[t] = Absent, Deletes(p) PROVE e.skip
        BY <3>1
      <4>1. e.next = NoRules
        BY <3>1, RuleSetFacts DEF PlanInv, RequestAt
      <4> QED
        BY <3>1, <4>1 DEF Skips
    <3>6. ~e.backup => RulesIn(e.cur) = NoRules
      BY <3>1 DEF NeedsBackup
    <3> QED
      BY <2>1, <3>1, <3>2, <3>4, <3>5, <3>6 DEF EntryAt, Edit, RulesIn, Deletes
  <2> QED
    BY <2>2, <2>3
<1> QED
  BY <1>2, <1>3, <1>4, CourseSteps

(* A backup is never dropped.                                               *)
LEMMA BackupsGrow ==
  ASSUME [Next]_vars
  PROVE  backups \subseteq backups'
<1>1. ASSUME NEW p \in Commands, AskAny(p) PROVE backups' = backups
  BY <1>1 DEF AskAny, AskSingle, AskDelete, AskClear, AskImport, AskRollback, Ask, store
<1>2. ASSUME NEW p \in Commands, Planning(p) \/ Crash(p) PROVE backups' = backups
  BY <1>2 DEF Planning, PlanRead, PlanFails, Authorize, Crash, store
<1>3. ASSUME NEW p \in Commands, Applying(p) PROVE backups \subseteq backups'
  BY <1>3 DEF Applying, Skip, BackUp, WriteKey, Inspect, Update, Commit, Answered,
     Fail, Succeed, store
<1> QED
  BY <1>1, <1>2, <1>3 DEF Next, OtherWrite, vars

(* A command works at one entry at a time.                                  *)
LEMMA CurrentIsUnique ==
  ASSUME TypeOK, PlanInv, NEW p \in Commands, NEW e, NEW f, Current(p, e), Current(p, f)
  PROVE  e = f
<1>1. e \in plan[p] /\ f \in plan[p] /\ IsLeast(e.type, left[p]) /\ IsLeast(f.type, left[p])
  BY DEF Current
<1>2. left[p] \in SUBSET Types
  BY DEF TypeOK
<1>3. e.type = f.type
  BY <1>1, <1>2, LeastIsUnique
<1> QED
  BY <1>1, <1>3 DEF PlanInv, PlanAt

(* What is known at the moment of a write: if the precondition matches, the *)
(* blob is the one that was planned from, and it is saved if it must be.    *)
LEMMA AtTheWrite ==
  ASSUME IInv, NEW p \in Commands, NEW e \in plan[p], ~e.skip, Matches(p, e)
  PROVE  /\ e.cur = blob[e.type]
         /\ blob[e.type] # Absent => rev[e.type] = e.revision
<1>1. /\ EntryAt(p, e)
      /\ e.type \in Types /\ e.revision \in Nat
      /\ rev[e.type] \in Nat /\ (blob[e.type] # Absent => rev[e.type] > 0)
  BY DEF IInv, EntriesInv, TypeOK, Entries, PresentHasRevision
<1>2. CASE e.revision = 0
  BY <1>1, <1>2 DEF EntryAt, Matches
<1>3. CASE e.revision # 0
  BY <1>1, <1>3 DEF EntryAt, Matches
<1> QED
  BY <1>2, <1>3

LEMMA ApplyInvHolds ==
  ASSUME IInv, [Next]_vars
  PROVE  ApplyInv'
<1> SUFFICES ASSUME NEW p \in Commands, NEW e \in plan'[p]
             PROVE  /\ (pc[p] \in {"write", "update"} /\ Current(p, e) =>
                          ~e.skip /\ SavedAt(p, e))'
                    /\ (pc[p] = "update" /\ Current(p, e) => SeenAt(p, e))'
  BY DEF ApplyInv
<1>0. TypeOK /\ PlanInv /\ ApplyInv /\ EntriesInv
  BY DEF IInv
<1>1. ASSUME e \in plan[p], SavedAt(p, e) PROVE SavedAt(p, e)'
  <2>1. /\ e.type \in Types /\ e.revision \in Nat /\ rev[e.type] \in Nat
        /\ e.revision <= rev[e.type]
    BY <1>0, <1>1 DEF TypeOK, Entries, EntriesInv, EntryAt
  <2>2. rev'[e.type] = e.revision => blob'[e.type] = blob[e.type] /\ rev'[e.type] = rev[e.type]
    BY <2>1, <1>0, RevisionsRise
  <2> QED
    BY <2>2, <1>1, BackupsGrow DEF SavedAt, RulesIn
<1>2. CASE /\ pc'[p] = pc[p] /\ request'[p] = request[p] /\ plan'[p] = plan[p]
           /\ left'[p] = left[p] /\ seen'[p] = seen[p]
  <2>1. Current(p, e)' = Current(p, e) /\ e \in plan[p]
    BY <1>2 DEF Current, IsLeast
  <2>2. pc'[p] \in {"write", "update"} /\ Current(p, e)' => ~e.skip /\ SavedAt(p, e)'
    BY <1>0, <1>1, <1>2, <2>1 DEF ApplyInv
  <2>3. ASSUME pc[p] = "update", Current(p, e) PROVE SeenAt(p, e)'
    <3>1. SeenAt(p, e)
      BY <1>0, <2>1, <2>3 DEF ApplyInv
    <3>2. e.type \in Types /\ seen[p] \in Nat /\ rev[e.type] \in Nat
      BY <1>0, <2>1 DEF TypeOK, Entries
    <3>3. seen[p] <= rev'[e.type]
      BY <3>1, <3>2, <1>0, RevisionsRise DEF SeenAt
    <3>4. seen[p] = rev'[e.type] => blob'[e.type] = blob[e.type] /\ rev'[e.type] = rev[e.type]
      BY <3>1, <3>2, <1>0, RevisionsRise DEF SeenAt
    <3> QED
      BY <3>1, <3>3, <3>4, <1>2 DEF SeenAt, Matches, Deletes
  <2> QED
    BY <2>1, <2>2, <2>3, <1>2
<1>3. CASE AskAny(p)
  BY <1>0, <1>3, AskSteps
<1>4. CASE Planning(p) \/ Crash(p)
  <2>1. pc'[p] \notin {"write", "update"}
    BY <1>4, <1>0 DEF Planning, PlanRead, PlanFails, Authorize, Crash, TypeOK
  <2> QED
    BY <2>1
<1>5. CASE Applying(p) /\ ~BackUp(p) /\ ~Inspect(p)
  <2>1. pc'[p] \notin {"write", "update"}
    BY <1>5, <1>0 DEF Applying, Skip, WriteKey, Update, Commit, Answered, Fail,
       Succeed, TypeOK
  <2> QED
    BY <2>1
<1>6. CASE BackUp(p)
  <2>1. pc'[p] = "write" /\ plan' = plan /\ left' = left /\ blob' = blob
    BY <1>6, <1>0 DEF BackUp, TypeOK, course
  <2>2. PICK f \in plan[p] :
          /\ Current(p, f) /\ ~f.skip
          /\ backups' = backups \cup
               IF blob[f.type] = Absent THEN {}
               ELSE {[by |-> p, type |-> f.type, rules |-> blob[f.type]]}
    BY <1>6 DEF BackUp
  <2>3. Current(p, e)' => e = f
    <3>1. Current(p, e)' => Current(p, e)
      BY <2>1 DEF Current, IsLeast
    <3> QED
      BY <3>1, <2>2, <1>0, CurrentIsUnique
  <2>4. e = f => SavedAt(p, e)'
    BY <2>1, <2>2 DEF SavedAt, RulesIn
  <2> QED
    BY <2>1, <2>2, <2>3, <2>4
<1>7. CASE Inspect(p)
  <2>1. /\ pc'[p] = "update" /\ plan' = plan /\ left' = left /\ request' = request
        /\ blob' = blob /\ rev' = rev /\ backups' = backups
    BY <1>7, <1>0 DEF Inspect, TypeOK, store
  <2>2. PICK f \in plan[p] :
          /\ ReadyToWrite(p, f) /\ Matches(p, f) /\ seen'[p] = rev[f.type]
    BY <1>7, <1>0 DEF Inspect, TypeOK
  <2>3. Current(p, e)' => e = f
    <3>1. Current(p, e)' => Current(p, e)
      BY <2>1 DEF Current, IsLeast
    <3> QED
      BY <3>1, <2>2, <1>0, CurrentIsUnique DEF ReadyToWrite
  <2>4. Current(p, f) /\ ~f.skip /\ EntryAt(p, f)
    BY <2>2, <1>0 DEF ReadyToWrite, EntriesInv
  <2>5. SavedAt(p, f)
    <3>1. CASE f.backup
      BY <3>1, <2>2, <1>0 DEF ReadyToWrite, ApplyInv
    <3>2. CASE ~f.backup
      <4>1. RulesIn(f.cur) = NoRules /\ f.cur = blob[f.type]
        BY <3>2, <2>2, <2>4, AtTheWrite DEF EntryAt
      <4> QED
        BY <4>1 DEF SavedAt
    <3> QED
      BY <3>1, <3>2
  <2>6. SavedAt(p, f)'
    BY <2>1, <2>5 DEF SavedAt, RulesIn
  <2>7. SeenAt(p, f)'
    <3>1. Matches(p, f)'
      BY <2>1, <2>2 DEF Matches, Deletes
    <3>2. rev[f.type] \in Nat
      BY <1>0 DEF TypeOK, Entries
    <3> QED
      BY <2>1, <2>2, <3>1, <3>2 DEF SeenAt
  <2> QED
    BY <2>1, <2>3, <2>4, <2>6, <2>7
<1> QED
  BY <1>0, <1>2, <1>3, <1>4, <1>5, <1>6, <1>7, CourseSteps

-----------------------------------------------------------------------------
(* The order of a batch.                                                    *)

(* Only a write of its own changes what a command has committed.            *)
LEMMA CommittedSteps ==
  ASSUME TypeOK, [Next]_vars, NEW p \in Commands
  PROVE  committed'[p] = committed[p] \/ WriteKey(p) \/ Update(p)
<1>1. ASSUME NEW q \in Commands, AskAny(q) PROVE committed' = committed
  BY <1>1 DEF AskAny, AskSingle, AskDelete, AskClear, AskImport, AskRollback, Ask
<1>2. ASSUME NEW q \in Commands, Planning(q) \/ Crash(q) PROVE committed' = committed
  BY <1>2 DEF Planning, PlanRead, PlanFails, Authorize, Crash
<1>3. ASSUME NEW q \in Commands, Applying(q), ~WriteKey(q), ~Update(q)
      PROVE  committed' = committed
  BY <1>3 DEF Applying, Skip, BackUp, Inspect, Answered, Fail, Succeed
<1>4. ASSUME NEW q \in Commands, q # p, WriteKey(q) \/ Update(q)
      PROVE  committed'[p] = committed[p]
  BY <1>4 DEF WriteKey, Update, Commit, TypeOK
<1> QED
  BY <1>1, <1>2, <1>3, <1>4 DEF Next, OtherWrite, vars

(* A command finishes the least type first, so what is left comes after     *)
(* what is written.                                                         *)
LEMMA OrderInvHolds ==
  ASSUME TypeOK, PlanInv, OrderInv, [Next]_vars
  PROVE  OrderInv'
<1> DEFINE InOrder(p) == \A t \in committed[p], u \in ToWrite(p) :
                           u < t => u \in committed[p]
<1> SUFFICES ASSUME NEW p \in Commands PROVE OrderAt(p)' /\ InOrder(p)'
  BY DEF OrderInv, CommittedInOrder
<1>0. /\ OrderAt(p) /\ InOrder(p) /\ RequestAt(p) /\ PlanAt(p)
      /\ committed[p] \subseteq Types /\ left[p] \subseteq Types
      /\ \A e \in plan[p] : e.type \in Types
      /\ request[p].types \subseteq Types
  BY DEF OrderInv, CommittedInOrder, PlanInv, TypeOK, Entries, Requests
<1>1. CASE /\ pc'[p] = pc[p] /\ request'[p] = request[p] /\ plan'[p] = plan[p]
           /\ left'[p] = left[p] /\ seen'[p] = seen[p] /\ committed'[p] = committed[p]
  BY <1>0, <1>1 DEF OrderAt, ToWrite, Current, IsLeast
<1>2. CASE AskAny(p)
  <2>1. /\ pc[p] = "start" /\ pc'[p] = "plan" /\ plan' = plan
        /\ left'[p] = request'[p].types
    BY <1>2, AskSteps
  <2>2. committed' = committed
    BY <1>2 DEF AskAny, AskSingle, AskDelete, AskClear, AskImport, AskRollback, Ask
  <2>3. plan'[p] = {} /\ committed'[p] = {}
    BY <2>1, <2>2, <1>0 DEF RequestAt, OrderAt
  <2> QED
    BY <2>1, <2>3 DEF OrderAt
<1>3. CASE PlanRead(p)
  <2>1. /\ pc[p] = "plan" /\ pc'[p] = "plan" /\ committed' = committed /\ request' = request
    BY <1>3 DEF PlanRead
  <2>2. PICK t \in Types, e \in Entries :
          /\ IsLeast(t, left[p]) /\ e.type = t
          /\ plan'[p] = plan[p] \cup {e} /\ left'[p] = left[p] \ {t}
    BY <1>3, PlannedEntry DEF TypeOK
  <2> QED
    BY <2>1, <2>2, <1>0 DEF OrderAt, IsLeast
<1>4. CASE Authorize(p)
  <2>1. /\ pc[p] = "plan" /\ pc'[p] = "apply" /\ committed' = committed
        /\ request' = request /\ plan' = plan /\ left'[p] = request[p].types
    BY <1>4 DEF Authorize, TypeOK
  <2>2. committed'[p] = {} /\ ToWrite(p)' \subseteq left'[p]
    BY <2>1, <1>0 DEF OrderAt, ToWrite
  <2> QED
    BY <2>1, <2>2, <1>0 DEF OrderAt
<1>5. CASE PlanFails(p) \/ Fail(p) \/ Succeed(p) \/ Crash(p)
  <2>1. /\ pc'[p] \in {"done", "dead"} /\ committed' = committed
        /\ request' = request /\ plan' = plan
    BY <1>5 DEF PlanFails, Fail, Succeed, Crash, course, TypeOK
  <2> QED
    BY <2>1, <1>0 DEF OrderAt, ToWrite
<1>6. CASE BackUp(p) \/ Inspect(p)
  <2>1. /\ pc[p] \in {"apply", "write"} /\ pc'[p] \in {"write", "update"}
        /\ committed' = committed /\ request' = request /\ plan' = plan /\ left' = left
    BY <1>6 DEF BackUp, Inspect, ReadyToWrite, course, TypeOK
  <2> QED
    BY <2>1, <1>0 DEF OrderAt, ToWrite
<1>7. CASE Skip(p) \/ Answered(p)
  <2>1. /\ pc[p] \in {"apply", "answer"} /\ pc'[p] = "apply"
        /\ committed' = committed /\ request' = request /\ plan' = plan
    BY <1>7 DEF Skip, Answered, TypeOK
  <2>2. PICK e \in plan[p] :
          /\ Current(p, e) /\ left'[p] = left[p] \ {e.type}
          /\ e.skip \/ e.type \in committed[p]
    BY <1>7, <1>0 DEF Skip, Answered, OrderAt, TypeOK
  <2>3. e.type \in ToWrite(p) => e.type \in committed[p]
    BY <2>2, <1>0 DEF ToWrite, PlanAt
  <2>4. ToWrite(p)' \subseteq left'[p] \cup committed'[p]
    BY <2>1, <2>2, <2>3, <1>0 DEF ToWrite, OrderAt
  <2> QED
    BY <2>1, <2>2, <2>4, <1>0 DEF OrderAt, ToWrite
<1>8. CASE WriteKey(p) \/ Update(p)
  <2>1. PICK e \in plan[p] : Commit(p, e) /\ Current(p, e)
    BY <1>8 DEF WriteKey, Update, ReadyToWrite
  <2>2. /\ pc[p] \in {"apply", "write", "update"} /\ pc'[p] = "answer"
        /\ committed'[p] = committed[p] \cup {e.type}
        /\ request' = request /\ plan' = plan /\ left' = left
    BY <1>8, <2>1 DEF WriteKey, Update, ReadyToWrite, Commit, course, TypeOK
  <2>3. \A u \in left[p] : e.type <= u
    BY <2>1 DEF Current, IsLeast
  <2>4. \A f \in plan[p] : Current(p, f) => f = e
    BY <2>1, CurrentIsUnique
  <2>5. (ToWrite(p) \subseteq left[p] \cup committed[p]) /\ ToWrite(p) \subseteq Types
    BY <2>2, <1>0 DEF OrderAt, ToWrite
  <2>6. InOrder(p)'
    <3>1. ToWrite(p)' = ToWrite(p)
      BY <2>2 DEF ToWrite
    <3>2. \A u \in ToWrite(p) : u < e.type => u \in committed[p]
      <4>1. e.type \in Nat /\ \A u \in ToWrite(p) : u \in Nat
        BY <1>0, <2>5, ConstantsOK
      <4>2. \A u \in left[p] : u \in Nat => ~(u < e.type)
        BY <2>3, <4>1
      <4> QED
        BY <2>5, <4>1, <4>2
    <3> QED
      BY <3>1, <3>2, <2>2, <1>0
  <2>7. \A f \in plan'[p] : Current(p, f)' => f.type \in committed'[p]
    BY <2>2, <2>4 DEF Current, IsLeast
  <2> QED
    BY <2>2, <2>3, <2>5, <2>6, <2>7, <1>0 DEF OrderAt, ToWrite
<1> QED
  BY <1>1, <1>2, <1>3, <1>4, <1>5, <1>6, <1>7, <1>8, CourseSteps, CommittedSteps
     DEF Planning, Applying

-----------------------------------------------------------------------------
(* The tally of a batch.                                                    *)

(* Entries for different types are no more than the types.                  *)
LEMMA EntriesPerType ==
  ASSUME NEW S, IsFiniteSet(S), NEW E,
         \A e \in E : e.type \in S,
         \A e, f \in E : e.type = f.type => e = f
  PROVE  IsFiniteSet(E) /\ Cardinality(E) \in Nat /\ Cardinality(E) <= Cardinality(S)
<1> DEFINE typeOf == [e \in E |-> e.type]
<1>1. typeOf \in Injection(E, S)
  BY DEF Injection, IsInjective
<1> QED
  BY <1>1, FS_Injection, FS_CardinalityType

(* Disjoint parts of a finite set are together no more than the set.        *)
LEMMA DisjointParts ==
  ASSUME NEW S, IsFiniteSet(S), NEW A \in SUBSET S, NEW B \in SUBSET S, A \cap B = {}
  PROVE  /\ IsFiniteSet(A) /\ IsFiniteSet(B) /\ IsFiniteSet(A \cup B)
         /\ Cardinality(A) \in Nat /\ Cardinality(B) \in Nat /\ Cardinality(S) \in Nat
         /\ Cardinality(A \cup B) = Cardinality(A) + Cardinality(B)
         /\ Cardinality(A) + Cardinality(B) <= Cardinality(S)
<1>1. IsFiniteSet(A) /\ IsFiniteSet(B)
  BY FS_Subset
<1>2. /\ IsFiniteSet(A \cup B)
      /\ Cardinality(A \cup B) = Cardinality(A) + Cardinality(B) - Cardinality(A \cap B)
  BY <1>1, FS_Union
<1>3. Cardinality(A \cap B) = 0
  BY FS_EmptySet
<1>4. Cardinality(A \cup B) <= Cardinality(S)
  BY FS_Subset
<1> QED
  BY <1>1, <1>2, <1>3, <1>4, FS_CardinalityType

(* While a command applies its plan, the types it has skipped or will skip, *)
(* the writes it has counted and the types F it may have failed at are      *)
(* different types of its request, so that finishBatchMutationAudit never   *)
(* reports more than was asked for.                                         *)
LEMMA RestCoversTheSkipped ==
  ASSUME TypeOK, PlanInv, OrderInv, NEW p \in Commands, TallyAt(p),
         pc[p] \in {"apply", "write", "update", "answer"},
         NEW F \in SUBSET (ToWrite(p) \cap left[p])
  PROVE  LET planned == Cardinality({e \in plan[p] : e.skip})
         IN /\ planned \in Nat /\ Cardinality(request[p].types) \in Nat
            /\ Cardinality(F) \in Nat
            /\ planned <= Cardinality(request[p].types) - succeeded[p] - Cardinality(F)
<1> DEFINE types == request[p].types
           skipping == {e \in plan[p] : e.skip}
           skipped == {e.type : e \in skipping}
           written == committed[p] \ left[p]
<1>1. /\ \A e \in plan[p] : e.type \in types
      /\ \A e, f \in plan[p] : e.type = f.type => e = f
      /\ committed[p] \subseteq ToWrite(p) /\ left[p] \subseteq types
      /\ succeeded[p] = Cardinality(written)
  BY DEF OrderInv, OrderAt, PlanInv, PlanAt, TallyAt
<1>2. IsFiniteSet(types)
  <2>1. types \subseteq Types
    BY DEF TypeOK, Requests
  <2> QED
    BY <2>1, FS_Subset, ConstantsOK
<1>3. skipped \cap ToWrite(p) = {}
  BY <1>1 DEF ToWrite
<1>4. /\ skipped \in SUBSET types /\ written \in SUBSET types /\ F \in SUBSET types
      /\ written \cap F = {} /\ skipped \cap (written \cup F) = {}
  BY <1>1, <1>3 DEF ToWrite
<1>5. /\ Cardinality(written) \in Nat /\ Cardinality(F) \in Nat
      /\ Cardinality(written \cup F) = Cardinality(written) + Cardinality(F)
  <2> SUFFICES ASSUME NEW A \in SUBSET types, NEW B \in SUBSET types, A \cap B = {}
               PROVE  /\ Cardinality(A) \in Nat /\ Cardinality(B) \in Nat
                      /\ Cardinality(A \cup B) = Cardinality(A) + Cardinality(B)
    BY <1>4
  <2> HIDE DEF types
  <2> QED
    BY <1>2, DisjointParts
<1>6. /\ IsFiniteSet(skipped) /\ Cardinality(skipped) \in Nat /\ Cardinality(types) \in Nat
      /\ Cardinality(skipped) + Cardinality(written \cup F) <= Cardinality(types)
  <2>1. written \cup F \in SUBSET types
    BY <1>4
  <2> HIDE DEF types, skipped, written
  <2> QED
    BY <2>1, <1>2, <1>4, DisjointParts
<1>7. Cardinality(skipping) \in Nat /\ Cardinality(skipping) <= Cardinality(skipped)
  <2>1. \A e \in skipping : e.type \in skipped
    OBVIOUS
  <2>2. \A e, f \in skipping : e.type = f.type => e = f
    BY <1>1
  <2> HIDE DEF skipping, skipped
  <2> QED
    BY <2>1, <2>2, <1>6, EntriesPerType
<1>8. /\ Cardinality(skipping) \in Nat /\ Cardinality(types) \in Nat
      /\ Cardinality(F) \in Nat
      /\ Cardinality(skipping) <= Cardinality(types) - succeeded[p] - Cardinality(F)
  <2> HIDE DEF types, skipping, skipped, written
  <2> QED
    BY <1>1, <1>5, <1>6, <1>7
<1> QED
  BY <1>8

(* An outcome is recorded once, by the last step of a command.              *)
LEMMA OutcomeSteps ==
  ASSUME TypeOK, [Next]_vars, NEW p \in Commands
  PROVE  \/ outcome'[p] = outcome[p]
         \/ PlanFails(p) \/ Fail(p) \/ Succeed(p)
<1>1. ASSUME NEW q \in Commands, AskAny(q) PROVE outcome' = outcome
  BY <1>1 DEF AskAny, AskSingle, AskDelete, AskClear, AskImport, AskRollback, Ask
<1>2. ASSUME NEW q \in Commands, Planning(q) \/ Crash(q), ~PlanFails(q)
      PROVE  outcome' = outcome
  BY <1>2 DEF Planning, PlanRead, Authorize, Crash
<1>3. ASSUME NEW q \in Commands, Applying(q), ~Fail(q), ~Succeed(q)
      PROVE  outcome' = outcome
  BY <1>3 DEF Applying, Skip, BackUp, WriteKey, Inspect, Update, Commit, Answered
<1>4. ASSUME NEW q \in Commands, q # p, PlanFails(q) \/ Fail(q) \/ Succeed(q)
      PROVE  outcome'[p] = outcome[p]
  BY <1>4 DEF PlanFails, Fail, Succeed, TypeOK
<1> QED
  BY <1>1, <1>2, <1>3, <1>4 DEF Next, OtherWrite, vars

(* Only the answer to a write of its own makes a command count.             *)
LEMMA SucceededSteps ==
  ASSUME TypeOK, [Next]_vars, NEW p \in Commands
  PROVE  succeeded'[p] = succeeded[p] \/ Answered(p)
<1>1. ASSUME NEW q \in Commands, AskAny(q) PROVE succeeded' = succeeded
  BY <1>1 DEF AskAny, AskSingle, AskDelete, AskClear, AskImport, AskRollback, Ask
<1>2. ASSUME NEW q \in Commands, Planning(q) \/ Crash(q) PROVE succeeded' = succeeded
  BY <1>2 DEF Planning, PlanRead, PlanFails, Authorize, Crash, course
<1>3. ASSUME NEW q \in Commands, Applying(q), ~Answered(q)
      PROVE  succeeded' = succeeded
  BY <1>3 DEF Applying, Skip, BackUp, WriteKey, Inspect, Update, Commit, Fail, Succeed, course
<1>4. ASSUME NEW q \in Commands, q # p, Answered(q)
      PROVE  succeeded'[p] = succeeded[p]
  BY <1>4 DEF Answered, TypeOK
<1> QED
  BY <1>1, <1>2, <1>3, <1>4 DEF Next, OtherWrite, vars, course

LEMMA TallyInvHolds ==
  ASSUME IInv, [Next]_vars
  PROVE  TallyInv'
<1> DEFINE Honest(p) ==
      LET o == outcome[p]
          n == Cardinality(committed[p])
      IN /\ o.status \in {"success", "failed", "partial_failed"} =>
              /\ o.succeeded + o.failed + o.skipped = Cardinality(request[p].types)
              /\ o.succeeded <= n /\ n <= o.succeeded + o.failed
         /\ o.status = "success" => committed[p] = ToWrite(p)
         /\ o.status = "failed" => n <= 1
         /\ o.status = "refused" => n = 0
<1>i. TypeOK /\ PlanInv /\ OrderInv /\ ApplyInv /\ TallyInv
  BY DEF IInv
<1> SUFFICES ASSUME NEW p \in Commands PROVE TallyAt(p)' /\ Honest(p)'
  BY DEF TallyInv, OutcomeHonest
<1>0. /\ TallyAt(p) /\ Honest(p) /\ OrderAt(p) /\ PlanAt(p) /\ RequestAt(p)
      /\ committed[p] \subseteq Types /\ left[p] \subseteq Types
      /\ \A e \in plan[p] : e.type \in Types
  BY <1>i DEF TallyInv, OutcomeHonest, OrderInv, PlanInv, TypeOK, Entries
<1>a. /\ outcome'[p] = outcome[p] \/ PlanFails(p) \/ Fail(p) \/ Succeed(p)
      /\ committed'[p] = committed[p] \/ WriteKey(p) \/ Update(p)
      /\ succeeded'[p] = succeeded[p] \/ Answered(p)
  BY <1>i, OutcomeSteps, CommittedSteps, SucceededSteps
<1>b. outcome'[p].status = "none" => Honest(p)'
  OBVIOUS
<1>1. CASE /\ pc'[p] = pc[p] /\ request'[p] = request[p] /\ plan'[p] = plan[p]
           /\ left'[p] = left[p] /\ committed'[p] = committed[p]
           /\ succeeded'[p] = succeeded[p] /\ outcome'[p] = outcome[p]
  BY <1>0, <1>1 DEF TallyAt, ToWrite, IsLeast
<1>2. CASE AskAny(p)
  <2>1. /\ pc[p] = "start" /\ pc'[p] = "plan" /\ plan' = plan
        /\ left'[p] = request'[p].types
    BY <1>i, <1>2, AskSteps
  <2>2. committed' = committed /\ succeeded' = succeeded /\ outcome' = outcome
    BY <1>2 DEF AskAny, AskSingle, AskDelete, AskClear, AskImport, AskRollback, Ask
  <2> QED
    BY <2>1, <2>2, <1>0, <1>b DEF TallyAt
<1>3. CASE PlanRead(p)
  <2>1. /\ pc[p] = "plan" /\ pc'[p] = "plan" /\ request' = request
        /\ succeeded' = succeeded /\ outcome' = outcome
    BY <1>3 DEF PlanRead
  <2>2. PICK t \in Types, e \in Entries :
          /\ e.type = t /\ plan'[p] = plan[p] \cup {e} /\ left'[p] = left[p] \ {t}
    BY <1>3, <1>i, PlannedEntry DEF TypeOK
  <2> QED
    BY <2>1, <2>2, <1>0, <1>b DEF TallyAt
<1>4. CASE PlanFails(p)
  <2>1. pc[p] = "plan" /\ pc'[p] = "done" /\ committed' = committed /\ outcome'[p] = Refusal
    BY <1>4, <1>i DEF PlanFails, TypeOK
  <2>2. Cardinality(committed'[p]) = 0
    BY <2>1, <1>0, FS_EmptySet DEF OrderAt
  <2> QED
    BY <2>1, <2>2 DEF TallyAt, Refusal
<1>5. CASE Authorize(p)
  <2>1. /\ pc[p] = "plan" /\ pc'[p] = "apply" /\ left[p] = {} /\ left'[p] = request[p].types
        /\ request' = request /\ plan' = plan /\ committed' = committed
        /\ succeeded' = succeeded /\ outcome' = outcome
    BY <1>5, <1>i DEF Authorize, TypeOK
  <2>2. committed'[p] = {} /\ succeeded'[p] = 0
    BY <2>1, <1>0 DEF OrderAt, TallyAt
  <2>3. Cardinality(committed'[p] \ left'[p]) = 0
    BY <2>2, FS_EmptySet
  <2> QED
    BY <2>1, <2>2, <2>3, <1>0, <1>b DEF TallyAt
<1>6. CASE Crash(p)
  BY <1>6, <1>i, <1>0, <1>b DEF Crash, TallyAt, TypeOK
<1>7. CASE BackUp(p) \/ Inspect(p)
  <2>1. /\ pc[p] \in {"apply", "write"} /\ pc'[p] \in {"write", "update"}
        /\ committed' = committed /\ request' = request /\ plan' = plan /\ left' = left
        /\ succeeded' = succeeded /\ outcome' = outcome
    BY <1>7, <1>i DEF BackUp, Inspect, ReadyToWrite, course, TypeOK
  <2> QED
    BY <2>1, <1>0, <1>b DEF TallyAt, ToWrite
<1>8. CASE Skip(p)
  <2>1. /\ pc[p] = "apply" /\ pc' = pc
        /\ committed' = committed /\ request' = request /\ plan' = plan
        /\ succeeded' = succeeded /\ outcome' = outcome
    BY <1>8 DEF Skip
  <2>2. PICK e \in plan[p] : e.skip /\ left'[p] = left[p] \ {e.type}
    BY <1>8, <1>i DEF Skip, TypeOK
  <2>3. e.type \notin committed[p]
    BY <2>1, <2>2, <1>0 DEF TallyAt, ToWrite, PlanAt
  <2>4. committed'[p] \ left'[p] = committed[p] \ left[p]
    BY <2>1, <2>2, <2>3
  <2> QED
    BY <2>1, <2>2, <2>4, <1>0, <1>b DEF TallyAt, ToWrite
<1>9. CASE Answered(p)
  <2>1. /\ pc[p] = "answer" /\ pc'[p] = "apply" /\ succeeded'[p] = succeeded[p] + 1
        /\ committed' = committed /\ request' = request /\ plan' = plan
        /\ outcome' = outcome
    BY <1>9, <1>i DEF Answered, TypeOK
  <2>2. PICK e \in plan[p] : Current(p, e) /\ left'[p] = left[p] \ {e.type}
    BY <1>9, <1>i DEF Answered, TypeOK
  <2>3. /\ e.type \in committed[p] /\ e.type \in left[p]
        /\ \A t \in committed[p] \cap left[p] : t = e.type
    BY <2>1, <2>2, <1>0, LeastIsUnique DEF OrderAt, TallyAt, Current, IsLeast
  <2>4. committed'[p] \ left'[p] = (committed[p] \ left[p]) \cup {e.type}
    BY <2>1, <2>2, <2>3
  <2>5. IsFiniteSet(committed[p] \ left[p])
    <3>1. committed[p] \ left[p] \in SUBSET Types
      BY <1>0
    <3> QED
      BY <3>1, FS_Subset, ConstantsOK
  <2>6. Cardinality(committed'[p] \ left'[p]) = succeeded'[p]
    <3>1. succeeded[p] = Cardinality(committed[p] \ left[p]) /\ succeeded[p] \in Nat
      BY <2>1, <1>0, <1>i DEF TallyAt, TypeOK
    <3> DEFINE counted == committed[p] \ left[p]
    <3>2. e.type \notin counted
      BY <2>3
    <3> HIDE DEF counted
    <3>3. Cardinality(counted \cup {e.type}) = Cardinality(counted) + 1
      BY <2>5, <3>2, FS_AddElement DEF counted
    <3> QED
      BY <2>1, <2>4, <3>1, <3>3 DEF counted
  <2> QED
    BY <2>1, <2>2, <2>3, <2>6, <1>0, <1>b DEF TallyAt, ToWrite
<1>10. CASE WriteKey(p) \/ Update(p)
  <2>1. PICK e \in plan[p] : Commit(p, e) /\ Current(p, e) /\ ~e.skip
    BY <1>10, <1>i DEF WriteKey, Update, ReadyToWrite, ApplyInv
  <2>2. /\ pc[p] \in {"apply", "write", "update"} /\ pc'[p] = "answer"
        /\ committed'[p] = committed[p] \cup {e.type}
        /\ request' = request /\ plan' = plan /\ left' = left
        /\ succeeded' = succeeded /\ outcome' = outcome
    BY <1>10, <2>1, <1>i DEF WriteKey, Update, ReadyToWrite, Commit, course, TypeOK
  <2>3. IsLeast(e.type, left[p]) /\ e.type \in left[p] /\ e.type \in ToWrite(p)
    BY <2>1 DEF Current, IsLeast, ToWrite
  <2>4. committed'[p] \ left'[p] = committed[p] \ left[p]
    BY <2>2, <2>3
  <2>5. \A t \in committed'[p] \cap left'[p] : t = e.type
    BY <2>2, <1>0 DEF TallyAt
  <2> QED
    BY <2>2, <2>3, <2>4, <2>5, <1>0, <1>b DEF TallyAt, ToWrite, IsLeast
<1>11. CASE Fail(p)
  <2>1. /\ pc[p] \in {"apply", "write", "update", "answer"} /\ pc'[p] = "done"
        /\ committed' = committed /\ request' = request /\ plan' = plan
        /\ outcome'[p] = Tally(p, 1)
    BY <1>11, <1>i DEF Fail, course, TypeOK
  <2>2. PICK e \in plan[p] : Current(p, e) /\ ~e.skip
    BY <1>11 DEF Fail
  <2>3. e.type \in ToWrite(p) \cap left[p] /\ IsLeast(e.type, left[p])
    BY <2>2 DEF Current, IsLeast, ToWrite
  <2> DEFINE planned == Cardinality({f \in plan[p] : f.skip})
             asked == Cardinality(request[p].types)
             n == Cardinality(committed[p])
  <2>4. planned \in Nat /\ asked \in Nat /\ planned <= asked - succeeded[p] - 1
    <3>1. Cardinality({e.type}) = 1
      BY FS_Singleton
    <3> QED
      BY <3>1, <2>1, <2>3, <1>i, <1>0, RestCoversTheSkipped
  <2>5. n \in Nat /\ succeeded[p] \in Nat /\ succeeded[p] <= n /\ n <= succeeded[p] + 1
    <3>1. IsFiniteSet(committed[p] \ left[p]) /\ IsFiniteSet(committed[p])
      <4>1. committed[p] \in SUBSET Types /\ committed[p] \ left[p] \in SUBSET Types
        BY <1>0
      <4> QED
        BY <4>1, FS_Subset, ConstantsOK
    <3>2. succeeded[p] = Cardinality(committed[p] \ left[p])
      BY <2>1, <1>0 DEF TallyAt
    <3>3. \/ committed[p] = committed[p] \ left[p]
          \/ committed[p] = (committed[p] \ left[p]) \cup {e.type}
      BY <2>1, <2>3, <1>0, LeastIsUnique DEF TallyAt
    <3> DEFINE counted == committed[p] \ left[p]
    <3>4. e.type \notin counted
      BY <2>3
    <3>5. IsFiniteSet(counted)
      BY <3>1
    <3> HIDE DEF counted
    <3>6. /\ Cardinality(counted) \in Nat
          /\ Cardinality(counted \cup {e.type}) = Cardinality(counted) + 1
      BY <3>4, <3>5, FS_AddElement, FS_CardinalityType
    <3>7. n = Cardinality(counted) \/ n = Cardinality(counted \cup {e.type})
      BY <3>3 DEF counted
    <3>8. succeeded[p] = Cardinality(counted)
      BY <3>2 DEF counted
    <3> HIDE DEF n
    <3> QED
      BY <3>6, <3>7, <3>8
  <2>6. /\ outcome'[p].succeeded = succeeded[p] /\ outcome'[p].failed = 1
        /\ outcome'[p].skipped = asked - succeeded[p] - 1
        /\ outcome'[p].status = IF succeeded[p] > 0 THEN "partial_failed" ELSE "failed"
    <3> HIDE DEF planned, asked
    <3>1. ~(asked - succeeded[p] - 1 < planned)
      BY <2>4, <2>5
    <3> QED
      BY <3>1, <2>1 DEF Tally, planned, asked
  <2>7. Cardinality(committed'[p]) = n /\ Cardinality(request'[p].types) = asked
    BY <2>1
  <2>8. Honest(p)'
    <3> HIDE DEF planned, asked, n
    <3> QED
      BY <2>4, <2>5, <2>6, <2>7
  <2> QED
    BY <2>1, <2>8 DEF TallyAt
<1>12. CASE Succeed(p)
  <2>1. /\ pc[p] = "apply" /\ pc'[p] = "done" /\ left[p] = {}
        /\ committed' = committed /\ request' = request /\ plan' = plan
        /\ outcome'[p] = Tally(p, 0)
    BY <1>12, <1>i DEF Succeed, course, TypeOK
  <2>2. committed[p] = ToWrite(p) /\ committed[p] \ left[p] = committed[p]
    BY <2>1, <1>0 DEF OrderAt, TallyAt
  <2>3. succeeded[p] = Cardinality(committed[p]) /\ succeeded[p] \in Nat
    BY <2>1, <2>2, <1>0, <1>i DEF TallyAt, TypeOK
  <2> DEFINE planned == Cardinality({f \in plan[p] : f.skip})
             asked == Cardinality(request[p].types)
  <2>4. planned \in Nat /\ asked \in Nat /\ planned <= asked - succeeded[p] - 0
    <3>1. Cardinality({}) = 0
      BY FS_EmptySet
    <3> QED
      BY <3>1, <2>1, <1>i, <1>0, RestCoversTheSkipped
  <2>6. /\ outcome'[p].succeeded = succeeded[p] /\ outcome'[p].failed = 0
        /\ outcome'[p].skipped = asked - succeeded[p] - 0
        /\ outcome'[p].status = "success"
    <3> HIDE DEF planned, asked
    <3>1. ~(asked - succeeded[p] - 0 < planned)
      BY <2>3, <2>4
    <3>2. /\ Tally(p, 0).succeeded = succeeded[p]
          /\ Tally(p, 0).failed = 0
          /\ Tally(p, 0).skipped = IF asked - succeeded[p] - 0 < planned THEN planned
                                   ELSE asked - succeeded[p] - 0
      BY DEF Tally, planned, asked
    <3>3. Tally(p, 0).status = "success"
      BY DEF Tally
    <3> QED
      BY <3>1, <3>2, <3>3, <2>1
  <2>7. /\ Cardinality(committed'[p]) = succeeded[p] /\ Cardinality(request'[p].types) = asked
        /\ committed'[p] = ToWrite(p)'
    BY <2>1, <2>2, <2>3 DEF ToWrite
  <2>8. Honest(p)'
    <3> HIDE DEF planned, asked
    <3> QED
      BY <2>3, <2>4, <2>6, <2>7
  <2> QED
    BY <2>1, <2>8 DEF TallyAt
<1> QED
  BY <1>i, <1>a, <1>1, <1>2, <1>3, <1>4, <1>5, <1>6, <1>7, <1>8, <1>9, <1>10, <1>11,
     <1>12, CourseSteps DEF Planning, Applying

-----------------------------------------------------------------------------
(* The inductive invariant: between its read and its write a command holds  *)
(* no lock, and still every revision it holds says what it needs to know of *)
(* the rule set as it is now.                                               *)
THEOREM Inductive == Spec => []IInv
<1>1. Init => IInv
  BY TypeCorrectAtInit DEF Init, IInv, PresentHasRevision, ExpectedWasSeen, PlanInv,
     RequestAt, PlanAt, EntriesInv, ApplyInv, Deletes, OrderInv, OrderAt,
     CommittedInOrder, ToWrite, TallyInv, TallyAt, OutcomeHonest, Refusal
<1>2. IInv /\ [Next]_vars => IInv'
  <2> SUFFICES ASSUME IInv, [Next]_vars PROVE IInv'
    OBVIOUS
  <2>1. TypeOK'
    BY TypesAreKept DEF IInv
  <2> QED
    BY <2>1, PresentHasRevisionHolds, ExpectedWasSeenHolds, PlanInvHolds,
       EntriesInvHolds, ApplyInvHolds, OrderInvHolds, TallyInvHolds DEF IInv
<1> QED
  BY <1>1, <1>2, PTL DEF Spec

(* A write is a commit of an entry whose blob is as planned and, where it   *)
(* holds rules, saved.                                                      *)
LEMMA CommitsAreCurrent ==
  ASSUME IInv, [Next]_vars, NEW p \in Commands, NEW t \in committed'[p] \ committed[p]
  PROVE  \E e \in plan[p] :
           /\ e.type = t /\ e.type \in Types
           /\ Commit(p, e)
           /\ e.cur = blob[t] /\ EntryAt(p, e)
           /\ RulesIn(blob[t]) # NoRules =>
                [by |-> p, type |-> t, rules |-> blob[t]] \in backups
<1>0. TypeOK /\ PlanInv /\ ApplyInv /\ EntriesInv
  BY DEF IInv
<1>1. WriteKey(p) \/ Update(p)
  BY <1>0, CommittedSteps
<1>2. PICK e \in plan[p] :
        /\ Commit(p, e) /\ ~e.skip /\ Matches(p, e) /\ Current(p, e)
        /\ pc[p] = "update" \/ ReadyToWrite(p, e)
  <2>1. CASE WriteKey(p)
    BY <2>1 DEF WriteKey, ReadyToWrite
  <2>2. CASE Update(p)
    BY <2>2, <1>0 DEF Update, ApplyInv, SeenAt
  <2> QED
    BY <1>1, <2>1, <2>2
<1>3. e.type = t /\ e.type \in Types
  BY <1>0, <1>2 DEF Commit, TypeOK, Entries
<1>4. EntryAt(p, e) /\ e.cur = blob[t] /\ (blob[t] # Absent => rev[t] = e.revision)
  BY <1>0, <1>2, <1>3, AtTheWrite DEF EntriesInv
<1>5. RulesIn(blob[t]) # NoRules => [by |-> p, type |-> t, rules |-> blob[t]] \in backups
  <2> SUFFICES ASSUME RulesIn(blob[t]) # NoRules
               PROVE  [by |-> p, type |-> t, rules |-> blob[t]] \in backups
    OBVIOUS
  <2>1. blob[t] # Absent /\ rev[t] = e.revision
    BY <1>4, RuleSetFacts
  <2>2. e.backup
    BY <1>4 DEF EntryAt
  <2>3. SavedAt(p, e)
    BY <1>0, <1>2, <2>2 DEF ApplyInv, ReadyToWrite
  <2> QED
    BY <1>3, <2>1, <2>3 DEF SavedAt
<1> QED
  BY <1>2, <1>3, <1>4, <1>5

(* No lost update: for any number of commands, rule types and rules, and    *)
(* whatever other writers do, a write replaces the rule set it was planned  *)
(* from and leaves its own edit of it.                                      *)
THEOREM NoUpdateIsLost == Spec => NoLostUpdate
<1>1. IInv /\ [Next]_vars =>
        [ \A p \in Commands : \A t \in committed'[p] \ committed[p] :
            /\ \E e \in plan[p] : e.type = t /\ e.cur = blob[t]
            /\ blob'[t] = IF Deletes(p) THEN Absent ELSE Edit(p, RulesIn(blob[t])) ]_vars
  <2> SUFFICES ASSUME IInv, [Next]_vars, NEW p \in Commands,
                      NEW t \in committed'[p] \ committed[p]
               PROVE  /\ \E e \in plan[p] : e.type = t /\ e.cur = blob[t]
                      /\ blob'[t] = IF Deletes(p) THEN Absent ELSE Edit(p, RulesIn(blob[t]))
    OBVIOUS
  <2>1. PICK e \in plan[p] : /\ e.type = t /\ e.type \in Types
                             /\ Commit(p, e) /\ e.cur = blob[t] /\ EntryAt(p, e)
    BY CommitsAreCurrent
  <2>2. blob'[t] = IF Deletes(p) THEN Absent ELSE e.next
    BY <2>1 DEF Commit, IInv, TypeOK
  <2> QED
    BY <2>1, <2>2 DEF EntryAt
<1> QED
  BY <1>1, Inductive, PTL DEF Spec, NoLostUpdate

(* Backups come first: whatever non-empty rule set a write replaces or      *)
(* deletes was saved by the same command, exactly as it was.                *)
THEOREM BackupsComeFirst == Spec => SavedBeforeReplaced
<1>1. IInv /\ [Next]_vars =>
        [ \A p \in Commands : \A t \in committed'[p] \ committed[p] :
            RulesIn(blob[t]) # NoRules =>
              [by |-> p, type |-> t, rules |-> blob[t]] \in backups ]_vars
  BY CommitsAreCurrent
<1> QED
  BY <1>1, Inductive, PTL DEF Spec, SavedBeforeReplaced

(* A command writes in type order, and nothing after the write that failed: *)
(* whatever it has written, all that it planned before it is written too.   *)
THEOREM OrderIsKept == Spec => []CommittedInOrder
<1>1. IInv => CommittedInOrder
  BY DEF IInv, OrderInv
<1> QED
  BY <1>1, Inductive, PTL

(* What a command reports is what it did: for any number of types, the      *)
(* succeeded, failed and skipped of its outcome add up to what it was asked *)
(* for, a success wrote all it planned, and a failure hides at most the one *)
(* write it failed at.                                                      *)
THEOREM OutcomesAreHonest == Spec => []OutcomeHonest
<1>1. IInv => OutcomeHonest
  BY DEF IInv, TallyInv
<1> QED
  BY <1>1, Inductive, PTL

(* cmd/rule_write.go:163 offers rule rollback a "Backup id, file, or        *)
(* directory": on Kubernetes no backup of a rule set can be found by its id.*)
THEOREM NoRollbackByIdOnKubernetes ==
  ASSUME Backend = "object", NEW b \in Backups
  PROVE  ~Restorable(b)
<1> DEFINE id == BackupDataID(b.type)
<1>1. Len(id) = 2 /\ id[2] = DataKey
  BY DEF BackupDataID
<1> QED
  BY <1>1, ConstantsOK DEF Restorable
=============================================================================
