------------------------------ MODULE RuleWrites ------------------------------
(***************************************************************************)
(* Governed writes of rule sets: cmd/rule_write.go over the backends that  *)
(* report supportsCas (internal/backend/etcd, consul and k8s).  Feature    *)
(* flags take the same path (cmd/flag_write.go) with one blob per app.     *)
(*                                                                         *)
(* A command reads every rule set it will write, plans the edits, passes   *)
(* its gates, and then, type by type in name order, skips, backs up and    *)
(* writes.  No lock is held between the reads and the writes: only the     *)
(* revision, or the absence, that the plan saw protects other writers.     *)
(*                                                                         *)
(* Modelling decisions:                                                    *)
(*  - a rule set maps each rule to the writer of its text; a blob that     *)
(*    does not decode makes the plan fail, which PlanFails covers;         *)
(*  - rev counts the changes of the object that holds a blob: the etcd mod *)
(*    revision, the Consul ModifyIndex or the resourceVersion, which never *)
(*    repeat.  0 stands for the empty revision;                            *)
(*  - an operator passes --expected-revision only with a revision that the *)
(*    object has had;                                                      *)
(*  - Fail stands for any error of a backend call, refused preconditions   *)
(*    and answers lost after the backend acted included;                   *)
(*  - the audit records around the writes are the subject of MutationAudit.*)
(***************************************************************************)
EXTENDS Integers, FiniteSets, Sequences

CONSTANTS
  Commands,   \* invocations of cfgov, each by its own process
  Types,      \* the rule types of one app, as numbers in the order of their names
  Rules,      \* what rule.Key tells apart within one rule set
  Other,      \* any other writer of the blobs, config push included
  NoRule,     \* the value of a rule that is not in a set
  Absent,     \* the content of a blob that does not exist
  Backend,    \* "kv": etcd and Consul; "object": Kubernetes
  DataKey,    \* the data key that every Kubernetes rule coordinate ends in
  MaxRev      \* bound: other writers leave an object alone at this revision

ASSUME ConstantsOK ==
  /\ Types \subseteq Nat /\ IsFiniteSet(Types)
  /\ DataKey \notin Types
  /\ Other \notin Commands
  /\ NoRule \notin Commands \cup {Other}
  /\ Absent \notin [Rules -> Commands \cup {Other, NoRule}]
  /\ Backend \in {"kv", "object"}
  /\ MaxRev \in Nat

VARIABLES
  blob, rev,  \* the backend: the content of each rule set, and its revisions
  backups,    \* the local backup store
  pc,         \* where each command is
  request,    \* what it was asked to do
  plan,       \* the entries it has planned
  left,       \* the types it has still to plan, and then to write
  seen,       \* "object": the resourceVersion of the object it is updating
  succeeded,  \* the writes it has counted
  committed,  \* history: the types whose write took effect
  outcome     \* the outcome it records

vars == <<blob, rev, backups, pc, request, plan, left, seen, succeeded,
          committed, outcome>>
store == <<blob, rev, backups>>
course == <<request, plan, left, seen, succeeded>>

RuleSets == [Rules -> Commands \cup {Other, NoRule}]
Blobs == RuleSets \cup {Absent}
NoRules == [r \in Rules |-> NoRule]
Backups == [by : Commands, type : Types, rules : RuleSets]

(* "force" is create --force, "clear" is delete --all.                      *)
Singles == {"create", "force", "update"}
Verbs == Singles \cup {"delete", "clear", "import", "rollback"}

(* Every verb sets the rules of mask to what local holds.                   *)
Requests == [verb : Verbs, types : SUBSET Types, mask : SUBSET Rules,
             local : RuleSets, expected : Nat]

Entries == [type : Types, cur : Blobs, revision : Nat, next : RuleSets,
            skip : BOOLEAN, backup : BOOLEAN]

Statuses == {"none", "refused", "success", "failed", "partial_failed"}
Outcomes == [status : Statuses, succeeded : Int, failed : Int, skipped : Int]
Refusal == [status |-> "refused", succeeded |-> 0, failed |-> 0, skipped |-> 0]

(* readRuleSet: a blob that does not exist reads as the empty set.          *)
RulesIn(b) == IF b = Absent THEN NoRules ELSE b

IsLeast(t, S) == t \in S /\ \A u \in S : t <= u

Init ==
  /\ blob = [t \in Types |-> Absent]
  /\ rev = [t \in Types |-> 0]
  /\ backups = {}
  /\ pc = [p \in Commands |-> "start"]
  /\ request = [p \in Commands |-> [verb |-> "import", types |-> {}, mask |-> {},
                                    local |-> NoRules, expected |-> 0]]
  /\ plan = [p \in Commands |-> {}]
  /\ left = [p \in Commands |-> {}]
  /\ seen = [p \in Commands |-> 0]
  /\ succeeded = [p \in Commands |-> 0]
  /\ committed = [p \in Commands |-> {}]
  /\ outcome = [p \in Commands |-> [Refusal EXCEPT !.status = "none"]]

-----------------------------------------------------------------------------
(* Asking.                                                                  *)

Ask(p, verb, types, mask, local, expected) ==
  /\ pc[p] = "start"
  /\ request' = [request EXCEPT ![p] =
                   [verb |-> verb, types |-> types, mask |-> mask,
                    local |-> local, expected |-> expected]]
  /\ left' = [left EXCEPT ![p] = types]
  /\ pc' = [pc EXCEPT ![p] = "plan"]
  /\ UNCHANGED <<store, plan, seen, succeeded, committed, outcome>>

(* The rules of R as the command's own files hold them.                     *)
Own(p, R) == [r \in Rules |-> IF r \in R THEN p ELSE NoRule]

AskSingle(p) ==
  \E verb \in Singles, t \in Types, r \in Rules :
    \E n \in 0..rev[t] : Ask(p, verb, {t}, {r}, Own(p, {r}), n)

(* --resource names one or more rules.                                      *)
AskDelete(p) ==
  \E t \in Types, R \in SUBSET Rules :
    \E n \in 0..rev[t] : R # {} /\ Ask(p, "delete", {t}, R, NoRules, n)

AskClear(p) ==
  \E t \in Types : \E n \in 0..rev[t] : Ask(p, "clear", {t}, Rules, NoRules, n)

AskImport(p) ==
  \E S \in SUBSET Types, R \in SUBSET Rules :
    S # {} /\ Ask(p, "import", S, Rules, Own(p, R), 0)

(* The dataId that a backup is filed under: ParseNacosKey cuts the first    *)
(* segment off a Kubernetes coordinate, configmap/<name>/rules.json.        *)
BackupDataID(t) == IF Backend = "object" THEN <<t, DataKey>> ELSE <<t>>

(* rule.TypeFromDataID looks at the last segment.                           *)
Restorable(b) == LET id == BackupDataID(b.type) IN id[Len(id)] \in Types

(* A rollback by backup id takes any backup; one by file or directory is an *)
(* import of the same rules.                                                *)
AskRollback(p) ==
  \E b \in backups :
    Restorable(b) /\ Ask(p, "rollback", {b.type}, Rules, b.rules, 0)

-----------------------------------------------------------------------------
(* runRuleWritePreflight: one Get and one plan entry for each type.         *)

Edit(p, rules) ==
  [r \in Rules |-> IF r \in request[p].mask THEN request[p].local[r] ELSE rules[r]]

(* planSingleRuleSet and planDeleteRuleSet.                                 *)
Fits(p, rules) ==
  CASE request[p].verb = "create" -> \A r \in request[p].mask : rules[r] = NoRule
    [] request[p].verb \in {"update", "delete"} ->
         \E r \in request[p].mask : rules[r] # NoRule
    [] OTHER -> TRUE

(* classifyRuleChange compares the bytes: the same rules in another form    *)
(* are written again, and an absent blob counts as the bytes [].            *)
Skips(cur, next) ==
  {s \in BOOLEAN : IF cur = Absent THEN s <=> (next = NoRules) ELSE s => next = cur}

(* A fault: an import or a delete overwrites rules without a backup.        *)
NeedsBackupUpdateOnly(p, rules) == request[p].verb \in {"update", "rollback"}

NeedsBackup(p, rules) ==
  request[p].verb \in {"update", "rollback"} \/ rules # NoRules

(* --expected-revision replaces the revision that was read.                 *)
PlannedRevision(p, t) ==
  IF request[p].expected # 0 THEN request[p].expected
  ELSE IF blob[t] = Absent THEN 0 ELSE rev[t]

PlanRead(p) ==
  /\ pc[p] = "plan"
  /\ \E t \in Types :
       LET rules == RulesIn(blob[t])
           next  == Edit(p, rules)
       IN /\ IsLeast(t, left[p])
          /\ Fits(p, rules)
          /\ \E s \in Skips(blob[t], next) :
               plan' = [plan EXCEPT ![p] = @ \cup
                 {[type |-> t, cur |-> blob[t], revision |-> PlannedRevision(p, t),
                   next |-> next, skip |-> s, backup |-> NeedsBackup(p, rules)]}]
          /\ left' = [left EXCEPT ![p] = @ \ {t}]
  /\ UNCHANGED <<store, pc, request, seen, succeeded, committed, outcome>>

(* The read, its audit records, the decoding, the edit or the validation    *)
(* fails; or, with the plan complete, the preview, a gate, the              *)
(* authorization or the mutation intent ends the command.                   *)
PlanFails(p) ==
  /\ pc[p] = "plan"
  /\ pc' = [pc EXCEPT ![p] = "done"]
  /\ outcome' = [outcome EXCEPT ![p] = Refusal]
  /\ UNCHANGED <<store, course, committed>>

Authorize(p) ==
  /\ pc[p] = "plan"
  /\ left[p] = {}
  /\ pc' = [pc EXCEPT ![p] = "apply"]
  /\ left' = [left EXCEPT ![p] = request[p].types]
  /\ UNCHANGED <<store, request, plan, seen, succeeded, committed, outcome>>

-----------------------------------------------------------------------------
(* The loop of applyRuleWrites.                                             *)

Current(p, e) == e \in plan[p] /\ IsLeast(e.type, left[p])

Skip(p) ==
  /\ pc[p] = "apply"
  /\ \E e \in plan[p] :
       Current(p, e) /\ e.skip /\ left' = [left EXCEPT ![p] = @ \ {e.type}]
  /\ UNCHANGED <<store, pc, request, plan, seen, succeeded, committed, outcome>>

(* backupRuleCurrent: a second Get; a blob that is gone needs no backup.    *)
BackUp(p) ==
  /\ pc[p] = "apply"
  /\ \E e \in plan[p] :
       /\ Current(p, e) /\ ~e.skip /\ e.backup
       /\ backups' = backups \cup
            IF blob[e.type] = Absent THEN {}
            ELSE {[by |-> p, type |-> e.type, rules |-> blob[e.type]]}
  /\ pc' = [pc EXCEPT ![p] = "write"]
  /\ UNCHANGED <<blob, rev, course, committed, outcome>>

ReadyToWrite(p, e) ==
  /\ Current(p, e) /\ ~e.skip
  /\ pc[p] = IF e.backup THEN "write" ELSE "apply"

Deletes(p) == request[p].verb = "clear"

(* A fault: a Put without a revision has no precondition.                   *)
MatchesAnythingNew(p, e) ==
  e.revision = 0 \/ (blob[e.type] # Absent /\ rev[e.type] = e.revision)

(* The precondition as the backend checks it: a Put with no revision needs  *)
(* an absent blob, a Delete with no revision needs nothing.  A Kubernetes   *)
(* object may have the revision and not the data key.                       *)
Matches(p, e) ==
  IF e.revision = 0 THEN Deletes(p) \/ blob[e.type] = Absent
  ELSE rev[e.type] = e.revision /\ (Backend = "kv" => blob[e.type] # Absent)

Commit(p, e) ==
  /\ blob' = [blob EXCEPT ![e.type] = IF Deletes(p) THEN Absent ELSE e.next]
  /\ rev' = [rev EXCEPT ![e.type] = @ + 1]
  /\ committed' = [committed EXCEPT ![p] = @ \cup {e.type}]
  /\ pc' = [pc EXCEPT ![p] = "answer"]
  /\ UNCHANGED <<backups, course, outcome>>

(* etcd: one transaction; Consul: one cas or delete-cas.                    *)
WriteKey(p) ==
  /\ Backend = "kv"
  /\ \E e \in plan[p] : ReadyToWrite(p, e) /\ Matches(p, e) /\ Commit(p, e)

(* Kubernetes: a Get with the precondition, and an Update that the server   *)
(* refuses if the object has changed since.                                 *)
Inspect(p) ==
  /\ Backend = "object"
  /\ \E e \in plan[p] :
       /\ ReadyToWrite(p, e) /\ Matches(p, e)
       /\ Deletes(p) => blob[e.type] # Absent
       /\ seen' = [seen EXCEPT ![p] = rev[e.type]]
  /\ pc' = [pc EXCEPT ![p] = "update"]
  /\ UNCHANGED <<store, request, plan, left, succeeded, committed, outcome>>

(* A fault: the Update carries no resourceVersion.                          *)
UpdateAnyVersion(p) ==
  /\ pc[p] = "update"
  /\ \E e \in plan[p] : Current(p, e) /\ Commit(p, e)

Update(p) ==
  /\ pc[p] = "update"
  /\ \E e \in plan[p] : Current(p, e) /\ rev[e.type] = seen[p] /\ Commit(p, e)

(* A fault: a delete is not counted.                                        *)
AnsweredUncounted(p) ==
  /\ pc[p] = "answer"
  /\ \E e \in plan[p] :
       /\ Current(p, e)
       /\ Backend = "kv" /\ ~Deletes(p) => blob[e.type] # Absent
       /\ left' = [left EXCEPT ![p] = @ \ {e.type}]
  /\ succeeded' = [succeeded EXCEPT ![p] = IF Deletes(p) THEN @ ELSE @ + 1]
  /\ pc' = [pc EXCEPT ![p] = "apply"]
  /\ UNCHANGED <<store, request, plan, seen, committed, outcome>>

(* The answer arrives.  After a Put, etcd and Consul read the blob back,    *)
(* and a blob that is gone by then is an error.                             *)
Answered(p) ==
  /\ pc[p] = "answer"
  /\ \E e \in plan[p] :
       /\ Current(p, e)
       /\ Backend = "kv" /\ ~Deletes(p) => blob[e.type] # Absent
       /\ left' = [left EXCEPT ![p] = @ \ {e.type}]
  /\ succeeded' = [succeeded EXCEPT ![p] = @ + 1]
  /\ pc' = [pc EXCEPT ![p] = "apply"]
  /\ UNCHANGED <<store, request, plan, seen, committed, outcome>>

(* finishBatchMutationAudit                                                 *)
Tally(p, failed) ==
  LET planned == Cardinality({e \in plan[p] : e.skip})
      rest    == Cardinality(request[p].types) - succeeded[p] - failed
  IN [status |-> IF failed = 0 THEN "success"
                 ELSE IF succeeded[p] > 0 THEN "partial_failed" ELSE "failed",
      succeeded |-> succeeded[p],
      failed |-> failed,
      skipped |-> IF rest < planned THEN planned ELSE rest]

(* A fault: the loop goes on after an error.                                *)
FailAndGoOn(p) ==
  /\ pc[p] \in {"apply", "write", "update", "answer"}
  /\ \E e \in plan[p] :
       Current(p, e) /\ ~e.skip /\ left' = [left EXCEPT ![p] = @ \ {e.type}]
  /\ pc' = [pc EXCEPT ![p] = "apply"]
  /\ UNCHANGED <<store, request, plan, seen, succeeded, committed, outcome>>

Fail(p) ==
  /\ pc[p] \in {"apply", "write", "update", "answer"}
  /\ \E e \in plan[p] : Current(p, e) /\ ~e.skip
  /\ pc' = [pc EXCEPT ![p] = "done"]
  /\ outcome' = [outcome EXCEPT ![p] = Tally(p, 1)]
  /\ UNCHANGED <<store, course, committed>>

Succeed(p) ==
  /\ pc[p] = "apply"
  /\ left[p] = {}
  /\ pc' = [pc EXCEPT ![p] = "done"]
  /\ outcome' = [outcome EXCEPT ![p] = Tally(p, 0)]
  /\ UNCHANGED <<store, course, committed>>

-----------------------------------------------------------------------------
(* The process dies, at any point.                                          *)
Crash(p) ==
  /\ pc[p] \notin {"start", "done", "dead"}
  /\ pc' = [pc EXCEPT ![p] = "dead"]
  /\ UNCHANGED <<store, course, committed, outcome>>

(* Somebody else writes or deletes a rule set, or another data key of its   *)
(* Kubernetes object.                                                       *)
OtherWrite(t) ==
  /\ rev[t] < MaxRev
  /\ \E b \in {Absent, blob[t]} \cup [Rules -> {Other, NoRule}] :
       blob' = [blob EXCEPT ![t] = b]
  /\ rev' = [rev EXCEPT ![t] = @ + 1]
  /\ UNCHANGED <<backups, pc, course, committed, outcome>>

AskAny(p) == AskSingle(p) \/ AskDelete(p) \/ AskClear(p)
             \/ AskImport(p) \/ AskRollback(p)
Planning(p) == PlanRead(p) \/ PlanFails(p) \/ Authorize(p)
Applying(p) == \/ Skip(p) \/ BackUp(p)
               \/ WriteKey(p) \/ Inspect(p) \/ Update(p)
               \/ Answered(p) \/ Fail(p) \/ Succeed(p)

Next == \/ \E p \in Commands : AskAny(p) \/ Planning(p) \/ Applying(p) \/ Crash(p)
        \/ \E t \in Types : OtherWrite(t)

Spec == Init /\ [][Next]_vars

-----------------------------------------------------------------------------
(* Properties                                                               *)

(* The types of the variables; an outcome counts with whole numbers.        *)
TypeOK ==
  /\ blob \in [Types -> Blobs]
  /\ rev \in [Types -> Nat]
  /\ backups \subseteq Backups
  /\ pc \in [Commands -> {"start", "plan", "apply", "write", "update", "answer",
                          "done", "dead"}]
  /\ request \in [Commands -> Requests]
  /\ plan \in [Commands -> SUBSET Entries]
  /\ \A p \in Commands : IsFiniteSet(plan[p])
  /\ left \in [Commands -> SUBSET Types]
  /\ seen \in [Commands -> Nat]
  /\ succeeded \in [Commands -> Nat]
  /\ committed \in [Commands -> SUBSET Types]
  /\ outcome \in [Commands -> Outcomes]

(* A write replaces exactly the rule set that its plan was made from, and   *)
(* leaves its own edit of it: no update of another writer in between is     *)
(* lost, whether the precondition is absence, the revision that was read or *)
(* the operator's --expected-revision.                                      *)
NoLostUpdate ==
  [][ \A p \in Commands : \A t \in committed'[p] \ committed[p] :
        /\ \E e \in plan[p] : e.type = t /\ e.cur = blob[t]
        /\ blob'[t] = IF Deletes(p) THEN Absent ELSE Edit(p, RulesIn(blob[t])) ]_vars

(* "Overwrite/delete/rollback paths back up the existing remote rule set    *)
(* before writing": when a write replaces or deletes a rule set that is not *)
(* empty, the very rules it destroys are in the backup store already, saved *)
(* by the same command, although the backup is a separate, earlier read.    *)
SavedBeforeReplaced ==
  [][ \A p \in Commands : \A t \in committed'[p] \ committed[p] :
        RulesIn(blob[t]) # NoRules =>
          [by |-> p, type |-> t, rules |-> blob[t]] \in backups ]_vars

(* The types that a command has planned to write.                          *)
ToWrite(p) == {e.type : e \in {f \in plan[p] : ~f.skip}}

(* The outcome a command records accounts for every type it was asked for;  *)
(* a success means that each planned write took effect, and a failure hides *)
(* at most the one write it failed at.                                      *)
OutcomeHonest ==
  \A p \in Commands :
    LET o == outcome[p]
        n == Cardinality(committed[p])
    IN /\ o.status \in {"success", "failed", "partial_failed"} =>
            /\ o.succeeded + o.failed + o.skipped = Cardinality(request[p].types)
            /\ o.succeeded <= n /\ n <= o.succeeded + o.failed
       /\ o.status = "success" => committed[p] = ToWrite(p)
       /\ o.status = "failed" => n <= 1
       /\ o.status = "refused" => n = 0

(* A command writes in type order and nothing after the write that failed,  *)
(* or that a crash interrupted.                                             *)
CommittedInOrder ==
  \A p \in Commands : \A t \in committed[p], u \in ToWrite(p) :
    u < t => u \in committed[p]

(* The inductive invariant behind NoLostUpdate and SavedBeforeReplaced:     *)
(* a revision that a plan or an Update holds is in the past or the present, *)
(* and while it is the present, the blob is the one that was read.          *)
PresentHasRevision == \A t \in Types : blob[t] # Absent => rev[t] > 0

ExpectedWasSeen ==
  \A p \in Commands : pc[p] = "plan" =>
    \A t \in left[p] : request[p].expected <= rev[t]

EntryAt(p, e) ==
  /\ e.revision <= rev[e.type]
  /\ e.revision > 0 /\ e.revision = rev[e.type] => blob[e.type] = e.cur
  /\ e.revision = 0 => e.cur = Absent
  /\ e.next = Edit(p, RulesIn(e.cur))
  /\ e.revision = 0 /\ Deletes(p) => e.skip
  /\ ~e.backup => RulesIn(e.cur) = NoRules

EntriesInv == \A p \in Commands : \A e \in plan[p] : EntryAt(p, e)

SavedAt(p, e) ==
  /\ blob[e.type] # Absent /\ rev[e.type] = e.revision /\ RulesIn(blob[e.type]) # NoRules
  => [by |-> p, type |-> e.type, rules |-> blob[e.type]] \in backups

SeenAt(p, e) ==
  /\ seen[p] <= rev[e.type]
  /\ seen[p] = rev[e.type] => Matches(p, e)

ApplyInv ==
  \A p \in Commands : \A e \in plan[p] :
    /\ pc[p] \in {"write", "update"} /\ Current(p, e) => ~e.skip /\ SavedAt(p, e)
    /\ pc[p] = "update" /\ Current(p, e) => SeenAt(p, e)

RequestAt(p) ==
  /\ pc[p] = "start" => plan[p] = {} /\ request[p].verb # "clear"
  /\ Deletes(p) => \A rules \in RuleSets : Edit(p, rules) = NoRules

PlanAt(p) ==
  /\ \A e, f \in plan[p] : e.type = f.type => e = f
  /\ pc[p] = "plan" => \A e \in plan[p] : e.type \notin left[p]

PlanInv == \A p \in Commands : RequestAt(p) /\ PlanAt(p)

(* Behind CommittedInOrder: what is no longer left is written or skipped,   *)
(* and nothing that is left comes before what is written.                   *)
OrderAt(p) ==
  /\ \A e \in plan[p] : e.type \in request[p].types
  /\ pc[p] \in {"start", "plan"} => committed[p] = {} /\ left[p] \subseteq request[p].types
  /\ pc[p] \in {"apply", "write", "update", "answer"} =>
       /\ ToWrite(p) \subseteq left[p] \cup committed[p]
       /\ \A t \in committed[p], u \in left[p] : t <= u
  /\ pc[p] = "answer" => \A e \in plan[p] : Current(p, e) => e.type \in committed[p]

OrderInv == CommittedInOrder /\ \A p \in Commands : OrderAt(p)

(* Behind OutcomeHonest: the plan is complete before the first write, and   *)
(* the count is of the writes that are known to have taken effect.  Only    *)
(* the write whose answer is awaited may have taken effect uncounted.       *)
TallyAt(p) ==
  /\ pc[p] # "done" => outcome[p].status = "none"
  /\ pc[p] \in {"start", "plan"} => succeeded[p] = 0
  /\ pc[p] = "plan" =>
       \A t \in request[p].types : t \in left[p] \/ \E e \in plan[p] : e.type = t
  /\ pc[p] \in {"apply", "write", "update", "answer"} =>
       /\ \A t \in request[p].types : \E e \in plan[p] : e.type = t
       /\ left[p] \subseteq request[p].types
       /\ committed[p] \subseteq ToWrite(p)
       /\ succeeded[p] = Cardinality(committed[p] \ left[p])
       /\ \A t \in committed[p] \cap left[p] : pc[p] = "answer" /\ IsLeast(t, left[p])

TallyInv == OutcomeHonest /\ \A p \in Commands : TallyAt(p)

(* Each of its parts holds in every state; together they are inductive.     *)
IInv == /\ TypeOK
        /\ PresentHasRevision
        /\ ExpectedWasSeen
        /\ PlanInv
        /\ EntriesInv
        /\ ApplyInv
        /\ OrderInv
        /\ TallyInv
=============================================================================
