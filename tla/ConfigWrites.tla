----------------------------- MODULE ConfigWrites -----------------------------
(***************************************************************************)
(* Governed writes of config blobs: push and delete (cmd/config.go),       *)
(* import, promote, rollback and reconcile (cmd/config_bulk.go), over the  *)
(* backends that report supportsCas.  On Nacos and Apollo the gates let    *)
(* only push, delete and rollback without a precondition through.          *)
(*                                                                         *)
(* A batch command (import, promote, reconcile) reads every blob, plans,   *)
(* passes its gates, and writes blob by blob under the absence or the      *)
(* revision it read.  A push or a delete carries only the precondition its *)
(* operator asked for, and a rollback carries none.                        *)
(*                                                                         *)
(* Modelling decisions:                                                    *)
(*  - contents are opaque; two of them are equal when their hashes are;    *)
(*  - several keys may live in one Kubernetes object, whose resourceVersion*)
(*    is the revision of each of them; rev counts its changes;             *)
(*  - a batch is planned and applied in the order of its keys (the apply   *)
(*    loop of an import follows its manifest instead);                     *)
(*  - promote reads its contents in another context: they are any contents;*)
(*  - an operator passes --expected-revision only with a revision that the *)
(*    object has had;                                                      *)
(*  - Fail stands for any error of a backend call or of the backup store   *)
(*    that is not a refused precondition.                                  *)
(***************************************************************************)
EXTENDS Integers, FiniteSets

CONSTANTS
  Commands,  \* invocations of cfgov, each by its own process
  Keys,      \* config keys, as numbers in their order
  ObjectOf,  \* the Kubernetes object that holds each key
  Contents,  \* what a blob may hold
  Absent,    \* the content of a blob that does not exist
  NoLocal,   \* the content of a key that the local files do not have
  Unread,    \* the content of a blob that a plan did not read
  Padded,    \* the keys that the source of a batch writes with spaces around them
  MaxRev     \* bound: other writers leave an object alone at this revision

Objects == Keys \cup {ObjectOf[k] : k \in Keys}

ASSUME ConstantsOK ==
  /\ Keys \subseteq Nat /\ IsFiniteSet(Keys)
  /\ Padded \subseteq Keys
  /\ Cardinality({Absent, NoLocal, Unread}) = 3
  /\ {Absent, NoLocal, Unread} \cap Contents = {}
  /\ MaxRev \in Nat

VARIABLES
  backend,    \* "kv": etcd and Consul; "object": Kubernetes
  blob, rev,  \* the backend: the content of each key, the revision of each object
  backups,    \* the local backup store
  pc,         \* where each command is
  request,    \* what it was asked to do
  plan,       \* the entries it has planned
  left,       \* the keys it has still to plan, and then to write
  seen,       \* "object": the resourceVersion of the object it is updating
  succeeded,  \* the writes it has counted
  committed,  \* history: the keys whose write took effect
  refused,    \* history: it ended because a precondition was refused
  disturbed,  \* history: somebody else has written since it was asked
  outcome     \* the outcome it records

vars == <<backend, blob, rev, backups, pc, request, plan, left, seen, succeeded,
          committed, refused, disturbed, outcome>>
store == <<backend, blob, rev, backups>>
history == <<committed, refused, disturbed>>

Blobs == Contents \cup {Absent}
Backups == [by : Commands, key : Keys, content : Contents]

Batches == {"import", "promote", "reconcile"}

(* mode: "create" and "update" are push --create-only and --update-only,    *)
(* "skip" and "overwrite" the batch flags --skip-existing and --overwrite.  *)
Requests == [verb : Batches \cup {"push", "delete", "rollback"},
             mode : {"any", "create", "update", "skip", "overwrite"},
             local : [Keys -> Contents \cup {NoLocal}],
             expected : Nat, scope : SUBSET Keys, backup : BOOLEAN]

(* kind is what the write insists on: absence, the revision, or, for "put"  *)
(* and for a "delete" without a revision, nothing.                          *)
Entries == [key : Keys, cur : Blobs \cup {Unread}, revision : Nat, next : Blobs,
            kind : {"create", "update", "put", "delete", "skip"}]

Statuses == {"none", "refused", "unchanged", "success", "failed", "partial_failed"}
Outcomes == [status : Statuses, succeeded : Int, failed : Int, skipped : Int]
NoOutcome(status) == [status |-> status, succeeded |-> 0, failed |-> 0, skipped |-> 0]

(* On etcd and Consul every key is an object of its own.                    *)
Obj(k) == IF backend = "kv" THEN k ELSE ObjectOf[k]
Rev(k) == rev[Obj(k)]
IsBatch(p) == request[p].verb \in Batches
NoLocals == [k \in Keys |-> NoLocal]

Init ==
  /\ backend \in {"kv", "object"}
  /\ blob = [k \in Keys |-> Absent]
  /\ rev = [o \in Objects |-> 0]
  /\ backups = {}
  /\ pc = [p \in Commands |-> "start"]
  /\ request = [p \in Commands |->
                  [verb |-> "import", mode |-> "any", local |-> NoLocals,
                   expected |-> 0, scope |-> {}, backup |-> FALSE]]
  /\ plan = [p \in Commands |-> {}]
  /\ left = [p \in Commands |-> {}]
  /\ seen = [p \in Commands |-> 0]
  /\ succeeded = [p \in Commands |-> 0]
  /\ committed = [p \in Commands |-> {}]
  /\ refused = [p \in Commands |-> FALSE]
  /\ disturbed = [p \in Commands |-> FALSE]
  /\ outcome = [p \in Commands |-> NoOutcome("none")]

-----------------------------------------------------------------------------
(* Asking.                                                                  *)

Ask(p, r) ==
  /\ pc[p] = "start"
  /\ request' = [request EXCEPT ![p] = r]
  /\ left' = [left EXCEPT ![p] = {k \in Keys : r.local[k] # NoLocal}]
  /\ pc' = [pc EXCEPT ![p] = "plan"]
  /\ UNCHANGED <<store, seen, succeeded, history, outcome>>

AskPush(p) ==
  \E k \in Keys, c \in Contents, m \in {"any", "create", "update"}, b \in BOOLEAN :
    \E n \in 0..Rev(k) :
      /\ m = "create" => n = 0
      /\ Ask(p, [verb |-> "push", mode |-> m, local |-> [NoLocals EXCEPT ![k] = c],
                 expected |-> n, scope |-> {}, backup |-> b])
      /\ UNCHANGED plan

(* A delete reads nothing before it is authorized.                          *)
AskDelete(p) ==
  \E k \in Keys, b \in BOOLEAN :
    \E n \in 0..Rev(k) :
      /\ Ask(p, [verb |-> "delete", mode |-> "any", local |-> NoLocals,
                 expected |-> n, scope |-> {}, backup |-> b])
      /\ plan' = [plan EXCEPT ![p] =
           {[key |-> k, cur |-> Unread, revision |-> n, next |-> Absent,
             kind |-> "delete"]}]

AskBatch(p) ==
  \E v \in Batches, m \in {"any", "skip", "overwrite"}, b \in BOOLEAN,
     local \in [Keys -> Contents \cup {NoLocal}], S \in SUBSET Keys :
    /\ m = "skip" => v = "import"
    /\ S # {} => v = "reconcile"
    /\ Ask(p, [verb |-> v, mode |-> m, local |-> local, expected |-> 0,
               scope |-> S, backup |-> b])
    /\ UNCHANGED plan

(* The content comes from a backup, a file or the history of the backend.   *)
AskRollback(p) ==
  \E k \in Keys, c \in Contents, b \in BOOLEAN :
    /\ Ask(p, [verb |-> "rollback", mode |-> "any", expected |-> 0, scope |-> {},
               local |-> [NoLocals EXCEPT ![k] = c], backup |-> b])
    /\ UNCHANGED plan

-----------------------------------------------------------------------------
(* Planning: one Get for each local key, and for a prune one List.          *)

(* validateConfigPushMode, and the conflicts of a batch without a flag.     *)
Fits(p, k) ==
  LET r == request[p] IN
  /\ r.mode = "create" => blob[k] = Absent
  /\ r.mode = "update" => blob[k] # Absent
  /\ IsBatch(p) /\ r.mode = "any" => blob[k] \in {Absent, r.local[k]}

Kind(p, k) ==
  LET r == request[p] IN
  CASE r.verb = "rollback" -> "put"
    [] r.verb = "push" -> IF blob[k] = r.local[k] THEN "skip"
                          ELSE IF r.mode = "create" THEN "create"
                          ELSE IF r.expected # 0 THEN "update" ELSE "put"
    [] OTHER -> IF blob[k] = Absent THEN "create"
                ELSE IF blob[k] = r.local[k] \/ r.mode = "skip" THEN "skip"
                ELSE "update"

(* A fault: the revision of the whole store instead of that of the object.  *)
RevisionOfStore(p, k) ==
  IF ~IsBatch(p) THEN request[p].expected
  ELSE IF blob[k] = Absent THEN 0
  ELSE CHOOSE n \in {Rev(j) : j \in Keys} : \A j \in Keys : Rev(j) <= n

(* A batch is bound to what it reads, the others to --expected-revision.    *)
PlannedRevision(p, k) ==
  IF ~IsBatch(p) THEN request[p].expected
  ELSE IF blob[k] = Absent THEN 0 ELSE Rev(k)

PlanRead(p) ==
  /\ pc[p] = "plan"
  /\ \E k \in left[p] :
       /\ \A j \in left[p] : k <= j
       /\ Fits(p, k)
       /\ plan' = [plan EXCEPT ![p] = @ \cup
            {[key |-> k, cur |-> blob[k], revision |-> PlannedRevision(p, k),
              next |-> request[p].local[k], kind |-> Kind(p, k)]}]
       /\ left' = [left EXCEPT ![p] = @ \ {k}]
  /\ UNCHANGED <<store, pc, request, seen, succeeded, history, outcome>>

(* appendPruneItems: the remote keys in the scope that have no local file.  *)
Prunable(p) ==
  {k \in request[p].scope : blob[k] # Absent /\ request[p].local[k] = NoLocal}

PlanPrune(p) ==
  /\ pc[p] = "plan"
  /\ left[p] = {} /\ request[p].scope # {}
  /\ plan' = [plan EXCEPT ![p] = @ \cup
       {[key |-> k, cur |-> blob[k], revision |-> Rev(k), next |-> Absent,
         kind |-> "delete"] : k \in Prunable(p)}]
  /\ pc' = [pc EXCEPT ![p] = "pruned"]
  /\ UNCHANGED <<store, request, left, seen, succeeded, history, outcome>>

Planned(p) ==
  /\ left[p] = {}
  /\ pc[p] = IF request[p].scope = {} THEN "plan" ELSE "pruned"

(* The read, its audit records, the plan, a gate, the authorization or the  *)
(* mutation intent ends the command.                                        *)
PlanFails(p) ==
  /\ pc[p] \in {"plan", "pruned"}
  /\ pc' = [pc EXCEPT ![p] = "done"]
  /\ outcome' = [outcome EXCEPT ![p] = NoOutcome("refused")]
  /\ UNCHANGED <<store, request, plan, left, seen, succeeded, history>>

(* localsForPlannedItems looks the planned, trimmed keys up among the keys  *)
(* as the files write them.                                                 *)
Dropped(p, e) == IsBatch(p) /\ e.kind # "delete" /\ e.key \in Padded

Todo(p) == {e \in plan[p] : e.kind # "skip" /\ ~Dropped(p, e)}

Authorize(p) ==
  /\ Planned(p)
  /\ IF Todo(p) = {}
     THEN /\ pc' = [pc EXCEPT ![p] = "done"]
          /\ outcome' = [outcome EXCEPT ![p] = NoOutcome("unchanged")]
          /\ UNCHANGED left
     ELSE /\ pc' = [pc EXCEPT ![p] = "apply"]
          /\ left' = [left EXCEPT ![p] = {e.key : e \in Todo(p)}]
          /\ UNCHANGED outcome
  /\ UNCHANGED <<store, request, plan, seen, succeeded, history>>

-----------------------------------------------------------------------------
(* Applying: first the upserts, then the deletes, each in key order.        *)

(* A fault: creates, updates and deletes all go in key order.               *)
BeforeByKey(f, e) == f.key < e.key

Before(f, e) ==
  IF f.kind = "delete" THEN e.kind = "delete" /\ f.key < e.key
                       ELSE e.kind = "delete" \/ f.key < e.key

Current(p, e) ==
  /\ e \in Todo(p) /\ e.key \in left[p]
  /\ \A f \in Todo(p) : f.key \in left[p] => ~Before(f, e)

(* A fault: the content that the plan read is stored, whatever it was.      *)
BackUpPlanned(p) ==
  /\ pc[p] = "apply" /\ request[p].backup
  /\ \E e \in plan[p] :
       /\ Current(p, e)
       /\ backups' = backups \cup {[by |-> p, key |-> e.key, content |-> e.cur]}
  /\ pc' = [pc EXCEPT ![p] = "write"]
  /\ UNCHANGED <<backend, blob, rev, request, plan, left, seen, succeeded, history,
                 outcome>>

(* maybeBackupConfig: a Get of its own; a blob that is gone needs no backup.*)
BackUp(p) ==
  /\ pc[p] = "apply" /\ request[p].backup
  /\ \E e \in plan[p] :
       /\ Current(p, e)
       /\ backups' = backups \cup
            IF blob[e.key] = Absent THEN {}
            ELSE {[by |-> p, key |-> e.key, content |-> blob[e.key]]}
  /\ pc' = [pc EXCEPT ![p] = "write"]
  /\ UNCHANGED <<backend, blob, rev, request, plan, left, seen, succeeded, history,
                 outcome>>

ReadyToWrite(p, e) ==
  /\ Current(p, e)
  /\ pc[p] = IF request[p].backup THEN "write" ELSE "apply"

(* A fault: whether the blob is there is all that is checked.               *)
AllowedByPresence(e) ==
  /\ e.kind = "create" => blob[e.key] = Absent
  /\ e.kind \in {"update", "delete"} /\ e.revision # 0 => blob[e.key] # Absent

(* The precondition as the backend checks it.  A Kubernetes object may have *)
(* the revision and not the data key.                                       *)
Allowed(e) ==
  /\ e.kind = "create" => blob[e.key] = Absent
  /\ e.kind \in {"update", "delete"} /\ e.revision # 0 =>
       Rev(e.key) = e.revision /\ (backend = "kv" => blob[e.key] # Absent)

(* Everybody else who is at work notices, or not, that p has written.       *)
DisturbedBy(p) ==
  [q \in Commands |-> disturbed[q] \/ (q # p /\ pc[q] # "start")]

Commit(p, e) ==
  /\ blob' = [blob EXCEPT ![e.key] = e.next]
  /\ rev' = [rev EXCEPT ![Obj(e.key)] = @ + 1]
  /\ committed' = [committed EXCEPT ![p] = @ \cup {e.key}]
  /\ disturbed' = DisturbedBy(p)
  /\ pc' = [pc EXCEPT ![p] = "answer"]
  /\ UNCHANGED <<backend, backups, request, plan, left, seen, succeeded, refused,
                 outcome>>

(* One transaction, or one cas, put or delete.                              *)
WriteKey(p) ==
  /\ backend = "kv"
  /\ \E e \in plan[p] : ReadyToWrite(p, e) /\ Allowed(e) /\ Commit(p, e)

(* No key of the object has a value, so the object may not exist.           *)
Vacant(k) == \A j \in Keys : Obj(j) = Obj(k) => blob[j] = Absent

(* Kubernetes: a Get with the precondition, then a Create of an object that *)
(* was not there or an Update of the resourceVersion that was.  A delete of *)
(* a data key that is not there is an error.                                *)
Inspect(p) ==
  /\ backend = "object"
  /\ \E e \in plan[p] :
       /\ ReadyToWrite(p, e) /\ Allowed(e)
       /\ e.kind = "delete" => blob[e.key] # Absent
       /\ \/ seen' = [seen EXCEPT ![p] = Rev(e.key)]
          \/ /\ Vacant(e.key) /\ e.kind \in {"create", "put"}
             /\ seen' = [seen EXCEPT ![p] = 0]
  /\ pc' = [pc EXCEPT ![p] = "update"]
  /\ UNCHANGED <<store, request, plan, left, succeeded, history, outcome>>

(* A fault: the Update carries no resourceVersion.                          *)
AcceptedAlways(p, e) == TRUE

Accepted(p, e) == Rev(e.key) = seen[p] \/ (seen[p] = 0 /\ Vacant(e.key))

Update(p) ==
  /\ pc[p] = "update"
  /\ \E e \in plan[p] : Current(p, e) /\ Accepted(p, e) /\ Commit(p, e)

(* The answer arrives.  After a Put, etcd and Consul read the blob back,    *)
(* and a blob that is gone by then is an error.                             *)
Answered(p) ==
  /\ pc[p] = "answer"
  /\ \E e \in plan[p] :
       /\ Current(p, e)
       /\ backend = "kv" /\ e.kind # "delete" => blob[e.key] # Absent
       /\ left' = [left EXCEPT ![p] = @ \ {e.key}]
  /\ succeeded' = [succeeded EXCEPT ![p] = @ + 1]
  /\ pc' = [pc EXCEPT ![p] = "apply"]
  /\ UNCHANGED <<store, request, plan, seen, history, outcome>>

(* A fault: the write that failed is counted as skipped too.                *)
TallyTwice(p, failed) ==
  [status |-> IF failed = 0 THEN "success"
              ELSE IF succeeded[p] > 0 THEN "partial_failed" ELSE "failed",
   succeeded |-> succeeded[p],
   failed |-> failed,
   skipped |-> Cardinality(plan[p]) - succeeded[p]]

(* finishBatchMutationAudit; the one write of the other commands alike.     *)
Tally(p, failed) ==
  LET skips == Cardinality({e \in plan[p] : e.kind = "skip"})
  IN [status |-> IF failed = 0 THEN "success"
                 ELSE IF succeeded[p] > 0 THEN "partial_failed" ELSE "failed",
      succeeded |-> succeeded[p],
      failed |-> failed,
      skipped |-> Cardinality(Todo(p)) + skips - succeeded[p] - failed]

End(p, failed) ==
  /\ pc' = [pc EXCEPT ![p] = "done"]
  /\ outcome' = [outcome EXCEPT ![p] = Tally(p, failed)]
  /\ UNCHANGED <<store, request, plan, left, seen, succeeded, committed, disturbed>>

(* The backend refuses the precondition: CONFLICT.                          *)
Refuse(p) ==
  /\ \E e \in plan[p] :
       \/ ReadyToWrite(p, e) /\ ~Allowed(e)
       \/ pc[p] = "update" /\ Current(p, e) /\ ~Accepted(p, e)
  /\ refused' = [refused EXCEPT ![p] = TRUE]
  /\ End(p, 1)

Fail(p) ==
  /\ pc[p] \in {"apply", "write", "update", "answer"}
  /\ left[p] # {}
  /\ End(p, 1)
  /\ UNCHANGED refused

Succeed(p) ==
  /\ pc[p] = "apply"
  /\ left[p] = {}
  /\ End(p, 0)
  /\ UNCHANGED refused

-----------------------------------------------------------------------------
(* The process dies, at any point.                                          *)
Crash(p) ==
  /\ pc[p] \notin {"start", "done", "dead"}
  /\ pc' = [pc EXCEPT ![p] = "dead"]
  /\ UNCHANGED <<store, request, plan, left, seen, succeeded, history, outcome>>

(* Somebody else writes or deletes a blob, or rewrites or removes and makes *)
(* again the object that holds it.                                          *)
OtherWrite(k) ==
  /\ Rev(k) < MaxRev
  /\ \E b \in Blobs : blob' = [blob EXCEPT ![k] = b]
  /\ rev' = [rev EXCEPT ![Obj(k)] = @ + 1]
  /\ disturbed' = [p \in Commands |-> disturbed[p] \/ pc[p] # "start"]
  /\ UNCHANGED <<backend, backups, pc, request, plan, left, seen, succeeded,
                 committed, refused, outcome>>

AskAny(p) == AskPush(p) \/ AskDelete(p) \/ AskBatch(p) \/ AskRollback(p)
Planning(p) == PlanRead(p) \/ PlanPrune(p) \/ PlanFails(p) \/ Authorize(p)
Applying(p) == \/ BackUp(p) \/ WriteKey(p) \/ Inspect(p) \/ Update(p)
               \/ Answered(p) \/ Refuse(p) \/ Fail(p) \/ Succeed(p)

Next == \/ \E p \in Commands : AskAny(p) \/ Planning(p) \/ Applying(p) \/ Crash(p)
        \/ \E k \in Keys : OtherWrite(k)

Spec == Init /\ [][Next]_vars

-----------------------------------------------------------------------------
(* Properties                                                               *)

(* The types of the variables.                                              *)
TypeOK ==
  /\ backend \in {"kv", "object"}
  /\ blob \in [Keys -> Blobs]
  /\ rev \in [Objects -> Nat]
  /\ backups \subseteq Backups
  /\ pc \in [Commands -> {"start", "plan", "pruned", "apply", "write", "update",
                          "answer", "done", "dead"}]
  /\ request \in [Commands -> Requests]
  /\ plan \in [Commands -> SUBSET Entries]
  /\ \A p \in Commands : IsFiniteSet(plan[p])
  /\ left \in [Commands -> SUBSET Keys]
  /\ seen \in [Commands -> Nat]
  /\ succeeded \in [Commands -> Nat]
  /\ committed \in [Commands -> SUBSET Keys]
  /\ refused \in [Commands -> BOOLEAN]
  /\ disturbed \in [Commands -> BOOLEAN]
  /\ outcome \in [Commands -> Outcomes]

(* The write of key k that a command has just made.                         *)
Writes(p, e) == e \in plan[p] /\ e.key \in committed'[p] \ committed[p]

(* A batch, and a push --create-only, replaces or deletes exactly the       *)
(* content that its plan compared with the local files: whatever another    *)
(* writer put there in between is never lost.                               *)
NoLostUpdate ==
  [][ \A p \in Commands : \A e \in plan[p] :
        Writes(p, e) /\ (IsBatch(p) \/ e.kind = "create") => blob[e.key] = e.cur ]_vars

(* With --backup, what a write with a precondition destroys is in the       *)
(* backup store already, although the backup is a read of its own.          *)
SavedBeforeReplaced ==
  [][ \A p \in Commands : \A e \in plan[p] :
        Writes(p, e) /\ request[p].backup /\ (IsBatch(p) \/ e.revision # 0)
          /\ blob[e.key] # Absent =>
            [by |-> p, key |-> e.key, content |-> blob[e.key]] \in backups ]_vars

(* A reconcile deletes nothing before all it creates and updates is in      *)
(* place: a batch that stops half way never leaves a gap.                   *)
DeletesComeLast ==
  \A p \in Commands : \A d, e \in plan[p] :
    /\ d.kind = "delete" /\ d.key \in committed[p]
    /\ e \in Todo(p) /\ e.kind # "delete"
    => e.key \in committed[p]

(* The outcome accounts for every key that was planned; a success, or an    *)
(* end without changes, means that each planned change took effect, and a   *)
(* failure hides at most the one write it failed at.                        *)
OutcomeHonest ==
  \A p \in Commands :
    LET o == outcome[p]
        n == Cardinality(committed[p])
    IN /\ o.status \in {"success", "failed", "partial_failed"} =>
            /\ o.succeeded + o.failed + o.skipped = Cardinality(plan[p])
            /\ o.succeeded <= n /\ n <= o.succeeded + o.failed
       /\ o.status \in {"success", "unchanged"} =>
            committed[p] = {e.key : e \in {f \in plan[p] : f.kind # "skip"}}
       /\ o.status = "refused" => n = 0

(* On etcd and Consul a batch is told CONFLICT only if somebody else has    *)
(* written since it was asked: its own writes never invalidate what it has  *)
(* still to write.  (On Kubernetes the first write into an object moves the *)
(* resourceVersion that the others were planned with.)                      *)
ConflictMeansInterference ==
  backend = "kv" => \A p \in Commands : refused[p] /\ IsBatch(p) => disturbed[p]

(* The entries of a batch that carry a revision.                            *)
Versioned(p, e) == IsBatch(p) /\ e.kind \in {"update", "delete"}

(* Once a batch has written into a Kubernetes object, it updates and deletes*)
(* no other key of it, whoever else writes or does not: each of its writes  *)
(* is bound to the resourceVersion that its plan has read                   *)
(* (cmd/config_bulk.go:806).                                                *)
OneUpdateInAnObject ==
  [][ \A p \in Commands : \A e \in plan[p] :
        Writes(p, e) /\ Versioned(p, e) =>
          \A k \in committed[p] : Obj(k) # Obj(e.key) ]_vars

(* The inductive invariant behind the first three: a revision that a plan   *)
(* or an Update holds is in the past or the present; while it is the        *)
(* present, a batch's plan knows the content.                               *)
PresentHasRevision == \A k \in Keys : blob[k] # Absent => Rev(k) > 0

RequestAt(p) ==
  /\ request[p].scope # {} => IsBatch(p)
  /\ request[p].verb = "rollback" => request[p].expected = 0
  /\ pc[p] = "start" => plan[p] = {}
  /\ pc[p] = "plan" => \A k \in left[p] :
       /\ request[p].verb # "delete" /\ request[p].local[k] # NoLocal
       /\ request[p].expected <= Rev(k)

PlanAt(p) ==
  /\ \A e, f \in plan[p] : e.key = f.key => e = f
  /\ pc[p] = "plan" => \A e \in plan[p] :
       e.key \notin left[p] /\ (IsBatch(p) => request[p].local[e.key] # NoLocal)

EntryAt(p, e) ==
  /\ e.revision <= Rev(e.key)
  /\ e.kind = "create" => e.cur = Absent
  /\ e.kind = "put" => e.revision = 0 /\ ~IsBatch(p)
  /\ e.kind = "update" \/ (e.kind = "delete" /\ IsBatch(p)) => e.revision > 0
  /\ IsBatch(p) /\ e.kind \in {"update", "delete"} /\ e.revision = Rev(e.key) =>
       blob[e.key] = e.cur

SavedAt(p, e) ==
  Allowed(e) /\ (IsBatch(p) \/ e.revision # 0) /\ blob[e.key] # Absent =>
    [by |-> p, key |-> e.key, content |-> blob[e.key]] \in backups

SeenAt(p, e) ==
  /\ seen[p] <= Rev(e.key)
  /\ seen[p] = Rev(e.key) => Allowed(e)
  /\ seen[p] = 0 => e.kind \in {"create", "put"}

ApplyAt(p, e) ==
  /\ pc[p] \in {"write", "update"} /\ request[p].backup => SavedAt(p, e)
  /\ pc[p] = "update" => SeenAt(p, e)
  /\ pc[p] = "answer" => e.key \in committed[p]

(* What a command has still to write, and what it has written.              *)
ProgressAt(p) ==
  /\ pc[p] \in {"start", "plan", "pruned"} => committed[p] = {}
  /\ pc[p] \in {"apply", "write", "update", "answer"} =>
       \A e \in Todo(p) : e.key \in left[p] \cup committed[p]

(* Behind ConflictMeansInterference: where each key is an object of its     *)
(* own, what a batch has still to write is as it planned it, unless         *)
(* somebody else has written.                                               *)
UndisturbedAt(p) ==
  /\ pc[p] = "start" => ~refused[p]
  /\ backend = "kv" => pc[p] # "update"
  /\ pc[p] \in {"apply", "write", "update", "answer"} =>
       \A e \in Todo(p) : e.key \in left[p] \cap committed[p] =>
         pc[p] = "answer" /\ Current(p, e)
  /\ backend = "kv" /\ IsBatch(p) /\ ~disturbed[p] =>
       /\ ~refused[p]
       /\ \A e \in plan[p] :
            /\ e.kind \in {"update", "delete"} => e.cur # Absent
            /\ e.key \notin committed[p] =>
                 blob[e.key] = e.cur /\ (e.cur # Absent => Rev(e.key) = e.revision)

CommandInv ==
  \A p \in Commands :
    /\ RequestAt(p) /\ PlanAt(p) /\ ProgressAt(p) /\ UndisturbedAt(p)
    /\ \A e \in plan[p] : EntryAt(p, e) /\ (Current(p, e) => ApplyAt(p, e))

(* Behind OutcomeHonest: the count is of the writes that are known to have  *)
(* taken effect, and an outcome is true of the writes that were attempted,  *)
(* which are all that were planned if no key is Padded.                     *)
TallyAt(p) ==
  /\ pc[p] # "done" => outcome[p].status = "none"
  /\ pc[p] \in {"start", "plan", "pruned"} => succeeded[p] = 0
  /\ committed[p] \subseteq {e.key : e \in Todo(p)}
  /\ pc[p] \in {"apply", "write", "update", "answer"} =>
       succeeded[p] = Cardinality(committed[p] \ left[p])

HonestAt(p) ==
  LET o == outcome[p]
      n == Cardinality(committed[p])
      skips == Cardinality({e \in plan[p] : e.kind = "skip"})
  IN /\ o.status \in {"success", "failed", "partial_failed"} =>
          /\ o.succeeded + o.failed + o.skipped = Cardinality(Todo(p)) + skips
          /\ o.succeeded <= n /\ n <= o.succeeded + o.failed
     /\ o.status \in {"success", "unchanged"} =>
          committed[p] = {e.key : e \in Todo(p)}
     /\ o.status = "refused" => n = 0

TallyInv == \A p \in Commands : TallyAt(p) /\ HonestAt(p)

(* Each of its parts holds in every state; together they are inductive.     *)
IInv == TypeOK /\ PresentHasRevision /\ CommandInv /\ DeletesComeLast /\ TallyInv
=============================================================================
