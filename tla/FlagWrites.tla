------------------------------ MODULE FlagWrites ------------------------------
(***************************************************************************)
(* Governed writes of feature flags: cmd/flag_write.go over every backend. *)
(*                                                                         *)
(* A command reads the set of its app, plans its edit, passes its gates,   *)
(* reads the set again to back it up, and writes, with no lock in between. *)
(* FlagSet says what that must amount to.                                  *)
(*                                                                         *)
(* Modelling decisions:                                                    *)
(*  - a set maps each flag to the writer of its text; a blob that does not *)
(*    decode makes the plan fail, which Refuse covers;                     *)
(*  - rev counts the changes of the object that holds the blob, as in      *)
(*    RuleWrites; 0 stands for the empty revision;                         *)
(*  - an operator passes --expected-revision only with a revision that the *)
(*    object has had;                                                      *)
(*  - Fail stands for any error of a backend call, refused preconditions   *)
(*    and answers lost after the backend acted included;                   *)
(*  - the audit records around the write are the subject of MutationAudit. *)
(***************************************************************************)
EXTENDS Integers

CONSTANTS
  Commands,   \* invocations of cfgov, each by its own process
  Keys,       \* what flag.Key tells apart
  Other,      \* any other writer of the blob, config push included
  NoFlag,     \* the value of a flag that is not in a set
  Absent,     \* the content of a blob that does not exist
  MaxRev      \* bound: other writers leave the object alone at this revision

ASSUME ConstantsOK ==
  /\ Other \notin Commands
  /\ NoFlag \notin Commands \cup {Other}
  /\ Absent \notin [Keys -> Commands \cup {Other, NoFlag}]
  /\ MaxRev \in Nat

VARIABLES
  backend,    \* "kv": etcd and Consul; "object": Kubernetes; "plain": the others
  blob, rev,  \* the content of the blob, and its revision
  backups,    \* what each command has backed up
  pc,         \* where each command is
  request,    \* what it was asked to do
  expected,   \* its --expected-revision
  plan,       \* the write it has planned
  seen,       \* "object": the resourceVersion of the object it is updating
  committed,  \* history: the commands whose write took effect
  outcome     \* the outcome it records

vars == <<backend, blob, rev, backups, pc, request, expected, plan, seen,
          committed, outcome>>
store == <<backend, blob, rev, backups>>
asked == <<request, expected>>

Sets == [Keys -> Commands \cup {Other, NoFlag}]
NoFlags == [k \in Keys |-> NoFlag]

(* readFlagSet: a blob that does not exist reads as the empty set.          *)
FlagsIn(b) == IF b = Absent THEN NoFlags ELSE b

(* The flags of K as the command's own file holds them.                     *)
Own(p, K) == [k \in Keys |-> IF k \in K THEN p ELSE NoFlag]

(* "force" is create --force, "clear" is delete --all.                      *)
Verbs == {"create", "force", "update", "delete", "clear", "import", "rollback"}
Requests == [verb : Verbs, keys : SUBSET Keys, local : Sets]

(* What the flags of a command let it ask for: one flag or all of them, an  *)
(* import of one flag at least, a rollback to any set.                      *)
RequestsOf(p) ==
  { r \in Requests :
      CASE r.verb \in {"create", "force", "update"} ->
             \E k \in Keys : r.keys = {k} /\ r.local = Own(p, {k})
        [] r.verb = "delete" -> r.local = NoFlags /\ \E k \in Keys : r.keys = {k}
        [] r.verb = "clear" -> r.local = NoFlags /\ r.keys = Keys
        [] r.verb = "import" ->
             r.keys = Keys /\ r.local # NoFlags
             /\ \E K \in SUBSET Keys : r.local = Own(p, K)
        [] OTHER -> r.keys = Keys }

Plans == [cur : Sets \cup {Absent}, revision : Nat, next : Sets,
          skip : BOOLEAN, backup : BOOLEAN]
NoPlan == [cur |-> Absent, revision |-> 0, next |-> NoFlags, skip |-> FALSE,
           backup |-> FALSE]
Statuses == {"none", "refused", "skipped", "success", "failed"}

Init ==
  /\ backend \in {"kv", "object", "plain"}
  /\ \E b \in {Absent} \cup [Keys -> {Other, NoFlag}] :
       blob = b /\ rev = IF b = Absent THEN 0 ELSE 1
  /\ backups = [p \in Commands |-> {}]
  /\ pc = [p \in Commands |-> "start"]
  /\ request \in [Commands -> Requests]
  /\ \A p \in Commands : request[p] \in RequestsOf(p)
  /\ expected = [p \in Commands |-> 0]
  /\ plan = [p \in Commands |-> NoPlan]
  /\ seen = [p \in Commands |-> 0]
  /\ committed = {}
  /\ outcome = [p \in Commands |-> "none"]

Goto(p, where) == pc' = [pc EXCEPT ![p] = where]

End(p, how) ==
  /\ Goto(p, "done")
  /\ outcome' = [outcome EXCEPT ![p] = how]

Ask(p) ==
  /\ pc[p] = "start"
  /\ \E n \in 0..rev : expected' = [expected EXCEPT ![p] = n]
  /\ Goto(p, "plan")
  /\ UNCHANGED <<store, request, plan, seen, committed, outcome>>

-----------------------------------------------------------------------------
(* runFlagWritePreflight: a Get and the plan.                               *)

Edit(r, flags) == [k \in Keys |-> IF k \in r.keys THEN r.local[k] ELSE flags[k]]

(* planSingleFlagSet and planDeleteFlagSet                                  *)
Fits(r, flags) ==
  CASE r.verb = "create" -> \A k \in r.keys : flags[k] = NoFlag
    [] r.verb \in {"update", "delete"} -> \E k \in r.keys : flags[k] # NoFlag
    [] OTHER -> TRUE

(* classifyFlagChange compares the bytes: the same flags in another form    *)
(* are written again, and an absent blob counts as the bytes [].            *)
MaySkip(s, cur, next) ==
  IF cur = Absent THEN s <=> (next = NoFlags) ELSE s => next = cur

NeedsBackup(p, flags) ==
  request[p].verb \in {"update", "rollback"} \/ flags # NoFlags

(* --expected-revision replaces the revision that was read.                 *)
PlannedRevision(p) ==
  IF expected[p] # 0 THEN expected[p] ELSE IF blob = Absent THEN 0 ELSE rev

PlanRead(p) ==
  /\ pc[p] = "plan"
  /\ Fits(request[p], FlagsIn(blob))
  /\ LET next == Edit(request[p], FlagsIn(blob))
     IN \E s \in BOOLEAN :
          /\ MaySkip(s, blob, next)
          /\ plan' = [plan EXCEPT ![p] =
               [cur |-> blob, revision |-> PlannedRevision(p), next |-> next,
                skip |-> s, backup |-> NeedsBackup(p, FlagsIn(blob))]]
  /\ Goto(p, "gate")
  /\ UNCHANGED <<store, asked, seen, committed, outcome>>

(* The read, the decoding, the edit or the validation fails; the preview, a *)
(* gate (a backend without CAS, --no-backup), the authorization or the      *)
(* mutation intent ends the command.                                        *)
Refuse(p) ==
  /\ pc[p] \in {"plan", "gate"}
  /\ End(p, "refused")
  /\ UNCHANGED <<store, asked, plan, seen, committed>>

Authorize(p) ==
  /\ pc[p] = "gate"
  /\ backend = "plain" => plan[p].skip
  /\ Goto(p, "apply")
  /\ UNCHANGED <<store, asked, plan, seen, committed, outcome>>

-----------------------------------------------------------------------------
(* applyFlagWrites, past the intent.                                        *)

Skip(p) ==
  /\ pc[p] = "apply" /\ plan[p].skip
  /\ End(p, "skipped")
  /\ UNCHANGED <<store, asked, plan, seen, committed>>

(* backupFlagCurrent: a second Get; a blob that is gone needs no backup.    *)
BackUp(p) ==
  /\ pc[p] = "apply" /\ ~plan[p].skip /\ plan[p].backup
  /\ backups' = [backups EXCEPT ![p] = @ \cup ({blob} \ {Absent})]
  /\ Goto(p, "write")
  /\ UNCHANGED <<backend, blob, rev, asked, plan, seen, committed, outcome>>

ReadyToWrite(p) ==
  /\ ~plan[p].skip
  /\ pc[p] = IF plan[p].backup THEN "write" ELSE "apply"

Deletes(p) == request[p].verb = "clear"

(* A fault: the --expected-revision alone is the precondition.              *)
MatchesExpectedOnly(p) == expected[p] # 0 => rev = expected[p]

(* The precondition as the backend checks it, as in RuleWrites.             *)
Matches(p) ==
  IF plan[p].revision = 0 THEN Deletes(p) \/ blob = Absent
  ELSE rev = plan[p].revision /\ (backend = "kv" => blob # Absent)

Commit(p) ==
  /\ blob' = IF Deletes(p) THEN Absent ELSE plan[p].next
  /\ rev' = rev + 1
  /\ committed' = committed \cup {p}
  /\ Goto(p, "answer")
  /\ UNCHANGED <<backend, backups, asked, plan, seen, outcome>>

(* etcd: one transaction; Consul: one cas or delete-cas.                    *)
WriteKey(p) == backend = "kv" /\ ReadyToWrite(p) /\ Matches(p) /\ Commit(p)

(* Kubernetes: a Get with the precondition, and an Update that the server   *)
(* refuses if the object has changed since.                                 *)
Inspect(p) ==
  /\ backend = "object" /\ ReadyToWrite(p) /\ Matches(p)
  /\ Deletes(p) => blob # Absent
  /\ seen' = [seen EXCEPT ![p] = rev]
  /\ Goto(p, "update")
  /\ UNCHANGED <<store, asked, plan, committed, outcome>>

Update(p) == pc[p] = "update" /\ rev = seen[p] /\ Commit(p)

(* The answer arrives.  After a Put, etcd and Consul read the blob back,    *)
(* and a blob that is gone by then is an error.                             *)
Succeed(p) ==
  /\ pc[p] = "answer"
  /\ backend = "kv" /\ ~Deletes(p) => blob # Absent
  /\ End(p, "success")
  /\ UNCHANGED <<store, asked, plan, seen, committed>>

Fail(p) ==
  /\ pc[p] \in {"apply", "write", "update", "answer"} /\ ~plan[p].skip
  /\ End(p, "failed")
  /\ UNCHANGED <<store, asked, plan, seen, committed>>

(* The process dies, at any point.                                          *)
Crash(p) ==
  /\ pc[p] \notin {"start", "done", "dead"}
  /\ Goto(p, "dead")
  /\ UNCHANGED <<store, asked, plan, seen, committed, outcome>>

(* Somebody else writes or deletes the blob, or another data key of its     *)
(* Kubernetes object.                                                       *)
OtherWrite ==
  /\ rev < MaxRev
  /\ \E b \in {Absent, blob} \cup [Keys -> {Other, NoFlag}] : blob' = b
  /\ rev' = rev + 1
  /\ UNCHANGED <<backend, backups, pc, asked, plan, seen, committed, outcome>>

Planning(p) == Ask(p) \/ PlanRead(p) \/ Refuse(p) \/ Authorize(p)
Applying(p) == \/ Skip(p) \/ BackUp(p) \/ WriteKey(p) \/ Inspect(p) \/ Update(p)
               \/ Succeed(p) \/ Fail(p)

Next == (\E p \in Commands : Planning(p) \/ Applying(p) \/ Crash(p)) \/ OtherWrite

Spec == Init /\ [][Next]_vars

-----------------------------------------------------------------------------
(* What holds of it.                                                        *)

TypeOK ==
  /\ backend \in {"kv", "object", "plain"}
  /\ blob \in Sets \cup {Absent}
  /\ rev \in Nat
  /\ backups \in [Commands -> SUBSET Sets]
  /\ pc \in [Commands -> {"start", "plan", "gate", "apply", "write", "update",
                          "answer", "done", "dead"}]
  /\ request \in [Commands -> Requests]
  /\ expected \in [Commands -> Nat]
  /\ plan \in [Commands -> Plans]
  /\ seen \in [Commands -> Nat]
  /\ committed \in SUBSET Commands
  /\ outcome \in [Commands -> Statuses]

(* The commands that have found the flags as they were asked to make them.  *)
Matched == {p \in Commands : plan[p].skip}

FS == INSTANCE FlagSet WITH
  set <- FlagsIn(blob), asked <- request, changed <- committed,
  matched <- Matched, kept <- backups, told <- outcome

(* A command edits the flags of its app in one step, as they are at that    *)
(* moment, with a copy of them in the backup store, or not at all, and says *)
(* which: nothing that another writer does between its two reads and its    *)
(* write is lost, no flag is created over one that appeared in between, and *)
(* no deletion goes unsaved (cmd/flag_write.go:459).                        *)
AtomicEdits == FS!Spec

(* The inductive invariant behind it.                                       *)
PresentHasRevision == blob # Absent => rev > 0

Planned(p) == pc[p] \in {"gate", "apply", "write", "update", "answer"}

(* A revision that a plan holds is in the past or the present, and while it *)
(* is the present, the blob is the one that was read.                       *)
PlanAt(p) ==
  LET e == plan[p]
      r == request[p]
  IN /\ e.revision <= rev
     /\ e.revision > 0 /\ e.revision = rev => blob = e.cur
     /\ e.revision = 0 => e.cur = Absent
     /\ e.next = Edit(r, FlagsIn(e.cur)) /\ Fits(r, FlagsIn(e.cur))
     /\ e.revision = 0 /\ Deletes(p) => e.skip
     /\ ~e.backup => FlagsIn(e.cur) = NoFlags

SavedAt(p) ==
  blob # Absent /\ rev = plan[p].revision /\ blob # NoFlags => blob \in backups[p]

StageAt(p) ==
  /\ pc[p] \in {"start", "plan"} => ~plan[p].skip
  /\ pc[p] = "plan" => expected[p] <= rev
  /\ pc[p] \in {"write", "update"} => ~plan[p].skip /\ SavedAt(p)
  /\ pc[p] = "update" => seen[p] <= rev /\ (seen[p] = rev => Matches(p))
  /\ pc[p] = "answer" => p \in committed
  /\ p \in committed => pc[p] \in {"answer", "done", "dead"} /\ ~plan[p].skip
  /\ pc[p] # "done" => outcome[p] = "none"
  /\ Deletes(p) => request[p].keys = Keys /\ request[p].local = NoFlags

IInv ==
  /\ TypeOK
  /\ PresentHasRevision
  /\ \A p \in Commands : Planned(p) => PlanAt(p)
  /\ \A p \in Commands : StageAt(p)
=============================================================================
