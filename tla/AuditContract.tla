---------------------------- MODULE AuditContract ----------------------------
(***************************************************************************)
(* What the intent/outcome journal promises, with no queue, no lock and no *)
(* files: a set of records that only grows, a set of outcomes kept safe    *)
(* until they are recorded, and what each operation's caller is told.      *)
(***************************************************************************)
CONSTANT Operations

VARIABLES
  recorded,  \* the intents and outcomes in the audit log
  kept,      \* the operations whose outcome is kept for a later replay
  reached,   \* the operations that reached their target
  told       \* what the caller of each operation has been told

vars == <<recorded, kept, reached, told>>

(* "result": the operation's own result or error; "durable": incomplete, but *)
(* the outcome will be replayed; "incomplete": the outcome may be missing.   *)
Answers == {"refused", "result", "durable", "incomplete"}

Intent(p)  == [op |-> p, phase |-> "intent"]
Outcome(p) == [op |-> p, phase |-> "outcome"]

Init ==
  /\ recorded = {}
  /\ kept = {}
  /\ reached = {}
  /\ told = [p \in Operations |-> "none"]

RecordIntent(p) ==
  /\ told[p] = "none"
  /\ recorded' = recorded \cup {Intent(p)}
  /\ UNCHANGED <<kept, reached, told>>

Reach(p) ==
  /\ told[p] = "none"
  /\ Intent(p) \in recorded
  /\ reached' = reached \cup {p}
  /\ UNCHANGED <<recorded, kept, told>>

RecordOutcome(p) ==
  /\ Intent(p) \in recorded
  /\ recorded' = recorded \cup {Outcome(p)}
  /\ UNCHANGED <<kept, reached, told>>

Keep(p) ==
  /\ Intent(p) \in recorded
  /\ kept' = kept \cup {p}
  /\ UNCHANGED <<recorded, reached, told>>

(* An outcome is dropped from the kept ones only when it is recorded.       *)
Release(p) ==
  /\ Outcome(p) \in recorded
  /\ kept' = kept \ {p}
  /\ UNCHANGED <<recorded, reached, told>>

Tell(p, answer) ==
  /\ told[p] = "none"
  /\ answer = "refused" => p \notin reached
  /\ answer = "result"  => Outcome(p) \in recorded
  /\ answer = "durable" => Outcome(p) \in recorded \/ p \in kept
  /\ told' = [told EXCEPT ![p] = answer]
  /\ UNCHANGED <<recorded, kept, reached>>

Next == \E p \in Operations :
          \/ RecordIntent(p) \/ Reach(p) \/ RecordOutcome(p)
          \/ Keep(p) \/ Release(p)
          \/ \E answer \in Answers : Tell(p, answer)

Spec == Init /\ [][Next]_vars

=============================================================================
