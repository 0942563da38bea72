------------------------------- MODULE FlagSet -------------------------------
(***************************************************************************)
(* What cfgov promises of the feature flags of an app, of which            *)
(* cmd/flag_write.go is the implementation: a command edits the set in one *)
(* step, at one moment, of what is there at that moment; it has a copy of  *)
(* what it replaces; and what it says of its edit is so.                   *)
(***************************************************************************)
CONSTANTS
  Commands,   \* invocations of cfgov
  Keys,       \* what flag.Key tells apart
  NoFlag      \* the value of a flag that is not in the set

VARIABLES
  set,      \* the flags of the app
  asked,    \* what each command was asked to do
  changed,  \* the commands that have made their edit
  matched,  \* the commands that have found nothing to edit
  kept,     \* the sets that each command has a copy of
  told      \* what each command has said

vars == <<set, asked, changed, matched, kept, told>>

Empty == [k \in Keys |-> NoFlag]

(* Every verb sets the flags of keys to what local holds.                   *)
Edit(r, flags) == [k \in Keys |-> IF k \in r.keys THEN r.local[k] ELSE flags[k]]

(* create does not overwrite a flag, unless it is forced; update and delete *)
(* miss one that is not there.                                              *)
Fits(r, flags) ==
  /\ r.verb = "create" => \A k \in r.keys : flags[k] = NoFlag
  /\ r.verb \in {"update", "delete"} => \E k \in r.keys : flags[k] # NoFlag

Init ==
  /\ changed = {} /\ matched = {}
  /\ kept = [p \in Commands |-> {}]
  /\ told = [p \in Commands |-> "none"]

Keep(p) ==
  /\ kept' = [kept EXCEPT ![p] = @ \cup {set}]
  /\ UNCHANGED <<set, asked, changed, matched, told>>

Match(p) ==
  /\ Fits(asked[p], set) /\ Edit(asked[p], set) = set
  /\ matched' = matched \cup {p}
  /\ UNCHANGED <<set, asked, changed, kept, told>>

Change(p) ==
  /\ told[p] = "none" /\ p \notin changed
  /\ Fits(asked[p], set)
  /\ set # Empty => set \in kept[p]
  /\ set' = Edit(asked[p], set)
  /\ changed' = changed \cup {p}
  /\ UNCHANGED <<asked, matched, kept, told>>

Tell(p) ==
  /\ told[p] = "none"
  /\ \/ told' = [told EXCEPT ![p] = "success"] /\ p \in changed
     \/ told' = [told EXCEPT ![p] = "skipped"] /\ p \in matched \ changed
     \/ told' = [told EXCEPT ![p] = "refused"] /\ p \notin changed
     \/ told' = [told EXCEPT ![p] = "failed"]
  /\ UNCHANGED <<set, asked, changed, matched, kept>>

(* Another writer, that nobody coordinates with.                            *)
Others == UNCHANGED <<asked, changed, matched, kept, told>>

Next == Others \/ \E p \in Commands : Keep(p) \/ Match(p) \/ Change(p) \/ Tell(p)

Spec == Init /\ [][Next]_vars
=============================================================================
