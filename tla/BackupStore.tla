----------------------------- MODULE BackupStore -----------------------------
(***************************************************************************)
(* The local backup store (internal/backup/backup.go, cmd/backup.go): a    *)
(* data file for each backup and one index, a line for each backup.  Every *)
(* command of the operator is a process, and they share the directory.     *)
(*                                                                         *)
(*  - A saver (backup.Write, before a governed write) creates the file,    *)
(*    fills it, and only then locks the index and appends its line.        *)
(*  - A cleaner (backup clean --confirm) previews what it would delete,    *)
(*    gets its authorization and its intent, locks the index, plans again, *)
(*    refuses to go on if the candidates are others, deletes files, and    *)
(*    rewrites the index in place.                                         *)
(*  - A reader (backup list, rollback --backup-id) reads the index without *)
(*    the lock, and then the file.                                         *)
(*                                                                         *)
(* Modelling decisions:                                                    *)
(*  - the index is a set of lines: no reader depends on their order, and a *)
(*    cleaner may delete and rewrite in any; torn says that it holds a part*)
(*    of a line, with which readIndex rejects the whole index;             *)
(*  - the ids, random in the code, are fresh; the stamps are whole seconds;*)
(*  - files are lost to other programs (Vanish): the code marks their lines*)
(*    missing;                                                             *)
(*  - a cleaner without --confirm, backup list and a reader that finds     *)
(*    nothing change nothing; legacy lines without an id are left out.     *)
(***************************************************************************)
EXTENDS Integers, FiniteSets

CONSTANTS
  Savers, Cleaners, Readers,  \* the processes
  Ids,        \* backup ids, as numbers in their order
  Old,        \* bound: the ids that earlier commands may have used
  Names,      \* the blobs that are backed up: what a filter tells apart
  Asked,      \* bound: the cleanings that operators ask for
  NoOne,      \* the owner of a free lock
  NoId,       \* the backup of a process that has none
  Unused,     \* the metadata of an id that no backup has
  MaxTime,    \* bound: the clock, in seconds
  MaxFaults   \* bound: how many operations fail, processes die or files vanish

Procs == Savers \cup Cleaners \cup Readers

Metadata == [name : Names, created : 0..MaxTime]

(* What to clean: the blobs that the filter matches, and --keep-last n or   *)
(* --before n.                                                              *)
Requests == [of : SUBSET Names, by : {"keep", "before"}, n : Nat]

ASSUME ConstantsOK ==
  /\ Savers \cap Cleaners = {} /\ Readers \cap (Savers \cup Cleaners) = {}
  /\ NoOne \notin Procs /\ NoId \notin Ids /\ Unused \notin Metadata
  /\ Ids \subseteq Nat /\ IsFiniteSet(Ids) /\ Old \subseteq Ids
  /\ Asked \subseteq Requests
  /\ MaxTime \in Nat /\ MaxFaults \in Nat

VARIABLES
  now,      \* the clock
  files,    \* the data file of each id: none, partial or whole
  meta,     \* the name and the stamp of each backup
  index,    \* the ids that have a line in index.jsonl
  torn,     \* index.jsonl holds a part of a line
  lock,     \* the cleaner that holds the index lock across steps, or NoOne
  pc,       \* where each process is
  mine,     \* the backup that a saver writes or a reader wants
  ask,      \* what a cleaner was asked to clean
  preview,  \* the candidates that it has shown
  current,  \* what it has read under the lock
  deleted,  \* CleanResult.Deleted
  removed,  \* CleanResult.Removed
  result,   \* what a process reports
  saved,    \* history: the backups that savers reported as written
  gone,     \* history: the files lost to other programs
  broken,   \* history: an append or a rewriting of the index failed half way
  faults

store == <<files, meta, index, torn>>
cleaning == <<ask, preview, current, deleted, removed>>
vars == <<now, store, lock, pc, mine, cleaning, result, saved, gone, broken, faults>>

Candidates == [delete : SUBSET Ids, remove : SUBSET Ids]
NoCandidates == [delete |-> {}, remove |-> {}]

(* What a cleaner reads under the lock: the candidates, the lines it keeps, *)
(* and (history) the lines that had a file.                                 *)
Readings == [delete : SUBSET Ids, remove : SUBSET Ids, keep : SUBSET Ids, had : SUBSET Ids]
Nothing == [delete |-> {}, remove |-> {}, keep |-> {}, had |-> {}]

-----------------------------------------------------------------------------
(* Lines by age: CreatedAt, then BackupID.                                  *)
Later(j, i) ==
  \/ meta[j].created > meta[i].created
  \/ meta[j].created = meta[i].created /\ j > i

(* The lines that the filter matches, and those of them with a file.  (A    *)
(* fault of the code: a line counts although its file is missing.)          *)
Matched(r) == {i \in index : meta[i].name \in r.of}
PresentAnyLine(r) == Matched(r)
Present(r) == {i \in Matched(r) : files[i] # "none"}

(* K is what --keep-last n keeps of S: its n newest, or all of it.          *)
IsNewest(K, S, n) ==
  /\ Cardinality(K) = IF n >= Cardinality(S) THEN Cardinality(S) ELSE n
  /\ \A k \in K, j \in S \ K : Later(k, j)

(* What a cleaner deletes and removes for request r: one set of candidates. *)
Plans(r) ==
  { [delete |-> Present(r) \ K, remove |-> Matched(r) \ Present(r)] :
      K \in IF r.by = "keep"
            THEN {S \in SUBSET Present(r) : IsNewest(S, Present(r), r.n)}
            ELSE {{i \in Present(r) : meta[i].created >= r.n}} }

End(p, verdict) ==
  /\ pc' = [pc EXCEPT ![p] = "done"]
  /\ result' = [result EXCEPT ![p] = verdict]

Fault == faults < MaxFaults /\ faults' = faults + 1
-----------------------------------------------------------------------------
(* The store of earlier commands: every line has its file.                  *)
Init ==
  /\ now \in 0..MaxTime
  /\ meta \in [Ids -> [name : Names, created : 0..now] \cup {Unused}]
  /\ index = {i \in Ids : meta[i] # Unused} /\ index \subseteq Old
  /\ files = [i \in Ids |-> IF i \in index THEN "whole" ELSE "none"]
  /\ torn = FALSE /\ lock = NoOne
  /\ pc = [p \in Procs |-> "start"]
  /\ mine = [p \in Procs |-> NoId]
  /\ ask = [p \in Cleaners |-> [of |-> {}, by |-> "keep", n |-> 0]]
  /\ preview = [p \in Cleaners |-> NoCandidates]
  /\ current = [p \in Cleaners |-> Nothing]
  /\ deleted = [p \in Cleaners |-> {}]
  /\ removed = [p \in Cleaners |-> {}]
  /\ result = [p \in Procs |-> "none"]
  /\ saved = index /\ gone = {} /\ broken = FALSE /\ faults = 0

(* Savers.  The stamp is taken and the file created, empty, under an id     *)
(* that nobody has.                                                         *)
Create(p) ==
  /\ pc[p] = "start"
  /\ \E i \in Ids, name \in Names :
       /\ meta[i] = Unused
       /\ meta' = [meta EXCEPT ![i] = [name |-> name, created |-> now]]
       /\ files' = [files EXCEPT ![i] = "partial"]
       /\ mine' = [mine EXCEPT ![p] = i]
  /\ pc' = [pc EXCEPT ![p] = "filling"]
  /\ UNCHANGED <<now, index, torn, lock, cleaning, result, saved, gone, broken, faults>>

Fill(p) ==
  /\ pc[p] = "filling"
  /\ files' = [files EXCEPT ![mine[p]] = "whole"]
  /\ pc' = [pc EXCEPT ![p] = "filled"]
  /\ UNCHANGED <<now, meta, index, torn, lock, mine, cleaning, result, saved, gone,
                 broken, faults>>

FillFails(p) ==
  /\ pc[p] = "filling"
  /\ Fault /\ End(p, "failed")
  /\ UNCHANGED <<now, store, lock, mine, cleaning, saved, gone, broken>>

(* A fault: the line is appended without the lock.                          *)
AppendUnlocked(p) ==
  /\ pc[p] = "filled"
  /\ index' = index \cup {mine[p]} /\ saved' = saved \cup {mine[p]}
  /\ End(p, "success")
  /\ UNCHANGED <<now, files, meta, torn, lock, mine, cleaning, gone, broken, faults>>

(* A line appended to a part of a line is lost with it.                     *)
AppendLine(p) ==
  /\ pc[p] = "filled" /\ lock = NoOne
  /\ index' = IF torn THEN index ELSE index \cup {mine[p]}
  /\ saved' = saved \cup {mine[p]}
  /\ End(p, "success")
  /\ UNCHANGED <<now, files, meta, torn, lock, mine, cleaning, gone, broken, faults>>

(* The append fails: nothing of the line is in the index, or a part of it.  *)
AppendFails(p) ==
  /\ pc[p] = "filled" /\ lock = NoOne
  /\ Fault /\ End(p, "failed")
  /\ torn' \in {torn, TRUE} /\ broken' = (broken \/ torn')
  /\ UNCHANGED <<now, files, meta, index, lock, mine, cleaning, saved, gone>>

(* The lock is not granted in time.                                         *)
LockTimesOut(p) ==
  /\ pc[p] \in {"filled", "start", "approved"}
  /\ pc[p] = "start" => p \in Cleaners
  /\ lock # NoOne
  /\ End(p, "failed")
  /\ UNCHANGED <<now, store, lock, mine, cleaning, saved, gone, broken, faults>>
-----------------------------------------------------------------------------
(* Cleaners.  PlanClean: the candidates, read under the lock.  An empty     *)
(* plan is a success at once.                                               *)
Preview(p) ==
  /\ pc[p] = "start" /\ lock = NoOne /\ ~torn
  /\ \E r \in Asked : \E c \in Plans(r) :
       /\ ask' = [ask EXCEPT ![p] = r]
       /\ preview' = [preview EXCEPT ![p] = c]
       /\ IF c = NoCandidates
          THEN End(p, "success")
          ELSE pc' = [pc EXCEPT ![p] = "previewed"] /\ UNCHANGED result
  /\ UNCHANGED <<now, store, lock, mine, current, deleted, removed, saved, gone,
                 broken, faults>>

(* withAuditControlPolicyLock and beginMutationAudit: the authorization and *)
(* the intent, or their refusal.                                            *)
Approve(p) ==
  /\ pc[p] = "previewed"
  /\ \/ pc' = [pc EXCEPT ![p] = "approved"] /\ UNCHANGED result
     \/ End(p, "failed")
  /\ UNCHANGED <<now, store, lock, mine, cleaning, saved, gone, broken, faults>>

(* readIndex rejects a torn index, in PlanClean, in ApplyCleanPlan and in   *)
(* List.                                                                    *)
Unreadable(p) ==
  /\ pc[p] \in {"start", "approved"} /\ p \notin Savers
  /\ torn /\ (p \in Cleaners => lock = NoOne)
  /\ End(p, "failed")
  /\ UNCHANGED <<now, store, lock, mine, cleaning, saved, gone, broken, faults>>

(* ApplyCleanPlan: lock, read and plan again; go on if nothing has drifted. *)
(* (A fault of the code: a comparison of the numbers only.)                 *)
DriftedInNumber(p, c) == Cardinality(c.delete) # Cardinality(preview[p].delete)
Drifted(p, c) == c # preview[p]

Apply(p) ==
  /\ pc[p] = "approved" /\ lock = NoOne /\ ~torn
  /\ \E c \in Plans(ask[p]) :
       IF Drifted(p, c)
       THEN End(p, "conflict") /\ UNCHANGED <<lock, current>>
       ELSE /\ lock' = p
            /\ current' = [current EXCEPT ![p] =
                 [delete |-> c.delete, remove |-> c.remove,
                  keep |-> index \ (c.delete \cup c.remove),
                  had |-> {i \in index : files[i] # "none"}]]
            /\ pc' = [pc EXCEPT ![p] = "deleting"]
            /\ UNCHANGED result
  /\ UNCHANGED <<now, store, mine, ask, preview, deleted, removed, saved, gone,
                 broken, faults>>

(* One file: a file that is gone already counts as deleted.                 *)
Delete(p) ==
  /\ pc[p] = "deleting"
  /\ \E i \in current[p].delete \ deleted[p] :
       /\ files' = [files EXCEPT ![i] = "none"]
       /\ deleted' = [deleted EXCEPT ![p] = @ \cup {i}]
  /\ UNCHANGED <<now, meta, index, torn, lock, pc, mine, ask, preview, current, removed,
                 result, saved, gone, broken, faults>>

(* A file cannot be deleted, or index.jsonl cannot be opened: the index     *)
(* stays as it is.                                                          *)
DeleteFails(p) ==
  /\ pc[p] = "deleting"
  /\ Fault /\ End(p, "failed")
  /\ lock' = NoOne
  /\ UNCHANGED <<now, store, mine, cleaning, saved, gone, broken>>

(* A fault of the code: the index is rewritten before all files are deleted.*)
TruncateEarly(p) ==
  /\ pc[p] = "deleting"
  /\ index' = {} /\ torn' = FALSE
  /\ pc' = [pc EXCEPT ![p] = "rewriting"]
  /\ UNCHANGED <<now, files, meta, lock, mine, cleaning, result, saved, gone, broken, faults>>

(* writeIndex truncates the index, and writes it line by line.              *)
Truncate(p) ==
  /\ pc[p] = "deleting" /\ current[p].delete = deleted[p]
  /\ index' = {} /\ torn' = FALSE
  /\ pc' = [pc EXCEPT ![p] = "rewriting"]
  /\ UNCHANGED <<now, files, meta, lock, mine, cleaning, result, saved, gone, broken, faults>>

Rewrite(p) ==
  /\ pc[p] = "rewriting"
  /\ \E i \in current[p].keep \ index : index' = index \cup {i}
  /\ UNCHANGED <<now, files, meta, torn, lock, pc, mine, cleaning, result, saved, gone,
                 broken, faults>>

RewriteFails(p) ==
  /\ pc[p] = "rewriting" /\ index # current[p].keep
  /\ Fault /\ End(p, "failed")
  /\ torn' \in BOOLEAN /\ broken' = TRUE
  /\ lock' = NoOne
  /\ UNCHANGED <<now, files, meta, index, mine, cleaning, saved, gone>>

Finish(p) ==
  /\ pc[p] = "rewriting" /\ index = current[p].keep
  /\ removed' = [removed EXCEPT ![p] = current[p].remove]
  /\ End(p, "success")
  /\ lock' = NoOne
  /\ UNCHANGED <<now, store, mine, ask, preview, current, deleted, saved, gone, broken, faults>>
-----------------------------------------------------------------------------
(* Readers: rollback to a backup that some command reported as written.     *)
(* List takes no lock.                                                      *)
Find(p) ==
  /\ pc[p] = "start" /\ ~torn
  /\ \E i \in saved :
       /\ mine' = [mine EXCEPT ![p] = i]
       /\ IF i \in index /\ files[i] # "none"
          THEN pc' = [pc EXCEPT ![p] = "found"] /\ UNCHANGED result
          ELSE End(p, IF i \in index THEN "missing" ELSE "notFound")
  /\ UNCHANGED <<now, store, lock, cleaning, saved, gone, broken, faults>>

ReadFile(p) ==
  /\ pc[p] = "found"
  /\ End(p, CASE files[mine[p]] = "none" -> "missing"
              [] files[mine[p]] = "partial" -> "corrupt"
              [] files[mine[p]] = "whole" -> "success")
  /\ UNCHANGED <<now, store, lock, mine, cleaning, saved, gone, broken, faults>>
-----------------------------------------------------------------------------
(* A process dies: its lock is freed, and the index stays as far as it has  *)
(* got.                                                                     *)
Crash(p) ==
  /\ pc[p] \notin {"start", "done", "dead"}
  /\ Fault
  /\ pc' = [pc EXCEPT ![p] = "dead"]
  /\ lock' = IF lock = p THEN NoOne ELSE lock
  /\ broken' = (broken \/ pc[p] = "rewriting")
  /\ UNCHANGED <<now, store, mine, cleaning, result, saved, gone>>

Vanish(i) ==
  /\ files[i] = "whole"
  /\ Fault
  /\ files' = [files EXCEPT ![i] = "none"]
  /\ gone' = gone \cup {i}
  /\ UNCHANGED <<now, meta, index, torn, lock, pc, mine, cleaning, result, saved, broken>>

Tick ==
  /\ now < MaxTime
  /\ now' = now + 1
  /\ UNCHANGED <<store, lock, pc, mine, cleaning, result, saved, gone, broken, faults>>

Save(p) == Create(p) \/ Fill(p) \/ FillFails(p) \/ AppendLine(p) \/ AppendFails(p)

Clean(p) == \/ Preview(p) \/ Approve(p) \/ Apply(p) \/ Delete(p) \/ DeleteFails(p)
            \/ Truncate(p) \/ Rewrite(p) \/ RewriteFails(p) \/ Finish(p)

Restore(p) == Find(p) \/ ReadFile(p)

Next ==
  \/ \E p \in Savers : Save(p)
  \/ \E p \in Cleaners : Clean(p)
  \/ \E p \in Readers : Restore(p)
  \/ \E p \in Procs : LockTimesOut(p) \/ Unreadable(p) \/ Crash(p)
  \/ \E i \in Ids : Vanish(i)
  \/ Tick

Spec == Init /\ [][Next]_vars
-----------------------------------------------------------------------------
(* Properties                                                               *)

(* The types of the variables of BackupStore.                               *)
TypeOK ==
  /\ now \in 0..MaxTime
  /\ files \in [Ids -> {"none", "partial", "whole"}]
  /\ meta \in [Ids -> Metadata \cup {Unused}]
  /\ index \subseteq Ids /\ saved \subseteq Ids /\ gone \subseteq Ids
  /\ torn \in BOOLEAN /\ broken \in BOOLEAN
  /\ lock \in Cleaners \cup {NoOne}
  /\ pc \in [Procs -> {"start", "filling", "filled", "previewed", "approved", "deleting",
                       "rewriting", "found", "done", "dead"}]
  /\ mine \in [Procs -> Ids \cup {NoId}]
  /\ ask \in [Cleaners -> Requests]
  /\ preview \in [Cleaners -> Candidates]
  /\ current \in [Cleaners -> Readings]
  /\ deleted \in [Cleaners -> SUBSET Ids]
  /\ removed \in [Cleaners -> SUBSET Ids]
  /\ result \in [Procs -> {"none", "success", "failed", "conflict", "missing", "notFound",
                           "corrupt"}]
  /\ faults \in 0..MaxFaults

(* What the cleaners have deleted, as they report or would have reported.   *)
Cleaned == {i \in Ids : \E p \in Cleaners : i \in deleted[p]}

(* A backup that was reported as written stays whole and listed until a     *)
(* cleaner deletes it: other savers, cleaners and their conflicts, crashes  *)
(* and failures do not lose it, except those that break the index half way  *)
(* (broken).  While a cleaner rewrites the index, its own list has the rest.*)
SavedStaysListed ==
  \A i \in saved \ (gone \cup Cleaned) :
    /\ files[i] = "whole"
    /\ \/ i \in index
       \/ \E p \in Cleaners : pc[p] = "rewriting" /\ i \in current[p].keep
       \/ broken

(* A listed backup is complete, so that a rollback never fails with "backup *)
(* sha256 mismatch" (cmd/config_bulk.go:1067) nor restores half a file.     *)
NeverCorrupt == \A p \in Readers : result[p] # "corrupt"

(* What a cleaner deletes was in the preview that the operator confirmed    *)
(* (README.md:304: "apply returns CONFLICT before deletion if that set      *)
(* drifts").                                                                *)
PreviewedOnly ==
  /\ \A p \in Cleaners : deleted[p] \subseteq preview[p].delete
  /\ \A p \in Cleaners : result[p] = "conflict" => deleted[p] = {}

(* The report of a cleaner is true: what it says it deleted or removed is   *)
(* gone and listed no more once it reports success, it has then done all of *)
(* its preview, and no file disappears without being reported as deleted.   *)
ReportHonest ==
  /\ \A p \in Cleaners : result[p] = "success" =>
       /\ deleted[p] = preview[p].delete /\ removed[p] = preview[p].remove
       /\ (deleted[p] \cup removed[p]) \cap index = {}
  /\ \A i \in saved : files[i] = "none" => i \in gone \cup Cleaned

(* backup clean --keep-last n (cmd/backup.go:67, "Keep the newest N matching*)
(* backups"): when a file is deleted, n matching backups that are no older  *)
(* are listed, and have their files unless another program has taken them   *)
(* away since the cleaner looked.                                           *)
NewestKept ==
  [][ \A p \in Cleaners : \A i \in deleted'[p] \ deleted[p] :
        ask[p].by = "keep" =>
          \E K \in SUBSET (Matched(ask[p]) \cap current[p].had) :
            /\ i \notin K /\ Cardinality(K) >= ask[p].n
            /\ \A k \in K : /\ meta[k].created >= meta[i].created
                            /\ files'[k] # "none" \/ k \in gone ]_vars

(* A rollback that asks for a backup that was reported as written never gets*)
(* half of it, and misses it only if a cleaner has deleted it, if another   *)
(* program has taken its file, if the index was broken half way, or if a    *)
(* cleaner is rewriting the index at that very moment and will list it      *)
(* again: List takes no lock (internal/backup/backup.go:214 and             *)
(* cmd/config_bulk.go:1054).                                                *)
MissedForAReason ==
  [][ \A p \in Readers :
        result[p] = "none" /\ result'[p] \notin {"none", "success"} =>
          /\ result'[p] # "corrupt"
          /\ \/ mine'[p] \in gone \cup Cleaned
             \/ broken
             \/ \E q \in Cleaners : pc[q] = "rewriting" /\ mine'[p] \in current[q].keep ]_vars

-----------------------------------------------------------------------------
(* The inductive invariant of BackupStore.                                  *)

(* Where each kind of process can be, and who holds the lock.               *)
PlacesInv ==
  /\ \A p \in Savers : pc[p] \in {"start", "filling", "filled", "done", "dead"}
  /\ \A p \in Readers : pc[p] \in {"start", "found", "done", "dead"}
  /\ \A p \in Cleaners : pc[p] \notin {"filling", "filled", "found"}
  /\ \A p \in Cleaners : pc[p] \in {"deleting", "rewriting"} <=> lock = p
  /\ \A p \in Procs : result[p] # "none" => pc[p] = "done"

(* A file belongs to a backup; the file of a saved one is whole or taken    *)
(* away; the index lists saved backups only.                                *)
FilesInv ==
  /\ \A i \in Ids : files[i] # "none" \/ i \in saved \cup gone => meta[i] # Unused
  /\ \A i \in saved : files[i] = "whole" \/ (files[i] = "none" /\ i \in gone \cup Cleaned)
  /\ index \subseteq saved
  /\ torn => broken

(* A saver's backup is its own until it is saved.                           *)
SaversInv ==
  \A p \in Savers : pc[p] \in {"filling", "filled"} =>
    /\ mine[p] \in Ids \ saved /\ meta[mine[p]] # Unused
    /\ pc[p] = "filled" => \/ files[mine[p]] = "whole"
                           \/ files[mine[p]] = "none" /\ mine[p] \in gone
    /\ \A q \in Savers \ {p} : pc[q] \in {"filling", "filled"} => mine[q] # mine[p]

(* What a cleaner reports, at the least.                                    *)
ReportAt(p) ==
  /\ deleted[p] \subseteq preview[p].delete
  /\ deleted[p] \cup removed[p] \subseteq saved
  /\ pc[p] \in {"start", "previewed", "approved"} => deleted[p] = {} /\ removed[p] = {}
  /\ result[p] = "conflict" => deleted[p] = {}

(* A cleaner that has the lock deletes and removes what it previewed; the   *)
(* rest of the index is what it keeps.                                      *)
LockedAt(p) ==
  /\ pc[p] \in {"deleting", "rewriting"} =>
       /\ current[p].delete = preview[p].delete /\ current[p].remove = preview[p].remove
       /\ current[p].delete \cup current[p].remove \cup current[p].keep \subseteq saved
       /\ current[p].keep \cap (current[p].delete \cup current[p].remove) = {}
  /\ pc[p] = "deleting" =>
       /\ index = current[p].keep \cup current[p].delete \cup current[p].remove
       /\ current[p].remove \subseteq gone \cup Cleaned
  /\ pc[p] = "rewriting" =>
       /\ index \subseteq current[p].keep
       /\ deleted[p] = current[p].delete
       /\ current[p].remove \subseteq gone \cup Cleaned

(* What --keep-last keeps is not deleted and stays, but for other programs. *)
KeepsNewest(p) ==
  pc[p] = "deleting" /\ ask[p].by = "keep" /\ current[p].delete # {} =>
    \E K \in SUBSET (current[p].had \cap current[p].keep) :
      /\ Cardinality(K) >= ask[p].n
      /\ \A k \in K :
           /\ meta[k].name \in ask[p].of
           /\ files[k] # "none" \/ k \in gone
           /\ \A i \in current[p].delete : meta[k].created >= meta[i].created

(* Nothing brings back what a cleaner has reported as deleted or removed.   *)
ReportedAt(p) ==
  result[p] = "success" =>
    /\ deleted[p] = preview[p].delete /\ removed[p] = preview[p].remove
    /\ (deleted[p] \cup removed[p]) \cap index = {}
    /\ \A q \in Cleaners : pc[q] = "rewriting" =>
         (deleted[p] \cup removed[p]) \cap current[q].keep = {}

CleanersInv ==
  \A p \in Cleaners : ReportAt(p) /\ LockedAt(p) /\ KeepsNewest(p) /\ ReportedAt(p)

(* What is saved and not taken away is listed, or about to be again.        *)
ListedInv ==
  \A i \in saved \ (gone \cup Cleaned) :
    \/ i \in index
    \/ \E p \in Cleaners : pc[p] = "rewriting" /\ i \in current[p].keep
    \/ broken

ReadersInv ==
  \A p \in Readers : /\ pc[p] = "found" => mine[p] \in saved
                     /\ result[p] # "corrupt"

IInv ==
  /\ TypeOK
  /\ PlacesInv /\ FilesInv /\ SaversInv /\ CleanersInv /\ ListedInv /\ ReadersInv
=============================================================================
