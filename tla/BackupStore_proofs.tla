------------------------- MODULE BackupStore_proofs -------------------------
(* Proofs about BackupStore for any processes, ids, names and bounds.       *)
EXTENDS BackupStore, FiniteSetTheorems, TLAPS

-----------------------------------------------------------------------------
(* What the helpers return.                                                 *)

(* A plan names lines of the index; what it removes has no file.            *)
LEMMA PlanFacts ==
  ASSUME TypeOK, NEW r, NEW c \in Plans(r)
  PROVE  /\ c \in Candidates
         /\ c.delete \subseteq Present(r) /\ Present(r) \subseteq index
         /\ c.remove = Matched(r) \ Present(r) /\ c.remove \subseteq index
         /\ \A i \in c.remove : files[i] = "none"
<1>1. PICK K : c = [delete |-> Present(r) \ K, remove |-> Matched(r) \ Present(r)]
  BY DEF Plans
<1>2. Matched(r) \subseteq index /\ index \subseteq Ids
  BY DEF Matched, TypeOK
<1>3. Present(r) = {i \in Matched(r) : files[i] # "none"}
  BY DEF Present
<1> QED
  BY <1>1, <1>2, <1>3 DEF Candidates

(* The n newest that a --keep-last plan leaves: as many as asked for, if it *)
(* deletes anything, and none older than what it deletes.                   *)
LEMMA KeepFacts ==
  ASSUME TypeOK, FilesInv, NEW r \in Requests, r.by = "keep", NEW c \in Plans(r), c.delete # {}
  PROVE  \E K \in SUBSET Present(r) :
           /\ K \cap c.delete = {}
           /\ Cardinality(K) >= r.n
           /\ \A k \in K, i \in c.delete : meta[k].created >= meta[i].created
<1>1. PICK K \in SUBSET Present(r) :
        /\ IsNewest(K, Present(r), r.n)
        /\ c = [delete |-> Present(r) \ K, remove |-> Matched(r) \ Present(r)]
  BY DEF Plans
<1>2. Present(r) \subseteq index /\ index \subseteq Ids
  BY DEF Present, Matched, TypeOK
<1>3. IsFiniteSet(Present(r)) /\ Cardinality(Present(r)) \in Nat
  BY <1>2, ConstantsOK, FS_Subset, FS_CardinalityType
<1>4. Cardinality(K) >= r.n
  <2>1. K # Present(r)
    BY <1>1
  <2>2. Cardinality(K) < Cardinality(Present(r))
    BY <1>3, <2>1, FS_Subset, FS_CardinalityType
  <2> QED
    BY <1>1, <1>3, <2>2 DEF IsNewest, Requests
<1>5. ASSUME NEW k \in K, NEW i \in c.delete
      PROVE  meta[k].created >= meta[i].created
  <2>1. Later(k, i)
    BY <1>1, <1>5 DEF IsNewest
  <2>2. k \in saved /\ i \in saved
    BY <1>1, <1>2 DEF FilesInv
  <2>3. meta[k] \in Metadata /\ meta[i] \in Metadata
    BY <2>2 DEF FilesInv, TypeOK
  <2>4. meta[k].created \in Int /\ meta[i].created \in Int
    BY <2>3, ConstantsOK DEF Metadata
  <2> QED
    BY <2>1, <2>4 DEF Later
<1> QED
  BY <1>1, <1>4, <1>5

-----------------------------------------------------------------------------
(* Every step keeps the inductive invariant.                                *)

(* The steps that touch neither the store nor what a cleaner remembers.     *)
Quiet(p) == \/ p \in Savers /\ FillFails(p)
            \/ p \in Cleaners /\ Approve(p)
            \/ p \in Readers /\ Restore(p)
            \/ LockTimesOut(p) \/ Unreadable(p)

LEMMA QuietKeeps ==
  ASSUME IInv, NEW p \in Procs, Quiet(p)
  PROVE  IInv'
<1>1. TypeOK'
  <2>1. /\ pc' \in [Procs -> {"start", "filling", "filled", "previewed", "approved",
                              "deleting",
                              "rewriting", "found", "done", "dead"}]
        /\ result' \in [Procs -> {"none", "success", "failed", "conflict", "missing",
                                  "notFound", "corrupt"}]
    <3>1. CASE ReadFile(p)
      <4>1. mine[p] \in Ids
        BY <3>1 DEF IInv, TypeOK, PlacesInv, ReadersInv, ReadFile, Procs
      <4>2. files[mine[p]] \in {"none", "partial", "whole"}
        BY <4>1 DEF IInv, TypeOK
      <4>3. PICK v \in {"missing", "corrupt", "success"} : End(p, v)
        BY <3>1, <4>2 DEF ReadFile
      <4> QED
        BY <4>3 DEF IInv, TypeOK, End
    <3>2. CASE Find(p)
      BY <3>2 DEF IInv, TypeOK, Find, End
    <3>3. CASE ~ReadFile(p) /\ ~Find(p)
      BY <3>3 DEF IInv, TypeOK, Procs, Quiet, FillFails, LockTimesOut, Unreadable,
         Approve,
                  Restore, End
    <3> QED
      BY <3>1, <3>2, <3>3
  <2>2. mine' \in [Procs -> Ids \cup {NoId}]
    BY DEF IInv, TypeOK, Procs, Quiet, FillFails, LockTimesOut, Unreadable, Approve,
       Restore,
           Find, ReadFile
  <2>3. now' \in 0..MaxTime /\ faults' \in 0..MaxFaults
    BY ConstantsOK DEF IInv, TypeOK, Quiet, FillFails, LockTimesOut, Unreadable,
       Approve,
           Restore, Find, ReadFile, Fault
  <2>4. UNCHANGED <<store, cleaning, lock, saved, gone, broken>>
    BY DEF Quiet, FillFails, LockTimesOut, Unreadable, Approve, Restore, Find, ReadFile
  <2> QED
    BY <2>1, <2>2, <2>3, <2>4 DEF IInv, TypeOK, store, cleaning
<1>2. PlacesInv'
  BY ConstantsOK DEF IInv, TypeOK, PlacesInv, Procs, Quiet, End, FillFails,
     LockTimesOut, Unreadable, Approve, Restore, Find, ReadFile
<1>3. FilesInv'
  BY DEF IInv, FilesInv, Cleaned, Quiet, store, cleaning, FillFails, LockTimesOut,
     Unreadable, Approve, Restore, Find, ReadFile
<1>4. SaversInv'
  BY DEF IInv, TypeOK, SaversInv, Procs, Quiet, End, store, FillFails, LockTimesOut,
     Unreadable, Approve, Restore, Find, ReadFile
<1>5. ASSUME NEW q \in Cleaners
      PROVE  (ReportAt(q) /\ LockedAt(q) /\ KeepsNewest(q) /\ ReportedAt(q))'
  <2>1. ReportAt(q)'
    BY DEF IInv, TypeOK, PlacesInv, CleanersInv, ReportAt, Procs, Quiet, End, cleaning,
       FillFails, LockTimesOut, Unreadable, Approve, Restore, Find, ReadFile
  <2>2. LockedAt(q)'
    BY DEF IInv, TypeOK, CleanersInv, LockedAt, Cleaned, Procs, Quiet, End, store,
       cleaning, FillFails, LockTimesOut, Unreadable, Approve, Restore, Find, ReadFile
  <2>3. KeepsNewest(q)'
    BY <1>5, ConstantsOK DEF IInv, TypeOK, PlacesInv, FilesInv, CleanersInv,
       KeepsNewest, Procs, Quiet, End, store, cleaning, FillFails, LockTimesOut,
       Unreadable, Approve, Restore, Find, ReadFile
  <2>4. ReportedAt(q)'
    BY DEF IInv, TypeOK, PlacesInv, CleanersInv, ReportedAt, Procs, Quiet, End, store,
       cleaning, FillFails, LockTimesOut, Unreadable, Approve, Restore, Find, ReadFile
  <2> QED
    BY <2>1, <2>2, <2>3, <2>4
<1>6. ListedInv'
  BY DEF IInv, TypeOK, ListedInv, Cleaned, Procs, Quiet, End, store, cleaning,
     FillFails, LockTimesOut, Unreadable, Approve, Restore, Find, ReadFile
<1>7. ReadersInv'
  BY DEF IInv, TypeOK, FilesInv, ReadersInv, Procs, Quiet, End, FillFails, LockTimesOut,
     Unreadable, Approve, Restore, Find, ReadFile
<1> QED
  BY <1>1, <1>2, <1>3, <1>4, <1>5, <1>6, <1>7 DEF IInv, CleanersInv

LEMMA CreateKeeps ==
  ASSUME IInv, NEW p \in Savers, Create(p)
  PROVE  IInv'
<1>1. TypeOK'
  BY DEF IInv, TypeOK, Procs, Metadata, Create, cleaning
<1>2. PlacesInv'
  BY ConstantsOK DEF IInv, PlacesInv, Create
<1>3. FilesInv'
  <2>1. PICK i \in Ids, name \in Names :
          /\ meta[i] = Unused
          /\ meta' = [meta EXCEPT ![i] = [name |-> name, created |-> now]]
          /\ files' = [files EXCEPT ![i] = "partial"]
    BY DEF Create
  <2>2. [name |-> name, created |-> now] \in Metadata
    BY DEF IInv, TypeOK, Metadata
  <2>3. /\ meta'[i] # Unused /\ files'[i] # "none"
        /\ \A j \in Ids \ {i} : meta'[j] = meta[j] /\ files'[j] = files[j]
    BY <2>1, <2>2, ConstantsOK DEF IInv, TypeOK
  <2> QED
    BY <2>3 DEF IInv, FilesInv, Cleaned, Create, cleaning
<1>4. SaversInv'
  <2>1. PICK i \in Ids, name \in Names :
          /\ meta[i] = Unused
          /\ meta' = [meta EXCEPT ![i] = [name |-> name, created |-> now]]
          /\ files' = [files EXCEPT ![i] = "partial"]
          /\ mine' = [mine EXCEPT ![p] = i]
    BY DEF Create
  <2>2. [name |-> name, created |-> now] \in Metadata
    BY DEF IInv, TypeOK, Metadata
  <2>3. /\ meta'[i] # Unused
        /\ \A j \in Ids \ {i} : meta'[j] = meta[j] /\ files'[j] = files[j]
    BY <2>1, <2>2, ConstantsOK DEF IInv, TypeOK
  <2>4. i \notin saved /\ saved' = saved /\ gone' = gone
    BY <2>1 DEF IInv, FilesInv, Create
  <2>5. mine'[p] = i /\ pc'[p] = "filling"
    BY <2>1 DEF IInv, TypeOK, Create, Procs
  <2>6. ASSUME NEW q \in Savers \ {p}, pc'[q] \in {"filling", "filled"}
        PROVE  /\ pc[q] = pc'[q] /\ mine'[q] = mine[q] /\ mine[q] \in Ids \ saved
               /\ meta[mine[q]] # Unused /\ mine[q] # i
               /\ pc[q] = "filled" => \/ files[mine[q]] = "whole"
                                      \/ files[mine[q]] = "none" /\ mine[q] \in gone
    BY <2>1, <2>6 DEF IInv, SaversInv, Create
  <2>7. ASSUME NEW q \in Savers \ {p}, pc'[q] \in {"filling", "filled"},
               NEW o \in Savers \ {p, q}, pc'[o] \in {"filling", "filled"}
        PROVE  mine'[o] # mine'[q]
    BY <2>6, <2>7 DEF IInv, SaversInv
  <2> QED
    BY <2>3, <2>4, <2>5, <2>6, <2>7 DEF SaversInv
<1>5. ASSUME NEW q \in Cleaners
      PROVE  (ReportAt(q) /\ LockedAt(q) /\ KeepsNewest(q) /\ ReportedAt(q))'
  <2>1. ReportAt(q)'
    BY DEF IInv, CleanersInv, ReportAt, Create, cleaning
  <2>2. LockedAt(q)'
    BY DEF IInv, CleanersInv, LockedAt, Cleaned, Create, cleaning
  <2>3. KeepsNewest(q)'
    <3>1. PICK i \in Ids, name \in Names :
            /\ meta[i] = Unused
            /\ meta' = [meta EXCEPT ![i] = [name |-> name, created |-> now]]
            /\ files' = [files EXCEPT ![i] = "partial"]
      BY DEF Create
    <3>2. i \notin saved
      BY <3>1 DEF IInv, FilesInv
    <3>3. \A j \in saved : meta'[j] = meta[j] /\ files'[j] = files[j]
      BY <3>1, <3>2 DEF IInv, TypeOK
    <3>4. pc'[q] = "deleting" =>
            pc[q] = "deleting" /\ current[q].delete \cup current[q].keep \subseteq saved
      BY DEF IInv, CleanersInv, LockedAt, Create
    <3> QED
      BY <3>3, <3>4 DEF IInv, CleanersInv, KeepsNewest, Create, cleaning
  <2>4. ReportedAt(q)'
    BY DEF IInv, CleanersInv, ReportedAt, Create, cleaning
  <2> QED
    BY <2>1, <2>2, <2>3, <2>4
<1>6. ListedInv'
  BY DEF IInv, ListedInv, Cleaned, Create, cleaning
<1>7. ReadersInv'
  BY DEF IInv, ReadersInv, Create
<1> QED
  BY <1>1, <1>2, <1>3, <1>4, <1>5, <1>6, <1>7 DEF IInv, CleanersInv

LEMMA FillKeeps ==
  ASSUME IInv, NEW p \in Savers, Fill(p)
  PROVE  IInv'
<1>1. TypeOK'
  BY ConstantsOK DEF IInv, TypeOK, Procs, Metadata, Candidates, Readings, NoCandidates,
     Fill, End, store, cleaning
<1>2. PlacesInv'
  BY DEF IInv, PlacesInv, Fill
<1>3. FilesInv'
  BY DEF IInv, FilesInv, SaversInv, Cleaned, Fill, cleaning
<1>4. SaversInv'
  BY DEF IInv, TypeOK, SaversInv, Fill
<1>5. ASSUME NEW q \in Cleaners
      PROVE  (ReportAt(q) /\ LockedAt(q) /\ KeepsNewest(q) /\ ReportedAt(q))'
  <2>1. ReportAt(q)'
    BY DEF IInv, CleanersInv, ReportAt, Fill, cleaning
  <2>2. LockedAt(q)'
    BY DEF IInv, CleanersInv, LockedAt, Cleaned, Fill, cleaning
  <2>3. KeepsNewest(q)'
    BY DEF IInv, CleanersInv, KeepsNewest, Fill, cleaning
  <2>4. ReportedAt(q)'
    BY DEF IInv, CleanersInv, ReportedAt, Fill, cleaning
  <2> QED
    BY <2>1, <2>2, <2>3, <2>4
<1>6. ListedInv'
  BY DEF IInv, ListedInv, Cleaned, Fill, cleaning
<1>7. ReadersInv'
  BY DEF IInv, ReadersInv, Fill
<1> QED
  BY <1>1, <1>2, <1>3, <1>4, <1>5, <1>6, <1>7 DEF IInv, CleanersInv

LEMMA AppendLineKeeps ==
  ASSUME IInv, NEW p \in Savers, AppendLine(p)
  PROVE  IInv'
<1>1. TypeOK'
  <2>1. mine[p] \in Ids
    BY DEF IInv, SaversInv, AppendLine
  <2>2. index' \subseteq Ids /\ saved' \subseteq Ids
    BY <2>1 DEF IInv, TypeOK, AppendLine
  <2>3. /\ pc' \in [Procs -> {"start", "filling", "filled", "previewed", "approved",
                              "deleting",
                              "rewriting", "found", "done", "dead"}]
        /\ result' \in [Procs -> {"none", "success", "failed", "conflict", "missing",
                                  "notFound", "corrupt"}]
    BY DEF IInv, TypeOK, Procs, AppendLine, End
  <2> QED
    BY <2>2, <2>3 DEF IInv, TypeOK, AppendLine, cleaning
<1>2. PlacesInv'
  BY DEF IInv, TypeOK, PlacesInv, AppendLine, End
<1>3. FilesInv'
  <2>1. /\ mine[p] \in Ids /\ meta[mine[p]] # Unused
        /\ \/ files[mine[p]] = "whole"
           \/ files[mine[p]] = "none" /\ mine[p] \in gone
    BY DEF IInv, SaversInv, AppendLine
  <2>2. index' \subseteq saved'
    BY DEF IInv, FilesInv, AppendLine
  <2>3. UNCHANGED <<files, meta, torn, gone, broken, Cleaned>> /\ saved' = saved \cup {mine[p]}
    BY DEF AppendLine, cleaning, Cleaned
  <2> QED
    BY <2>1, <2>2, <2>3 DEF IInv, FilesInv
<1>4. SaversInv'
  BY DEF IInv, TypeOK, SaversInv, Procs, AppendLine, End
<1>5. ASSUME NEW q \in Cleaners
      PROVE  (ReportAt(q) /\ LockedAt(q) /\ KeepsNewest(q) /\ ReportedAt(q))'
  <2>1. ReportAt(q)'
    BY DEF IInv, CleanersInv, ReportAt, AppendLine, End, cleaning
  <2>2. LockedAt(q)'
    BY ConstantsOK DEF IInv, PlacesInv, LockedAt, Procs, AppendLine, End
  <2>3. KeepsNewest(q)'
    BY ConstantsOK DEF IInv, CleanersInv, KeepsNewest, AppendLine, End, cleaning
  <2>4. ReportedAt(q)'
    BY DEF IInv, PlacesInv, SaversInv, CleanersInv, ReportAt, ReportedAt, AppendLine,
       End, cleaning
  <2> QED
    BY <2>1, <2>2, <2>3, <2>4
<1>6. ListedInv'
  BY DEF IInv, FilesInv, ListedInv, Cleaned, AppendLine, End, cleaning
<1>7. ReadersInv'
  BY DEF IInv, ReadersInv, AppendLine, End
<1> QED
  BY <1>1, <1>2, <1>3, <1>4, <1>5, <1>6, <1>7 DEF IInv, CleanersInv

LEMMA AppendFailsKeeps ==
  ASSUME IInv, NEW p \in Savers, AppendFails(p)
  PROVE  IInv'
<1>1. TypeOK'
  <2>1. torn' \in BOOLEAN /\ broken' \in BOOLEAN
    BY Zenon DEF IInv, TypeOK, AppendFails
  <2>2. /\ faults' \in 0..MaxFaults
        /\ pc' \in [Procs -> {"start", "filling", "filled", "previewed", "approved",
                              "deleting",
                              "rewriting", "found", "done", "dead"}]
        /\ result' \in [Procs -> {"none", "success", "failed", "conflict", "missing",
                                  "notFound", "corrupt"}]
    BY ConstantsOK DEF IInv, TypeOK, Procs, AppendFails, End, Fault
  <2> QED
    BY <2>1, <2>2 DEF IInv, TypeOK, AppendFails, cleaning
<1>2. PlacesInv'
  BY DEF IInv, TypeOK, PlacesInv, AppendFails, End
<1>3. FilesInv'
  BY ConstantsOK DEF IInv, TypeOK, PlacesInv, FilesInv, SaversInv, Cleaned, Procs,
     AppendFails, End, store, cleaning, Fault
<1>4. SaversInv'
  BY DEF IInv, SaversInv, AppendFails, End
<1>5. ASSUME NEW q \in Cleaners
      PROVE  (ReportAt(q) /\ LockedAt(q) /\ KeepsNewest(q) /\ ReportedAt(q))'
  <2>1. ReportAt(q)'
    BY DEF IInv, CleanersInv, ReportAt, AppendFails, End, cleaning
  <2>2. LockedAt(q)'
    BY DEF IInv, CleanersInv, LockedAt, Cleaned, AppendFails, End, cleaning
  <2>3. KeepsNewest(q)'
    BY DEF IInv, CleanersInv, KeepsNewest, AppendFails, End, cleaning
  <2>4. ReportedAt(q)'
    BY DEF IInv, CleanersInv, ReportedAt, AppendFails, End, cleaning
  <2> QED
    BY <2>1, <2>2, <2>3, <2>4
<1>6. ListedInv'
  BY DEF IInv, TypeOK, ListedInv, Cleaned, AppendFails, End, cleaning
<1>7. ReadersInv'
  BY DEF IInv, ReadersInv, AppendFails, End
<1> QED
  BY <1>1, <1>2, <1>3, <1>4, <1>5, <1>6, <1>7 DEF IInv, CleanersInv

LEMMA PreviewKeeps ==
  ASSUME IInv, NEW p \in Cleaners, Preview(p)
  PROVE  IInv'
<1>1. TypeOK'
  <2>1. PICK r, c :
            /\ r \in Asked /\ c \in Plans(r)
          /\ ask' = [ask EXCEPT ![p] = r]
          /\ preview' = [preview EXCEPT ![p] = c]
    BY DEF Preview
  <2>2. r \in Requests /\ c \in Candidates
    BY <2>1, ConstantsOK, PlanFacts DEF IInv
  <2>3. ask' \in [Cleaners -> Requests] /\ preview' \in [Cleaners -> Candidates]
    BY <2>1, <2>2 DEF IInv, TypeOK
  <2>4. /\ pc' \in [Procs -> {"start", "filling", "filled", "previewed", "approved",
                              "deleting",
                              "rewriting", "found", "done", "dead"}]
        /\ result' \in [Procs -> {"none", "success", "failed", "conflict", "missing",
                                  "notFound", "corrupt"}]
    BY DEF IInv, TypeOK, Preview, End
  <2> QED
    BY <2>3, <2>4 DEF IInv, TypeOK, Preview, store
<1>2. PlacesInv'
  BY ConstantsOK DEF IInv, TypeOK, PlacesInv, Procs, Preview, End
<1>3. FilesInv'
  BY DEF IInv, FilesInv, Cleaned, Preview, store
<1>4. SaversInv'
  BY DEF IInv, TypeOK, SaversInv, Procs, Preview, End, store
<1>5. ASSUME NEW q \in Cleaners
      PROVE  (ReportAt(q) /\ LockedAt(q) /\ KeepsNewest(q) /\ ReportedAt(q))'
  <2>1. ReportAt(q)'
    BY DEF IInv, TypeOK, CleanersInv, ReportAt, Procs, Preview, End
  <2>2. LockedAt(q)'
    BY DEF IInv, TypeOK, CleanersInv, LockedAt, Cleaned, Procs, Preview, End, store
  <2>3. KeepsNewest(q)'
    BY DEF IInv, TypeOK, PlacesInv, CleanersInv, KeepsNewest, Procs, Preview, End, store
  <2>4. ReportedAt(q)'
    <3>1. PICK r, c :
            /\ r \in Asked /\ c \in Plans(r)
            /\ preview' = [preview EXCEPT ![p] = c]
            /\ IF c = NoCandidates
               THEN End(p, "success")
               ELSE pc' = [pc EXCEPT ![p] = "previewed"] /\ UNCHANGED result
      BY DEF Preview
    <3>2. deleted[p] = {} /\ removed[p] = {}
      BY DEF IInv, CleanersInv, ReportAt, Preview
    <3>3. result'[p] = "success" => c = NoCandidates
      BY <3>1 DEF IInv, PlacesInv, Procs, Preview
    <3>4. preview'[p] = c
      BY <3>1 DEF IInv, TypeOK
    <3>5. CASE q = p
      BY <3>2, <3>3, <3>4, <3>5 DEF ReportedAt, Preview, NoCandidates
    <3>6. CASE q # p
      BY <3>6 DEF IInv, TypeOK, CleanersInv, ReportedAt, Preview, End, store, Procs
    <3> QED
      BY <3>5, <3>6
  <2> QED
    BY <2>1, <2>2, <2>3, <2>4
<1>6. ListedInv'
  BY DEF IInv, TypeOK, ListedInv, Cleaned, Procs, Preview, End, store
<1>7. ReadersInv'
  BY DEF IInv, TypeOK, ReadersInv, Procs, Preview, End
<1> QED
  BY <1>1, <1>2, <1>3, <1>4, <1>5, <1>6, <1>7 DEF IInv, CleanersInv

LEMMA ApplyKeeps ==
  ASSUME IInv, NEW p \in Cleaners, Apply(p)
  PROVE  IInv'
<1>1. TypeOK'
  <2>1. PICK c \in Plans(ask[p]) :
          IF Drifted(p, c)
          THEN End(p, "conflict") /\ UNCHANGED <<lock, current>>
          ELSE /\ lock' = p
               /\ current' = [current EXCEPT ![p] =
                    [delete |-> c.delete, remove |-> c.remove,
                     keep |-> index \ (c.delete \cup c.remove),
                     had |-> {i \in index : files[i] # "none"}]]
               /\ pc' = [pc EXCEPT ![p] = "deleting"]
               /\ UNCHANGED result
    BY DEF Apply
  <2>2. c \in Candidates /\ index \subseteq Ids
    BY PlanFacts DEF IInv, TypeOK
  <2>3. current' \in [Cleaners -> Readings] /\ lock' \in Cleaners \cup {NoOne}
    <3>1. [delete |-> c.delete, remove |-> c.remove,
           keep |-> index \ (c.delete \cup c.remove),
           had |-> {i \in index : files[i] # "none"}] \in Readings
      BY <2>2 DEF Candidates, Readings
    <3> QED
      BY <2>1, <3>1 DEF IInv, TypeOK
  <2>4. /\ pc' \in [Procs -> {"start", "filling", "filled", "previewed", "approved",
                              "deleting",
                              "rewriting", "found", "done", "dead"}]
        /\ result' \in [Procs -> {"none", "success", "failed", "conflict", "missing",
                                  "notFound", "corrupt"}]
    BY <2>1 DEF IInv, TypeOK, End
  <2> QED
    BY <2>3, <2>4 DEF IInv, TypeOK, Apply, store
<1>2. PlacesInv'
  BY ConstantsOK DEF IInv, TypeOK, PlacesInv, Procs, Apply, End
<1>3. FilesInv'
  BY DEF IInv, FilesInv, Cleaned, Apply, store
<1>4. SaversInv'
  BY DEF IInv, TypeOK, SaversInv, Procs, Apply, End, store
<1>5. ASSUME NEW q \in Cleaners
      PROVE  (ReportAt(q) /\ LockedAt(q) /\ KeepsNewest(q) /\ ReportedAt(q))'
  <2>1. ReportAt(q)'
    BY DEF IInv, TypeOK, CleanersInv, ReportAt, Procs, Apply, End
  <2>2. LockedAt(q)'
    <3>1. PICK c \in Plans(ask[p]) :
            IF Drifted(p, c)
            THEN End(p, "conflict") /\ UNCHANGED <<lock, current>>
            ELSE /\ lock' = p
                 /\ current' = [current EXCEPT ![p] =
                      [delete |-> c.delete, remove |-> c.remove,
                       keep |-> index \ (c.delete \cup c.remove),
                       had |-> {i \in index : files[i] # "none"}]]
                 /\ pc' = [pc EXCEPT ![p] = "deleting"]
                 /\ UNCHANGED result
      BY DEF Apply
    <3>2. \A o \in Cleaners \ {p} :
            /\ pc[o] \notin {"deleting", "rewriting"}
            /\ pc'[o] = pc[o]
      BY ConstantsOK DEF IInv, TypeOK, PlacesInv, Apply, End, Procs
    <3>3. CASE q # p
      BY <3>2, <3>3 DEF LockedAt
    <3>4. CASE q = p /\ Drifted(p, c)
      BY <3>1, <3>4 DEF LockedAt, End, IInv, TypeOK, Procs
    <3>5. CASE q = p /\ ~Drifted(p, c)
      <4>1. c = preview[p] /\ pc'[p] = "deleting"
        BY <3>1, <3>5 DEF Drifted, IInv, TypeOK, Procs
      <4>2. current'[p] = [delete |-> c.delete, remove |-> c.remove,
                           keep |-> index \ (c.delete \cup c.remove),
                           had |-> {i \in index : files[i] # "none"}]
        BY <3>1, <3>5 DEF IInv, TypeOK
      <4>3. /\ c.delete \subseteq index /\ c.remove \subseteq index
            /\ \A i \in c.remove : files[i] = "none"
        BY <3>1, PlanFacts DEF IInv
      <4>4. index \subseteq saved /\ c.remove \subseteq gone \cup Cleaned
        BY <4>3 DEF IInv, FilesInv
      <4>5. UNCHANGED <<index, saved, preview, gone, deleted, Cleaned>>
        BY DEF Apply, store, Cleaned
      <4> QED
        BY <3>5, <4>1, <4>2, <4>3, <4>4, <4>5 DEF LockedAt
    <3> QED
      BY <3>3, <3>4, <3>5
  <2>3. KeepsNewest(q)'
    <3>1. PICK c \in Plans(ask[p]) :
            IF Drifted(p, c)
            THEN End(p, "conflict") /\ UNCHANGED <<lock, current>>
            ELSE /\ lock' = p
                 /\ current' = [current EXCEPT ![p] =
                      [delete |-> c.delete, remove |-> c.remove,
                       keep |-> index \ (c.delete \cup c.remove),
                       had |-> {i \in index : files[i] # "none"}]]
                 /\ pc' = [pc EXCEPT ![p] = "deleting"]
                 /\ UNCHANGED result
      BY DEF Apply
    <3>2. \A o \in Cleaners \ {p} :
            /\ pc[o] \notin {"deleting", "rewriting"}
            /\ pc'[o] = pc[o]
      BY ConstantsOK DEF IInv, TypeOK, PlacesInv, Apply, End, Procs
    <3>3. CASE q # p
      BY <3>2, <3>3 DEF KeepsNewest
    <3>4. CASE q = p /\ Drifted(p, c)
      BY <3>1, <3>4 DEF KeepsNewest, End, IInv, TypeOK, Procs
    <3>5. CASE q = p /\ ~Drifted(p, c) /\ ask[p].by = "keep" /\ c.delete # {}
      <4>1. current'[p] = [delete |-> c.delete, remove |-> c.remove,
                           keep |-> index \ (c.delete \cup c.remove),
                           had |-> {i \in index : files[i] # "none"}]
        BY <3>1, <3>5 DEF IInv, TypeOK
      <4>2. ask[p] \in Requests
        BY DEF IInv, TypeOK
      <4>3. PICK K \in SUBSET Present(ask[p]) :
              /\ K \cap c.delete = {}
              /\ Cardinality(K) >= ask[p].n
              /\ \A k \in K, i \in c.delete : meta[k].created >= meta[i].created
        BY <3>5, <4>2, KeepFacts DEF IInv
      <4>4. /\ Present(ask[p]) \subseteq index /\ c.remove \cap Present(ask[p]) = {}
            /\ \A k \in Present(ask[p]) : files[k] # "none" /\ meta[k].name \in ask[p].of
        BY PlanFacts DEF IInv, Present, Matched
      <4>5. K \in SUBSET (current'[p].had \cap current'[p].keep)
        BY <4>1, <4>3, <4>4
      <4>6. \A k \in K : /\ meta[k].name \in ask[p].of /\ files[k] # "none"
                         /\ \A i \in current'[p].delete : meta[k].created >= meta[i].created
        BY <4>1, <4>3, <4>4
      <4>7. UNCHANGED <<files, meta, ask, gone>>
        BY DEF Apply, store
      <4> QED
        BY <3>5, <4>3, <4>5, <4>6, <4>7 DEF KeepsNewest
    <3>6. CASE q = p /\ ~Drifted(p, c) /\ ~(ask[p].by = "keep" /\ c.delete # {})
      BY <3>1, <3>6 DEF KeepsNewest, IInv, TypeOK, Apply
    <3> QED
      BY <3>3, <3>4, <3>5, <3>6
  <2>4. ReportedAt(q)'
    BY DEF IInv, TypeOK, CleanersInv, ReportedAt, Procs, Apply, End, store
  <2> QED
    BY <2>1, <2>2, <2>3, <2>4
<1>6. ListedInv'
  <2>1. \A o \in Cleaners : pc[o] # "rewriting"
    BY ConstantsOK DEF IInv, PlacesInv, Apply, Procs
  <2>2. UNCHANGED <<index, saved, gone, broken, Cleaned>>
    BY DEF Apply, store, Cleaned
  <2> QED
    BY <2>1, <2>2 DEF IInv, ListedInv
<1>7. ReadersInv'
  BY DEF IInv, TypeOK, ReadersInv, Procs, Apply, End
<1> QED
  BY <1>1, <1>2, <1>3, <1>4, <1>5, <1>6, <1>7 DEF IInv, CleanersInv

LEMMA DeleteKeeps ==
  ASSUME IInv, NEW p \in Cleaners, Delete(p)
  PROVE  IInv'
<1>1. TypeOK'
  BY DEF IInv, TypeOK, Readings, Delete
<1>2. PlacesInv'
  BY DEF IInv, PlacesInv, Delete
<1>3. FilesInv'
  BY DEF IInv, TypeOK, FilesInv, Cleaned, Delete
<1>4. SaversInv'
  <2>1. PICK i \in current[p].delete \ deleted[p] :
          /\ files' = [files EXCEPT ![i] = "none"]
          /\ deleted' = [deleted EXCEPT ![p] = @ \cup {i}]
    BY DEF Delete
  <2>2. i \in saved
    BY <2>1 DEF IInv, CleanersInv, LockedAt, Delete
  <2>3. \A j \in Ids \ saved : files'[j] = files[j]
    BY <2>1, <2>2
  <2> QED
    BY <2>3 DEF IInv, SaversInv, Delete
<1>5. ASSUME NEW q \in Cleaners
      PROVE  (ReportAt(q) /\ LockedAt(q) /\ KeepsNewest(q) /\ ReportedAt(q))'
  <2>1. ReportAt(q)'
    BY DEF IInv, PlacesInv, CleanersInv, ReportAt, LockedAt, Procs, Delete
  <2>2. LockedAt(q)'
    BY DEF IInv, CleanersInv, LockedAt, Cleaned, Delete
  <2>3. KeepsNewest(q)'
    <3>1. PICK i \in current[p].delete \ deleted[p] :
            /\ files' = [files EXCEPT ![i] = "none"]
            /\ deleted' = [deleted EXCEPT ![p] = @ \cup {i}]
      BY DEF Delete
    <3>2. pc'[q] = "deleting" => q = p
      BY <1>5, ConstantsOK DEF IInv, PlacesInv, Delete
    <3>3. \A k \in current[p].keep : files'[k] = files[k]
      BY DEF IInv, CleanersInv, LockedAt, Delete
    <3> QED
      BY <3>2, <3>3 DEF IInv, CleanersInv, KeepsNewest, Delete
  <2>4. ReportedAt(q)'
    BY DEF IInv, CleanersInv, ReportedAt, LockedAt, Delete
  <2> QED
    BY <2>1, <2>2, <2>3, <2>4
<1>6. ListedInv'
  <2>1. PICK i \in current[p].delete \ deleted[p] :
          /\ files' = [files EXCEPT ![i] = "none"]
          /\ deleted' = [deleted EXCEPT ![p] = @ \cup {i}]
    BY DEF Delete
  <2>2. \A o \in Cleaners : deleted[o] \subseteq deleted'[o]
    BY <2>1 DEF IInv, TypeOK
  <2>3. Cleaned \subseteq Cleaned'
    BY <2>2 DEF Cleaned
  <2> QED
    BY <2>3 DEF IInv, ListedInv, Delete
<1>7. ReadersInv'
  BY DEF IInv, ReadersInv, Delete
<1> QED
  BY <1>1, <1>2, <1>3, <1>4, <1>5, <1>6, <1>7 DEF IInv, CleanersInv

LEMMA DeleteFailsKeeps ==
  ASSUME IInv, NEW p \in Cleaners, DeleteFails(p)
  PROVE  IInv'
<1>1. TypeOK'
  BY ConstantsOK DEF IInv, TypeOK, Procs, DeleteFails, End, store, cleaning, Fault
<1>2. PlacesInv'
  BY ConstantsOK DEF IInv, TypeOK, PlacesInv, Procs, DeleteFails, End
<1>3. FilesInv'
  BY DEF IInv, FilesInv, Cleaned, DeleteFails, store, cleaning
<1>4. SaversInv'
  BY DEF IInv, SaversInv, DeleteFails, End, store
<1>5. ASSUME NEW q \in Cleaners
      PROVE  (ReportAt(q) /\ LockedAt(q) /\ KeepsNewest(q) /\ ReportedAt(q))'
  <2>1. ReportAt(q)'
    BY DEF IInv, CleanersInv, ReportAt, DeleteFails, End, cleaning
  <2>2. LockedAt(q)'
    BY DEF IInv, CleanersInv, LockedAt, Cleaned, DeleteFails, End, store, cleaning
  <2>3. KeepsNewest(q)'
    BY DEF IInv, CleanersInv, KeepsNewest, DeleteFails, End, store, cleaning
  <2>4. ReportedAt(q)'
    BY DEF IInv, CleanersInv, ReportedAt, DeleteFails, End, store, cleaning
  <2> QED
    BY <2>1, <2>2, <2>3, <2>4
<1>6. ListedInv'
  BY DEF IInv, ListedInv, Cleaned, DeleteFails, End, store, cleaning
<1>7. ReadersInv'
  BY DEF IInv, ReadersInv, DeleteFails, End
<1> QED
  BY <1>1, <1>2, <1>3, <1>4, <1>5, <1>6, <1>7 DEF IInv, CleanersInv

LEMMA TruncateKeeps ==
  ASSUME IInv, NEW p \in Cleaners, Truncate(p)
  PROVE  IInv'
<1>1. TypeOK'
  BY ConstantsOK DEF IInv, TypeOK, Procs, Metadata, Candidates, Readings, NoCandidates,
     Truncate, End, store, cleaning
<1>2. PlacesInv'
  BY DEF IInv, PlacesInv, Truncate
<1>3. FilesInv'
  BY DEF IInv, FilesInv, Cleaned, Truncate, cleaning
<1>4. SaversInv'
  BY DEF IInv, SaversInv, Truncate
<1>5. ASSUME NEW q \in Cleaners
      PROVE  (ReportAt(q) /\ LockedAt(q) /\ KeepsNewest(q) /\ ReportedAt(q))'
  <2>1. ReportAt(q)'
    BY DEF IInv, CleanersInv, ReportAt, Truncate, cleaning
  <2>2. LockedAt(q)'
    BY DEF IInv, TypeOK, PlacesInv, CleanersInv, LockedAt, Cleaned, Procs, Truncate,
       cleaning
  <2>3. KeepsNewest(q)'
    BY DEF IInv, CleanersInv, KeepsNewest, Truncate, cleaning
  <2>4. ReportedAt(q)'
    BY DEF IInv, CleanersInv, ReportedAt, LockedAt, Truncate, cleaning
  <2> QED
    BY <2>1, <2>2, <2>3, <2>4
<1>6. ListedInv'
  BY DEF IInv, TypeOK, CleanersInv, LockedAt, ListedInv, Cleaned, Procs, Truncate,
     cleaning
<1>7. ReadersInv'
  BY DEF IInv, ReadersInv, Truncate
<1> QED
  BY <1>1, <1>2, <1>3, <1>4, <1>5, <1>6, <1>7 DEF IInv, CleanersInv

LEMMA RewriteKeeps ==
  ASSUME IInv, NEW p \in Cleaners, Rewrite(p)
  PROVE  IInv'
<1>1. TypeOK'
  BY DEF IInv, TypeOK, Readings, Rewrite, cleaning
<1>2. PlacesInv'
  BY DEF IInv, PlacesInv, Rewrite
<1>3. FilesInv'
  <2>1. index' \subseteq saved
    BY DEF IInv, CleanersInv, LockedAt, Rewrite
  <2> QED
    BY <2>1 DEF IInv, FilesInv, Cleaned, Rewrite, cleaning
<1>4. SaversInv'
  BY DEF IInv, SaversInv, Rewrite
<1>5. ASSUME NEW q \in Cleaners
      PROVE  (ReportAt(q) /\ LockedAt(q) /\ KeepsNewest(q) /\ ReportedAt(q))'
  <2>1. ReportAt(q)'
    BY DEF IInv, CleanersInv, ReportAt, Rewrite, cleaning
  <2>2. LockedAt(q)'
    <3>1. pc[q] \in {"deleting", "rewriting"} => q = p
      BY DEF IInv, PlacesInv, Rewrite
    <3> QED
      BY <3>1 DEF IInv, CleanersInv, LockedAt, Cleaned, Rewrite, cleaning
  <2>3. KeepsNewest(q)'
    BY DEF IInv, CleanersInv, KeepsNewest, Rewrite, cleaning
  <2>4. ReportedAt(q)'
    BY DEF IInv, CleanersInv, ReportedAt, Rewrite, cleaning
  <2> QED
    BY <2>1, <2>2, <2>3, <2>4
<1>6. ListedInv'
  BY DEF IInv, ListedInv, Cleaned, Rewrite, cleaning
<1>7. ReadersInv'
  BY DEF IInv, ReadersInv, Rewrite
<1> QED
  BY <1>1, <1>2, <1>3, <1>4, <1>5, <1>6, <1>7 DEF IInv, CleanersInv

LEMMA RewriteFailsKeeps ==
  ASSUME IInv, NEW p \in Cleaners, RewriteFails(p)
  PROVE  IInv'
<1>1. TypeOK'
  BY ConstantsOK DEF IInv, TypeOK, Procs, RewriteFails, End, cleaning, Fault
<1>2. PlacesInv'
  BY ConstantsOK DEF IInv, TypeOK, PlacesInv, Procs, RewriteFails, End
<1>3. FilesInv'
  BY DEF IInv, FilesInv, Cleaned, RewriteFails, cleaning
<1>4. SaversInv'
  BY DEF IInv, SaversInv, RewriteFails, End
<1>5. ASSUME NEW q \in Cleaners
      PROVE  (ReportAt(q) /\ LockedAt(q) /\ KeepsNewest(q) /\ ReportedAt(q))'
  <2>1. ReportAt(q)'
    BY DEF IInv, CleanersInv, ReportAt, RewriteFails, End, cleaning
  <2>2. LockedAt(q)'
    BY DEF IInv, CleanersInv, LockedAt, Cleaned, RewriteFails, End, cleaning
  <2>3. KeepsNewest(q)'
    BY DEF IInv, CleanersInv, KeepsNewest, RewriteFails, End, cleaning
  <2>4. ReportedAt(q)'
    BY DEF IInv, CleanersInv, ReportedAt, RewriteFails, End, cleaning
  <2> QED
    BY <2>1, <2>2, <2>3, <2>4
<1>6. ListedInv'
  BY DEF ListedInv, RewriteFails
<1>7. ReadersInv'
  BY DEF IInv, ReadersInv, RewriteFails, End
<1> QED
  BY <1>1, <1>2, <1>3, <1>4, <1>5, <1>6, <1>7 DEF IInv, CleanersInv

LEMMA FinishKeeps ==
  ASSUME IInv, NEW p \in Cleaners, Finish(p)
  PROVE  IInv'
<1>1. TypeOK'
  BY DEF IInv, TypeOK, Procs, Readings, Finish, End, store
<1>2. PlacesInv'
  BY ConstantsOK DEF IInv, TypeOK, PlacesInv, Procs, Finish, End
<1>3. FilesInv'
  BY DEF IInv, FilesInv, Cleaned, Finish, store
<1>4. SaversInv'
  BY DEF IInv, SaversInv, Finish, End, store
<1>5. ASSUME NEW q \in Cleaners
      PROVE  (ReportAt(q) /\ LockedAt(q) /\ KeepsNewest(q) /\ ReportedAt(q))'
  <2>1. ReportAt(q)'
    BY DEF IInv, CleanersInv, ReportAt, LockedAt, Finish, End
  <2>2. LockedAt(q)'
    BY DEF IInv, CleanersInv, LockedAt, Cleaned, Finish, End, store
  <2>3. KeepsNewest(q)'
    BY DEF IInv, CleanersInv, KeepsNewest, Finish, End, store
  <2>4. ReportedAt(q)'
    BY DEF IInv, TypeOK, PlacesInv, CleanersInv, ReportedAt, LockedAt, Finish, End,
       store
  <2> QED
    BY <2>1, <2>2, <2>3, <2>4
<1>6. ListedInv'
  BY DEF IInv, ListedInv, Cleaned, Finish, End, store
<1>7. ReadersInv'
  BY DEF IInv, ReadersInv, Finish, End
<1> QED
  BY <1>1, <1>2, <1>3, <1>4, <1>5, <1>6, <1>7 DEF IInv, CleanersInv

LEMMA TickKeeps ==
  ASSUME IInv, Tick
  PROVE  IInv'
<1>1. TypeOK'
  BY ConstantsOK DEF IInv, TypeOK, Tick, store, cleaning
<1>2. PlacesInv'
  BY DEF IInv, PlacesInv, Tick
<1>3. FilesInv'
  BY DEF IInv, FilesInv, Cleaned, Tick, store, cleaning
<1>4. SaversInv'
  BY DEF IInv, SaversInv, Tick, store
<1>5. ASSUME NEW q \in Cleaners
      PROVE  (ReportAt(q) /\ LockedAt(q) /\ KeepsNewest(q) /\ ReportedAt(q))'
  <2>1. ReportAt(q)'
    BY DEF IInv, CleanersInv, ReportAt, Tick, cleaning
  <2>2. LockedAt(q)'
    BY DEF IInv, CleanersInv, LockedAt, Cleaned, Tick, store, cleaning
  <2>3. KeepsNewest(q)'
    BY DEF IInv, CleanersInv, KeepsNewest, Tick, store, cleaning
  <2>4. ReportedAt(q)'
    BY DEF IInv, CleanersInv, ReportedAt, Tick, store, cleaning
  <2> QED
    BY <2>1, <2>2, <2>3, <2>4
<1>6. ListedInv'
  BY DEF IInv, ListedInv, Cleaned, Tick, store, cleaning
<1>7. ReadersInv'
  BY DEF IInv, ReadersInv, Tick
<1> QED
  BY <1>1, <1>2, <1>3, <1>4, <1>5, <1>6, <1>7 DEF IInv, CleanersInv

LEMMA CrashKeeps ==
  ASSUME IInv, NEW p \in Procs, Crash(p)
  PROVE  IInv'
<1>1. TypeOK'
  BY ConstantsOK DEF IInv, TypeOK, Crash, store, cleaning, Fault
<1>2. PlacesInv'
  BY ConstantsOK DEF IInv, TypeOK, PlacesInv, Procs, Crash
<1>3. FilesInv'
  BY DEF IInv, TypeOK, FilesInv, Cleaned, Crash, store, cleaning
<1>4. SaversInv'
  BY DEF IInv, SaversInv, Crash, store
<1>5. ASSUME NEW q \in Cleaners
      PROVE  (ReportAt(q) /\ LockedAt(q) /\ KeepsNewest(q) /\ ReportedAt(q))'
  <2>1. ReportAt(q)'
    BY DEF IInv, CleanersInv, ReportAt, Crash, cleaning
  <2>2. LockedAt(q)'
    BY DEF IInv, CleanersInv, LockedAt, Cleaned, Crash, store, cleaning
  <2>3. KeepsNewest(q)'
    BY DEF IInv, CleanersInv, KeepsNewest, Crash, store, cleaning
  <2>4. ReportedAt(q)'
    BY DEF IInv, CleanersInv, ReportedAt, Crash, store, cleaning
  <2> QED
    BY <2>1, <2>2, <2>3, <2>4
<1>6. ListedInv'
  <2>1. CASE pc[p] = "rewriting"
    BY <2>1 DEF Crash, ListedInv
  <2>2. CASE pc[p] # "rewriting"
    <3>1. \A o \in Procs : pc[o] = "rewriting" => pc'[o] = "rewriting"
      BY <2>2 DEF IInv, TypeOK, Crash
    <3>2. broken => broken'
      BY DEF Crash
    <3>3. UNCHANGED <<index, saved, gone, current, Cleaned>>
      BY DEF Crash, store, cleaning, Cleaned
    <3> QED
      BY <3>1, <3>2, <3>3 DEF IInv, ListedInv, Procs
  <2> QED
    BY <2>1, <2>2
<1>7. ReadersInv'
  BY DEF IInv, ReadersInv, Crash
<1> QED
  BY <1>1, <1>2, <1>3, <1>4, <1>5, <1>6, <1>7 DEF IInv, CleanersInv

LEMMA VanishKeeps ==
  ASSUME IInv, NEW i \in Ids, Vanish(i)
  PROVE  IInv'
<1>1. TypeOK'
  BY ConstantsOK DEF IInv, TypeOK, Vanish, cleaning, Fault
<1>2. PlacesInv'
  BY DEF IInv, PlacesInv, Vanish
<1>3. FilesInv'
  BY DEF IInv, FilesInv, Cleaned, Vanish, cleaning
<1>4. SaversInv'
  BY DEF IInv, SaversInv, Vanish
<1>5. ASSUME NEW q \in Cleaners
      PROVE  (ReportAt(q) /\ LockedAt(q) /\ KeepsNewest(q) /\ ReportedAt(q))'
  <2>1. ReportAt(q)'
    BY DEF IInv, CleanersInv, ReportAt, Vanish, cleaning
  <2>2. LockedAt(q)'
    BY DEF IInv, CleanersInv, LockedAt, Cleaned, Vanish, cleaning
  <2>3. KeepsNewest(q)'
    BY DEF IInv, CleanersInv, KeepsNewest, Vanish, cleaning
  <2>4. ReportedAt(q)'
    BY DEF IInv, CleanersInv, ReportedAt, Vanish, cleaning
  <2> QED
    BY <2>1, <2>2, <2>3, <2>4
<1>6. ListedInv'
  BY DEF IInv, ListedInv, Cleaned, Vanish, cleaning
<1>7. ReadersInv'
  BY DEF IInv, ReadersInv, Vanish
<1> QED
  BY <1>1, <1>2, <1>3, <1>4, <1>5, <1>6, <1>7 DEF IInv, CleanersInv

-----------------------------------------------------------------------------
(* The theorems.                                                            *)

LEMMA InitIInv == Init => IInv
<1> SUFFICES ASSUME Init PROVE IInv
  OBVIOUS
<1>1. TypeOK
  <2>1. now \in 0..MaxTime /\ meta \in [Ids -> Metadata \cup {Unused}]
    <3>1. /\ now \in 0..MaxTime
          /\ meta \in [Ids -> [name : Names, created : 0..now] \cup {Unused}]
      BY DEF Init
    <3>2. 0..now \subseteq 0..MaxTime
      BY <3>1, ConstantsOK
    <3>3. [name : Names, created : 0..now] \subseteq Metadata
      BY <3>2 DEF Metadata
    <3> QED
      BY <3>1, <3>3
  <2>2. /\ [of |-> {}, by |-> "keep", n |-> 0] \in Requests
        /\ NoCandidates \in Candidates /\ Nothing \in Readings
    BY DEF Requests, NoCandidates, Candidates, Nothing, Readings
  <2>3. /\ ask \in [Cleaners -> Requests] /\ preview \in [Cleaners -> Candidates]
        /\ current \in [Cleaners -> Readings]
        /\ deleted \in [Cleaners -> SUBSET Ids] /\ removed \in [Cleaners -> SUBSET Ids]
    BY <2>2 DEF Init
  <2>4. /\ files \in [Ids -> {"none", "partial", "whole"}]
        /\ index \subseteq Ids /\ saved \subseteq Ids /\ gone \subseteq Ids
        /\ mine \in [Procs -> Ids \cup {NoId}]
    BY DEF Init
  <2>5. faults \in 0..MaxFaults
    BY ConstantsOK DEF Init
  <2> QED
    BY <2>1, <2>3, <2>4, <2>5 DEF Init, TypeOK
<1>2. PlacesInv /\ SaversInv /\ ReadersInv
  BY ConstantsOK DEF Init, PlacesInv, SaversInv, ReadersInv, Procs
<1>3. FilesInv
  BY DEF Init, FilesInv
<1>4. CleanersInv
  BY DEF Init, CleanersInv, ReportAt, LockedAt, KeepsNewest, ReportedAt, Procs
<1>5. ListedInv
  BY DEF Init, ListedInv
<1> QED
  BY <1>1, <1>2, <1>3, <1>4, <1>5 DEF IInv

LEMMA NextKeeps == IInv /\ [Next]_vars => IInv'
<1> SUFFICES ASSUME IInv, [Next]_vars PROVE IInv'
  OBVIOUS
<1>1. ASSUME NEW p \in Savers, Save(p) PROVE IInv'
  BY <1>1, QuietKeeps, CreateKeeps, FillKeeps, AppendLineKeeps, AppendFailsKeeps
     DEF Save, Quiet, Procs
<1>2. ASSUME NEW p \in Cleaners, Clean(p) PROVE IInv'
  BY <1>2, QuietKeeps, PreviewKeeps, ApplyKeeps, DeleteKeeps, DeleteFailsKeeps,
     TruncateKeeps,
     RewriteKeeps, RewriteFailsKeeps, FinishKeeps DEF Clean, Quiet, Procs
<1>3. ASSUME NEW p \in Readers, Restore(p) PROVE IInv'
  BY <1>3, QuietKeeps DEF Quiet, Procs
<1>4. ASSUME NEW p \in Procs, LockTimesOut(p) \/ Unreadable(p) \/ Crash(p) PROVE IInv'
  BY <1>4, QuietKeeps, CrashKeeps DEF Quiet
<1>5. ASSUME NEW i \in Ids, Vanish(i) PROVE IInv'
  BY <1>5, VanishKeeps
<1>6. ASSUME Tick PROVE IInv'
  BY <1>6, TickKeeps
<1>7. ASSUME UNCHANGED vars PROVE IInv'
  <2>1. UNCHANGED <<now, files, meta, index, torn, lock, pc, mine, ask, preview, current,
                    deleted, removed, result, saved, gone, broken, faults>>
    BY <1>7 DEF vars, store, cleaning
  <2>2. TypeOK' /\ PlacesInv' /\ FilesInv' /\ SaversInv'
    BY <2>1 DEF IInv, TypeOK, PlacesInv, FilesInv, SaversInv, Cleaned
  <2>3. CleanersInv'
    BY <2>1 DEF IInv, CleanersInv, ReportAt, LockedAt, KeepsNewest, ReportedAt, Cleaned
  <2>4. ListedInv' /\ ReadersInv'
    BY <2>1 DEF IInv, ListedInv, ReadersInv, Cleaned
  <2> QED
    BY <2>2, <2>3, <2>4 DEF IInv
<1> QED
  BY <1>1, <1>2, <1>3, <1>4, <1>5, <1>6, <1>7 DEF Next

(* Files are deleted, and deletions noted, by a cleaner at its deletions.   *)
LEMMA OnlyDeleteDeletes ==
  ASSUME IInv, [Next]_vars, NEW p \in Cleaners, NEW i \in deleted'[p] \ deleted[p]
  PROVE  /\ pc[p] = "deleting" /\ i \in current[p].delete
         /\ files' = [files EXCEPT ![i] = "none"]
<1>1. ASSUME NEW q \in Cleaners, Delete(q)
      PROVE  /\ pc[p] = "deleting" /\ i \in current[p].delete
             /\ files' = [files EXCEPT ![i] = "none"]
  <2>1. PICK j \in current[q].delete \ deleted[q] :
          /\ files' = [files EXCEPT ![j] = "none"]
          /\ deleted' = [deleted EXCEPT ![q] = @ \cup {j}]
    BY <1>1 DEF Delete
  <2>2. p = q /\ i = j
    BY <2>1 DEF IInv, TypeOK
  <2> QED
    BY <1>1, <2>1, <2>2 DEF Delete
<1>2. (\A q \in Cleaners : ~Delete(q)) => deleted' = deleted
  BY DEF Next, Save, Clean, Restore, Create, Fill, FillFails, AppendLine, AppendFails,
         LockTimesOut, Preview, Approve, Unreadable, Apply, DeleteFails, Truncate, Rewrite,
         RewriteFails, Finish, Find, ReadFile, Crash, Vanish, Tick, vars, cleaning
<1> QED
  BY <1>1, <1>2

(* IInv is an invariant of the store: whoever holds the lock, what a        *)
(* cleaner deletes, keeps and reports agrees with the index and the files.  *)
THEOREM Inductive == Spec => []IInv
BY InitIInv, NextKeeps, PTL DEF Spec

(* The types of the variables hold for any processes, ids and bounds.       *)
THEOREM TypeCorrect == Spec => []TypeOK
<1>1. IInv => TypeOK
  BY DEF IInv
<1> QED
  BY <1>1, Inductive, PTL

(* A backup reported as written (backup.Write) stays whole and listed until *)
(* a cleaner deletes it, unless the index was broken half way.              *)
THEOREM BackupsStay == Spec => []SavedStaysListed
<1>1. IInv => SavedStaysListed
  BY DEF IInv, FilesInv, ListedInv, SavedStaysListed
<1> QED
  BY <1>1, Inductive, PTL

(* No reader finds a listed backup half written (rollbackContentFromBackupID*)
(* compares the hash).                                                      *)
THEOREM BackupsAreComplete == Spec => []NeverCorrupt
<1>1. IInv => NeverCorrupt
  BY DEF IInv, ReadersInv, NeverCorrupt
<1> QED
  BY <1>1, Inductive, PTL

(* ApplyCleanPlan deletes what the operator has seen, and nothing if that   *)
(* has drifted.                                                             *)
THEOREM DeletionsWerePreviewed == Spec => []PreviewedOnly
<1>1. IInv => PreviewedOnly
  BY DEF IInv, CleanersInv, ReportAt, PreviewedOnly
<1> QED
  BY <1>1, Inductive, PTL

(* CleanResult tells the truth: after a success the whole preview is gone   *)
(* from the store, and no file disappears unreported.                       *)
THEOREM ReportsAreTrue == Spec => []ReportHonest
<1>1. IInv => ReportHonest
  BY DEF IInv, CleanersInv, ReportedAt, FilesInv, ReportHonest
<1> QED
  BY <1>1, Inductive, PTL

(* --keep-last n never deletes one of the n newest backups (cleanDeleteSet),*)
(* whatever is saved, cleaned or lost between its preview and its end.      *)
THEOREM NewestStay == Spec => NewestKept
<1>1. ASSUME IInv, [Next]_vars, NEW p \in Cleaners, NEW i \in deleted'[p] \ deleted[p],
             ask[p].by = "keep"
      PROVE  \E K \in SUBSET (Matched(ask[p]) \cap current[p].had) :
               /\ i \notin K /\ Cardinality(K) >= ask[p].n
               /\ \A k \in K : /\ meta[k].created >= meta[i].created
                               /\ files'[k] # "none" \/ k \in gone
  <2>1. /\ pc[p] = "deleting" /\ i \in current[p].delete
        /\ files' = [files EXCEPT ![i] = "none"]
    BY <1>1, OnlyDeleteDeletes
  <2>2. PICK K \in SUBSET (current[p].had \cap current[p].keep) :
          /\ Cardinality(K) >= ask[p].n
          /\ \A k \in K :
               /\ meta[k].name \in ask[p].of
               /\ files[k] # "none" \/ k \in gone
               /\ \A j \in current[p].delete : meta[k].created >= meta[j].created
    BY <1>1, <2>1 DEF IInv, CleanersInv, KeepsNewest
  <2>3. current[p].keep \subseteq index /\ i \notin current[p].keep
    BY <1>1, <2>1 DEF IInv, CleanersInv, LockedAt
  <2>4. K \in SUBSET (Matched(ask[p]) \cap current[p].had) /\ i \notin K
    BY <2>2, <2>3 DEF Matched
  <2> QED
    BY <2>1, <2>2, <2>4
<1>2. IInv /\ [Next]_vars => [ \A p \in Cleaners : \A i \in deleted'[p] \ deleted[p] :
        ask[p].by = "keep" =>
          \E K \in SUBSET (Matched(ask[p]) \cap current[p].had) :
            /\ i \notin K /\ Cardinality(K) >= ask[p].n
            /\ \A k \in K : /\ meta[k].created >= meta[i].created
                            /\ files'[k] # "none" \/ k \in gone ]_vars
  BY <1>1
<1> QED
  BY <1>2, Inductive, PTL DEF Spec, NewestKept

(* What ends a reader: its own two steps, or an index that it cannot read.  *)
LEMMA ReaderEnds ==
  ASSUME IInv, [Next]_vars, NEW p \in Readers, result'[p] # result[p]
  PROVE  Find(p) \/ ReadFile(p) \/ (Unreadable(p) /\ torn)
<1>1. p \in Procs /\ p \notin Savers /\ p \notin Cleaners
  BY ConstantsOK DEF Procs
<1>2. result \in [Procs -> {"none", "success", "failed", "conflict", "missing", "notFound",
                            "corrupt"}]
  BY DEF IInv, TypeOK
<1>3. ASSUME NEW q, NEW verdict, End(q, verdict)
      PROVE  q = p
  BY <1>1, <1>2, <1>3 DEF End
<1>4. ASSUME NEW q \in Savers PROVE ~Save(q)
  <2>1. q # p
    BY <1>1, <1>4
  <2> QED
    BY <1>3, <2>1 DEF Save, Create, Fill, FillFails, AppendLine, AppendFails
<1>5. ASSUME NEW q \in Cleaners PROVE ~Clean(q)
  <2>1. q # p
    BY <1>1, <1>5
  <2>2. ~Preview(q) /\ ~Approve(q) /\ ~Apply(q)
    BY <1>3, <2>1 DEF Preview, Approve, Apply
  <2>3. ~Delete(q) /\ ~DeleteFails(q) /\ ~Truncate(q)
    BY <1>3, <2>1 DEF Delete, DeleteFails, Truncate
  <2>4. ~Rewrite(q) /\ ~RewriteFails(q) /\ ~Finish(q)
    BY <1>3, <2>1 DEF Rewrite, RewriteFails, Finish
  <2> QED
    BY <2>2, <2>3, <2>4 DEF Clean
<1>6. ASSUME NEW q \in Readers, Restore(q) PROVE Find(p) \/ ReadFile(p)
  <2>1. q = p
    BY <1>3, <1>6 DEF Restore, Find, ReadFile
  <2> QED
    BY <1>6, <2>1 DEF Restore
<1>7. ASSUME NEW q \in Procs PROVE ~LockTimesOut(q)
  <2>1. pc[p] \in {"start", "found", "done", "dead"}
    BY DEF IInv, PlacesInv
  <2> QED
    BY <1>1, <1>3, <2>1 DEF LockTimesOut
<1>8. ASSUME NEW q \in Procs, Unreadable(q) PROVE Unreadable(p) /\ torn
  BY <1>3, <1>8 DEF Unreadable
<1>9. ASSUME NEW q \in Procs PROVE ~Crash(q)
  BY DEF Crash
<1>10. (\A i \in Ids : ~Vanish(i)) /\ ~Tick /\ ~UNCHANGED vars
  BY DEF Vanish, Tick, vars
<1> QED
  BY <1>4, <1>5, <1>6, <1>7, <1>8, <1>9, <1>10 DEF Next

(* MissedForAReason holds: a rollback gets the whole backup it asks for, or *)
(* the backup was deleted or taken, the index was broken, or it is rewritten*)
(* at that moment (List and readIndex in internal/backup/backup.go).        *)
THEOREM ReadersAreServed == Spec => MissedForAReason
<1>1. ASSUME IInv, [Next]_vars, NEW p \in Readers, result[p] = "none",
             result'[p] \notin {"none", "success"}
      PROVE  /\ result'[p] # "corrupt"
             /\ \/ mine'[p] \in gone \cup Cleaned
                \/ broken
                \/ \E q \in Cleaners : pc[q] = "rewriting" /\ mine'[p] \in current[q].keep
  <2>1. Find(p) \/ ReadFile(p) \/ (Unreadable(p) /\ torn)
    BY <1>1, ReaderEnds
  <2>2. /\ p \in Procs
        /\ mine \in [Procs -> Ids \cup {NoId}]
        /\ result \in [Procs -> {"none", "success", "failed", "conflict", "missing",
                                 "notFound", "corrupt"}]
        /\ files \in [Ids -> {"none", "partial", "whole"}]
        /\ saved \subseteq Ids
    BY <1>1 DEF IInv, TypeOK, Procs
  <2>3. \A i \in saved : files[i] = "whole" \/ (files[i] = "none" /\ i \in gone \cup Cleaned)
    BY <1>1 DEF IInv, FilesInv
  <2>4. CASE Find(p)
    <3>1. PICK i \in saved :
            /\ mine' = [mine EXCEPT ![p] = i]
            /\ IF i \in index /\ files[i] # "none"
               THEN UNCHANGED result
               ELSE End(p, IF i \in index THEN "missing" ELSE "notFound")
      BY <2>4 DEF Find
    <3>2. mine'[p] = i /\ ~(i \in index /\ files[i] # "none")
      BY <1>1, <2>2, <3>1
    <3>3. result'[p] # "corrupt"
      BY <2>2, <3>1, <3>2 DEF End
    <3>4. CASE i \in index
      BY <2>3, <3>2, <3>3, <3>4
    <3>5. CASE i \notin index
      BY <1>1, <3>2, <3>3, <3>5 DEF IInv, ListedInv
    <3> QED
      BY <3>4, <3>5
  <2>5. CASE ReadFile(p)
    <3>1. mine[p] \in saved /\ mine' = mine
      BY <1>1, <2>5 DEF ReadFile, IInv, ReadersInv
    <3>2. CASE files[mine[p]] = "whole"
      <4>1. result'[p] = "success"
        BY <2>2, <2>5, <3>2 DEF ReadFile, End
      <4> QED
        BY <1>1, <4>1
    <3>3. CASE files[mine[p]] = "none" /\ mine[p] \in gone \cup Cleaned
      <4>1. result'[p] = "missing"
        BY <2>2, <2>5, <3>3 DEF ReadFile, End
      <4> QED
        BY <3>1, <3>3, <4>1
    <3> QED
      BY <2>3, <3>1, <3>2, <3>3
  <2>6. CASE Unreadable(p) /\ torn
    <3>1. broken
      BY <1>1, <2>6 DEF IInv, FilesInv
    <3>2. result'[p] = "failed"
      BY <2>2, <2>6 DEF Unreadable, End
    <3> QED
      BY <3>1, <3>2
  <2> QED
    BY <2>1, <2>4, <2>5, <2>6
<1>2. IInv /\ [Next]_vars => [ \A p \in Readers :
        result[p] = "none" /\ result'[p] \notin {"none", "success"} =>
          /\ result'[p] # "corrupt"
          /\ \/ mine'[p] \in gone \cup Cleaned
             \/ broken
             \/ \E q \in Cleaners : pc[q] = "rewriting" /\ mine'[p] \in current[q].keep ]_vars
  BY <1>1
<1> QED
  BY <1>2, Inductive, PTL DEF Spec, MissedForAReason
=============================================================================
