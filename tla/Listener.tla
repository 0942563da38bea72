------------------------------- MODULE Listener -------------------------------
(***************************************************************************)
(* config listen (cmd/config.go) over the Watch of each backend that has   *)
(* one: internal/backend/etcd, consul, k8s and nacos.                      *)
(*                                                                         *)
(* The listener polls: every poll is told of a change, of no change, or    *)
(* fails.  A change is an event and moves the revision that the next poll  *)
(* starts from, no change ends the command, and a failure is waited out,   *)
(* twice as long each time, until too many have come in a row.             *)
(*                                                                         *)
(* Modelling decisions:                                                    *)
(*  - log holds what the watched key has been, one entry for each revision *)
(*    that the backend knows it by; writing the same content again, or     *)
(*    another data key of the same Kubernetes object, is an entry too;     *)
(*  - a revision is a position in the log.  Nacos knows the MD5 of the     *)
(*    content only, so there two revisions are told apart by what they     *)
(*    hold;                                                                *)
(*  - times are in seconds.  The one long poll whose end and the user's    *)
(*    signal come together is taken to have been ended by the signal;      *)
(*  - the records around the command are the subject of MutationAudit.     *)
(***************************************************************************)
EXTENDS Integers, Sequences

CONSTANTS
  Contents,    \* what the key may hold
  Absent,      \* the key is not there
  MaxEvents,   \* --max-events
  AbortAfter,  \* listenAbortAfter, 20 in the code
  MaxLog       \* bound: the key changes until the log is this long

ASSUME ConstantsOK ==
  /\ Absent \notin Contents
  /\ MaxEvents \in Nat \ {0}
  /\ AbortAfter \in Nat \ {0}
  /\ MaxLog \in Nat \ {0}

VARIABLES
  backend,   \* which backend the context names
  log,       \* what the key has been
  canceled,  \* the process has been told to stop
  pc,        \* where the listener is
  known,     \* the revision it knows
  events,    \* the revisions it has collected
  errors,    \* consecutiveErrors
  backoff,   \* how long it waits after the next failure
  streak,    \* history: the polls that have failed since the last that did not
  began,     \* history: the newest revision when the command asked for it
  result     \* how it ended

vars == <<backend, log, canceled, pc, known, events, errors, backoff, streak,
          began, result>>
world == <<backend, log, canceled>>

Backends == {"etcd", "consul", "k8s", "nacos"}
Results == {"none", "ok", "canceled", "auth", "aborted", "failed"}

listenBackoffStart == 2
listenBackoffMax == 60

Newest == Len(log)

(* The revision r is not the one that the backend would now report.         *)
Behind(r) == IF backend = "nacos" THEN log[r] # log[Newest] ELSE r < Newest

Init ==
  /\ backend \in Backends
  /\ \E v \in Contents \cup {Absent} : log = <<v>>
  /\ canceled = FALSE
  /\ pc = "start"
  /\ known = 0
  /\ events = << >>
  /\ errors = 0
  /\ backoff = listenBackoffStart
  /\ streak = 0
  /\ began = 0
  /\ result = "none"

-----------------------------------------------------------------------------
(* The other processes, and the user.                                       *)

Write(v) ==
  /\ Newest < MaxLog
  /\ v = Absent /\ log[Newest] = Absent => backend \in {"consul", "k8s"}
  /\ log' = Append(log, v)
  /\ UNCHANGED <<backend, canceled, pc, known, events, errors, backoff, streak,
                 began, result>>

Cancel ==
  /\ pc # "done" /\ ~canceled
  /\ canceled' = TRUE
  /\ UNCHANGED <<backend, log, pc, known, events, errors, backoff, streak, began,
                 result>>

-----------------------------------------------------------------------------
(* The listener.                                                            *)

Stop(why) ==
  /\ pc' = "done"
  /\ result' = why

(* A poll that did not fail, or whose deadline passed.                      *)
Reset ==
  /\ errors' = 0
  /\ backoff' = listenBackoffStart
  /\ streak' = 0

(* CurrentRevision: a key that is not there is an error.                    *)
Begin ==
  /\ pc = "start"
  /\ IF log[Newest] = Absent
     THEN Stop("failed") /\ known' = known
     ELSE pc' = "poll" /\ result' = result /\ known' = Newest
  /\ began' = Newest
  /\ UNCHANGED <<world, events, errors, backoff, streak>>

BeginFails ==
  /\ pc = "start"
  /\ Stop("failed")
  /\ UNCHANGED <<world, began, known, events, errors, backoff, streak>>

(* A change: the event is collected and the next poll starts after it.      *)
Collect(r) ==
  /\ events' = Append(events, r)
  /\ known' = r
  /\ Reset
  /\ IF Len(events) + 1 < MaxEvents
     THEN pc' = "poll" /\ result' = result
     ELSE Stop("ok")
  /\ UNCHANGED <<world, began>>

(* etcd sends the changes after the known revision in order, any number at  *)
(* a time; Kubernetes sends them one by one; Consul answers with what is.   *)
Sendable ==
  CASE backend = "etcd"   -> known + 1..Newest
    [] backend = "k8s"    -> {known + 1} \cap 1..Newest
    [] backend = "consul" -> {Newest} \ {known}
    [] OTHER              -> {}

Notify(r) == pc = "poll" /\ r \in Sendable /\ Collect(r)

(* Nacos says only that the MD5 differs: the content is read after that.    *)
Notice ==
  /\ pc = "poll" /\ backend = "nacos" /\ Behind(known)
  /\ pc' = "fetch"
  /\ UNCHANGED <<world, began, known, events, errors, backoff, streak, result>>

Fetch == pc = "fetch" /\ log[Newest] # Absent /\ Collect(Newest)

(* The long poll ends without a change, which ends the command.             *)
Unchanged ==
  /\ pc = "poll" /\ ~canceled
  /\ backend \in {"consul", "nacos"} => ~Behind(known)
  /\ Stop("ok")
  /\ Reset
  /\ UNCHANGED <<world, began, known, events>>

(* etcd and Kubernetes: a watch whose context is done is told of no change. *)
Interrupted ==
  /\ pc = "poll" /\ canceled
  /\ backend \in {"etcd", "k8s"}
  /\ Stop("ok")
  /\ Reset
  /\ UNCHANGED <<world, began, known, events>>

(* A fault: the signal is taken for the end of the long poll.               *)
GiveUpPolling ==
  /\ pc \in {"poll", "fetch", "wait"} /\ canceled
  /\ pc' = "poll"
  /\ Reset
  /\ UNCHANGED <<world, began, known, events, result>>

(* handleListenPollError, when the command's own context is done.           *)
GiveUp ==
  /\ pc \in {"poll", "fetch", "wait"} /\ canceled
  /\ Stop("canceled")
  /\ UNCHANGED <<world, began, known, events, errors, backoff, streak>>

(* Faults: the failures before it go on counting; it ends the command.      *)
ExpireCounting ==
  /\ pc \in {"poll", "fetch"} /\ ~canceled
  /\ backend # "etcd"
  /\ pc' = "poll"
  /\ streak' = 0
  /\ UNCHANGED <<world, began, known, events, errors, backoff, result>>

ExpireEnding ==
  /\ pc \in {"poll", "fetch"} /\ ~canceled
  /\ backend # "etcd"
  /\ Stop("ok")
  /\ streak' = 0
  /\ UNCHANGED <<world, began, known, events, errors, backoff>>

(* The poll's own deadline passes before the server has answered.  etcd's   *)
(* Watch has taken that for no change.                                      *)
Expire ==
  /\ pc \in {"poll", "fetch"} /\ ~canceled
  /\ backend # "etcd"
  /\ pc' = "poll"
  /\ Reset
  /\ UNCHANGED <<world, began, known, events, result>>

(* Only the Nacos client tells a login that is refused from other errors.   *)
AuthFails ==
  /\ pc \in {"poll", "fetch"} /\ ~canceled
  /\ backend = "nacos"
  /\ Stop("auth")
  /\ UNCHANGED <<world, began, known, events, errors, backoff, streak>>

(* Any other error, a key that Nacos no longer has included.                *)
Fail ==
  /\ pc \in {"poll", "fetch"} /\ ~canceled
  /\ errors' = errors + 1
  /\ streak' = streak + 1
  /\ IF errors + 1 >= AbortAfter
     THEN Stop("aborted")
     ELSE pc' = "wait" /\ result' = result
  /\ UNCHANGED <<world, began, known, events, backoff>>

Lesser(m, n) == IF m < n THEN m ELSE n

(* A fault: the next poll starts from what is there by then.                *)
WaitRefreshing ==
  /\ pc = "wait"
  /\ backoff' = Lesser(2 * backoff, listenBackoffMax)
  /\ pc' = "poll"
  /\ known' = Newest
  /\ UNCHANGED <<world, began, events, errors, streak, result>>

Wait ==
  /\ pc = "wait"
  /\ backoff' = Lesser(2 * backoff, listenBackoffMax)
  /\ pc' = "poll"
  /\ UNCHANGED <<world, began, known, events, errors, streak, result>>

Listens ==
  \/ Begin \/ BeginFails
  \/ \E r \in 1..Newest : Notify(r)
  \/ Notice \/ Fetch
  \/ Unchanged \/ Interrupted \/ GiveUp
  \/ Expire \/ AuthFails \/ Fail \/ Wait

Next ==
  \/ Listens
  \/ Cancel
  \/ \E v \in Contents \cup {Absent} : Write(v)

Spec == Init /\ [][Next]_vars

(* Every poll has a deadline and every wait a timer, so the listener moves. *)
FairSpec == Spec /\ WF_vars(Listens)

-----------------------------------------------------------------------------
(* What holds of it.                                                        *)

TypeOK ==
  /\ backend \in Backends
  /\ log \in Seq(Contents \cup {Absent}) /\ log # << >>
  /\ canceled \in BOOLEAN
  /\ pc \in {"start", "poll", "fetch", "wait", "done"}
  /\ known \in 0..Newest
  /\ events \in Seq(1..Newest)
  /\ errors \in 0..AbortAfter
  /\ backoff \in listenBackoffStart..listenBackoffMax
  /\ streak \in Nat
  /\ began \in 0..Newest
  /\ result \in Results

(* How long the wait after n failures and one more is: 2s, doubled up to    *)
(* 60s.                                                                     *)
BackoffAfter(n) ==
  IF n < 5 THEN <<2, 4, 8, 16, 32>>[n + 1] ELSE listenBackoffMax

(* The count and the wait are those of the failures since the last poll     *)
(* that did not fail, whatever came before (cmd/config.go:499 and 548).     *)
CountsTheStreak ==
  /\ errors = streak
  /\ pc = "poll" => backoff = BackoffAfter(errors)
  /\ pc = "wait" => errors > 0 /\ backoff = BackoffAfter(errors - 1)
  /\ pc = "fetch" => backoff = BackoffAfter(errors)
  /\ pc \in {"poll", "fetch", "wait"} => errors < AbortAfter

(* The listener gives up for failures exactly when AbortAfter polls have    *)
(* failed in a row: never after a poll in between was answered or only ran  *)
(* into its deadline (cmd/config.go:554).                                   *)
AbortsOnlyAfterAStreak == result = "aborted" <=> streak >= AbortAfter

(* The revision that the i-th event is a change of.                         *)
Since(i) == IF i = 1 THEN began ELSE events[i - 1]

(* The events are changes the key really went through, the first later than *)
(* what was there when the command began and each later than the one        *)
(* before, however long the listener was waiting in between.  On Kubernetes *)
(* no change is left out, not even before the first event; on Nacos the     *)
(* content had become another one.                                          *)
EventsFollowTheLog ==
  \A i \in 1..Len(events) :
    /\ Since(i) \in 1..Newest
    /\ events[i] \in Since(i) + 1..Newest
    /\ backend = "k8s" => events[i] = Since(i) + 1
    /\ backend = "nacos" =>
         \E j \in Since(i) + 1..events[i] : log[j] # log[Since(i)]

Stage ==
  /\ pc = "start" => /\ events = << >> /\ known = 0 /\ began = 0
                     /\ errors = 0 /\ backoff = listenBackoffStart
  /\ pc \in {"poll", "fetch", "wait"} =>
       /\ known > 0 /\ known = Since(Len(events) + 1)
       /\ Len(events) < MaxEvents
  /\ pc = "fetch" => /\ backend = "nacos" /\ known < Newest
                     /\ \E j \in known + 1..Newest : log[j] # log[known]
  /\ pc = "done" <=> result # "none"
  /\ Len(events) <= MaxEvents

IInv == TypeOK /\ CountsTheStreak /\ AbortsOnlyAfterAStreak /\ EventsFollowTheLog /\ Stage

(* On Consul and Nacos a listener that was not stopped reports success with *)
(* fewer events than asked for only when it is up to date: a failure, or a  *)
(* server that stays silent, is never passed off as "no change".            *)
EndsUpToDate ==
  [][ pc # "done" /\ pc' = "done" /\ result' = "ok" /\ ~canceled
      /\ Len(events') < MaxEvents /\ backend \in {"consul", "nacos"} =>
        ~Behind(known) ]_vars

(* A signal ends the command, wherever it is.                               *)
CancelEnds == canceled ~> pc = "done"

(* How many steps the listener can still take once it was canceled.         *)
StepsLeft == [start |-> 3, wait |-> 3, poll |-> 2, fetch |-> 1, done |-> 0]

Effort == IF pc = "done" THEN 0 ELSE 3 * (MaxEvents - Len(events)) + StepsLeft[pc]

(* After the signal every step of the listener brings its end nearer: no    *)
(* poll, change or wait makes it start over (handleListenPollError).        *)
CancelRunsDown == [][ canceled /\ Listens => Effort' < Effort ]_vars

(* On Consul and Nacos the sentence below is true: a canceled listener      *)
(* reports success only with all the events that it was asked for.          *)
CanceledIsIncomplete ==
  canceled /\ result = "ok" /\ backend \in {"consul", "nacos"} => Len(events) = MaxEvents

(* README.md:179: "An externally canceled config listen exits nonzero;      *)
(* automation must treat cancellation as incomplete rather than successful  *)
(* completion."                                                             *)
CanceledExitsNonzero == canceled /\ result = "ok" => Len(events) = MaxEvents
===============================================================================
