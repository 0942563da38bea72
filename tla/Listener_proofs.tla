---------------------------- MODULE Listener_proofs ----------------------------
(***************************************************************************)
(* What holds of Listener for any contents, limits and bounds.             *)
(***************************************************************************)
EXTENDS Listener, SequenceTheorems, TLAPS

(* The log only grows, so a revision stays one and stays what it was.       *)
LEMMA LogGrows ==
  ASSUME TypeOK, [Next]_vars
  PROVE  /\ Newest \in Nat /\ Newest' \in Nat /\ Newest <= Newest'
         /\ Newest > 0 /\ Newest' > 0
         /\ backend' = backend
         /\ log' \in Seq(Contents \cup {Absent})
         /\ \A j \in 1..Newest : log'[j] = log[j]
<1>1. CASE log' = log /\ backend' = backend
  BY <1>1 DEF TypeOK, Newest
<1>2. CASE \E v \in Contents \cup {Absent} : Write(v)
  <2>1. PICK v \in Contents \cup {Absent} : Write(v)
    BY <1>2
  <2> QED  BY <2>1 DEF Write, TypeOK, Newest
<1> QED  BY <1>1, <1>2 DEF Next, Listens, vars, world, Begin, BeginFails, Notify,
             Notice, Fetch, Collect, Unchanged, Interrupted, GiveUp, Expire,
             AuthFails, Fail, Wait, Cancel

(* Steps of the others leave the listener alone.                            *)
LEMMA OthersStep ==
  ASSUME IInv, [Next]_vars,
         <<pc, known, events, errors, backoff, streak, began, result>>' =
           <<pc, known, events, errors, backoff, streak, began, result>>,
         canceled' \in BOOLEAN
  PROVE  IInv'
<1>1. /\ Newest \in Nat /\ Newest' \in Nat /\ Newest <= Newest'
      /\ Newest > 0 /\ backend' = backend
      /\ log' \in Seq(Contents \cup {Absent}) /\ log' # << >>
      /\ \A j \in 1..Newest : log'[j] = log[j]
  BY LogGrows DEF IInv, TypeOK, Newest
<1>2. TypeOK'
  <2>1. events' \in Seq(1..Newest')
    <3>1. events \in Seq(1..Newest) /\ 1..Newest \subseteq 1..Newest'
      BY <1>1 DEF IInv, TypeOK
    <3> QED  BY <3>1, SeqMonotonic
  <2> QED  BY <1>1, <2>1 DEF IInv, TypeOK
<1>3. CountsTheStreak' /\ AbortsOnlyAfterAStreak'
  BY DEF IInv, CountsTheStreak, AbortsOnlyAfterAStreak, BackoffAfter
<1>4. EventsFollowTheLog'
  <2> SUFFICES ASSUME NEW i \in 1..Len(events)
               PROVE  /\ Since(i) \in 1..Newest'
                      /\ events[i] \in Since(i) + 1..Newest'
                      /\ backend = "k8s" => events[i] = Since(i) + 1
                      /\ backend = "nacos" =>
                           \E j \in Since(i) + 1..events[i] : log'[j] # log'[Since(i)]
    BY <1>1 DEF EventsFollowTheLog, Since
  <2>1. /\ Since(i) \in 1..Newest
        /\ events[i] \in Since(i) + 1..Newest
        /\ backend = "k8s" => events[i] = Since(i) + 1
        /\ backend = "nacos" =>
             \E j \in Since(i) + 1..events[i] : log[j] # log[Since(i)]
    BY DEF IInv, EventsFollowTheLog
  <2>2. \A j \in Since(i) + 1..events[i] :
          j \in 1..Newest /\ log'[j] = log[j] /\ log'[Since(i)] = log[Since(i)]
    BY <1>1, <2>1
  <2> QED  BY <1>1, <2>1, <2>2
<1>5. Stage'
  <2>1. Since(Len(events) + 1)' = Since(Len(events) + 1)
    BY DEF Since
  <2>2. pc = "fetch" => \E j \in known + 1..Newest' : log'[j] # log'[known]
    <3>1. pc = "fetch" => /\ known \in 1..Newest
                          /\ \E j \in known + 1..Newest : log[j] # log[known]
      BY <1>1 DEF IInv, Stage, TypeOK
    <3>2. \A j \in known + 1..Newest : known \in 1..Newest =>
            j \in known + 1..Newest' /\ j \in 1..Newest
      BY <1>1
    <3> QED  BY <1>1, <3>1, <3>2
  <2> QED  BY <1>1, <2>1, <2>2 DEF IInv, Stage, TypeOK
<1> QED  BY <1>2, <1>3, <1>4, <1>5 DEF IInv

(* The listener's own steps leave the rest of the world alone.              *)
LEMMA WorldStays ==
  ASSUME UNCHANGED world
  PROVE  Newest' = Newest /\ log' = log /\ backend' = backend /\ canceled' = canceled
BY DEF world, Newest

(* Collecting an event later than what is known.                            *)
LEMMA CollectStep ==
  ASSUME ConstantsOK, IInv, NEW r \in 1..Newest, Collect(r), pc \in {"poll", "fetch"},
         known < r, backend = "k8s" => r = known + 1,
         backend = "nacos" => \E j \in known + 1..r : log[j] # log[known]
  PROVE  IInv'
<1>1. Newest' = Newest /\ log' = log /\ backend' = backend /\ canceled' = canceled
  BY WorldStays DEF Collect
<1>2. Newest \in Nat /\ known \in 1..Newest /\ events \in Seq(1..Newest)
      /\ known = Since(Len(events) + 1) /\ began' = began /\ began \in 0..Newest
      /\ Len(events) < MaxEvents /\ result = "none" /\ errors \in Nat
  BY DEF IInv, TypeOK, Stage, Newest, Collect
<1>3. /\ events' \in Seq(1..Newest)
      /\ Len(events') = Len(events) + 1
      /\ events'[Len(events) + 1] = r
      /\ \A i \in 1..Len(events) : events'[i] = events[i]
  BY <1>2 DEF Collect
<1>4. TypeOK'
  BY <1>1, <1>2, <1>3 DEF Collect, Reset, Stop, IInv, TypeOK, ConstantsOK, Results,
       listenBackoffStart, listenBackoffMax
<1>5. CountsTheStreak' /\ AbortsOnlyAfterAStreak'
  BY <1>2 DEF Collect, Reset, Stop, CountsTheStreak, AbortsOnlyAfterAStreak,
       BackoffAfter, ConstantsOK, listenBackoffStart
<1>6. EventsFollowTheLog'
  <2> SUFFICES ASSUME NEW i \in 1..Len(events')
               PROVE  /\ Since(i)' \in 1..Newest
                      /\ events'[i] \in Since(i)' + 1..Newest
                      /\ backend = "k8s" => events'[i] = Since(i)' + 1
                      /\ backend = "nacos" =>
                           \E j \in Since(i)' + 1..events'[i] : log[j] # log[Since(i)']
    BY <1>1 DEF EventsFollowTheLog
  <2>1. CASE i \in 1..Len(events)
    <3>1. i > 1 => i - 1 \in 1..Len(events)
      BY <1>2, <2>1
    <3>2. i # 1 => events'[i - 1] = events[i - 1]
      BY <1>3, <2>1, <3>1
    <3>3. Since(i)' = Since(i)
      BY <1>2, <3>2 DEF Since
    <3> QED  BY <1>3, <2>1, <3>3 DEF IInv, EventsFollowTheLog
  <2>2. CASE i = Len(events) + 1
    <3>1. i # 1 => events'[i - 1] = events[i - 1]
      BY <1>2, <1>3, <2>2
    <3>2. Since(i)' = known
      BY <1>2, <2>2, <3>1 DEF Since
    <3>3. events'[i] = r
      BY <1>3, <2>2
    <3>4. known \in 1..Newest /\ r \in known + 1..Newest
      BY <1>2
    <3>5. backend = "nacos" => \E j \in known + 1..r : log[j] # log[known]
      OBVIOUS
    <3> QED  BY <3>2, <3>3, <3>4, <3>5
  <2> QED  BY <1>2, <1>3, <2>1, <2>2
<1>7. Stage'
  <2>1. events' # << >> /\ known' = r
    BY <1>3, <1>2 DEF Collect
  <2>2. Len(events') + 1 # 1 /\ (Len(events') + 1) - 1 = Len(events) + 1
    BY <1>2, <1>3
  <2> QED  BY <1>1, <1>2, <1>3, <2>1, <2>2 DEF Collect, Stop, Stage, ConstantsOK, Since
<1> QED  BY <1>4, <1>5, <1>6, <1>7 DEF IInv

(* The listener's steps that collect nothing.                               *)
LEMMA QuietStep ==
  ASSUME ConstantsOK, IInv, UNCHANGED <<world, events>>,
         \/ Begin \/ BeginFails \/ Notice \/ Unchanged \/ Interrupted
         \/ GiveUp \/ Expire \/ AuthFails \/ Fail \/ Wait
  PROVE  IInv'
<1>1. Newest' = Newest /\ log' = log /\ backend' = backend /\ canceled' = canceled
  BY WorldStays
<1>2. /\ Newest \in Nat /\ Newest > 0 /\ known \in Nat /\ errors \in Nat
      /\ streak = errors /\ AbortAfter \in Nat /\ AbortAfter > 0
  BY DEF IInv, TypeOK, Newest, ConstantsOK, CountsTheStreak
<1>3. /\ events' = events /\ Len(events) \in Nat /\ began \in 0..Newest
      /\ ~Begin => began' = began /\ Since(Len(events) + 1)' = Since(Len(events) + 1)
  <2>1. ~Begin => began' = began
    BY DEF BeginFails, Notice, Unchanged, Interrupted, GiveUp, Expire, AuthFails, Fail, Wait
  <2> QED  BY <2>1 DEF IInv, TypeOK, Since
<1>4. EventsFollowTheLog'
  <2>1. CASE Begin
    <3>1. Len(events') = 0
      BY <2>1, <1>3 DEF Begin, IInv, Stage
    <3> QED  BY <3>1 DEF EventsFollowTheLog
  <2>2. CASE ~Begin
    <3>1. \A i \in 1..Len(events) : Since(i)' = Since(i)
      BY <1>3, <2>2 DEF Since
    <3> QED  BY <1>1, <1>3, <3>1 DEF IInv, EventsFollowTheLog
  <2> QED  BY <2>1, <2>2
<1> DEFINE Others == TypeOK' /\ CountsTheStreak' /\ AbortsOnlyAfterAStreak' /\ Stage'
<1>5. ASSUME Begin \/ BeginFails PROVE Others
  <2>1. /\ events = << >> /\ Len(events) = 0 /\ errors = 0 /\ backoff = 2
        /\ errors' = 0 /\ backoff' = 2 /\ streak' = 0 /\ BackoffAfter(0) = 2
        /\ events' = events
    BY <1>2, <1>5 DEF Begin, BeginFails, IInv, Stage, listenBackoffStart, BackoffAfter
  <2>2. \/ pc' = "done" /\ result' = "failed" /\ known' = known
        \/ /\ pc' = "poll" /\ result' = result /\ known' = Newest
           /\ began' = Newest
    BY <1>5 DEF Begin, BeginFails, Stop
  <2>3. result = "none" /\ pc = "start"
    BY <1>5 DEF Begin, BeginFails, IInv, Stage
  <2>7. began' \in 0..Newest
    BY <1>2, <1>3, <1>5 DEF Begin, BeginFails
  <2>4. TypeOK'
    BY <1>1, <1>2, <2>1, <2>2, <2>7 DEF IInv, TypeOK, Results
  <2>5. CountsTheStreak' /\ AbortsOnlyAfterAStreak'
    BY <1>2, <2>1, <2>2, <2>3 DEF CountsTheStreak, AbortsOnlyAfterAStreak
  <2>6. Stage'
    BY <1>1, <1>2, <2>1, <2>2, <2>3 DEF Stage, ConstantsOK, Since
  <2> QED  BY <2>4, <2>5, <2>6
<1>6. ASSUME Notice PROVE Others
  <2>1. known < Newest /\ \E j \in known + 1..Newest : log[j] # log[known]
    <3>1. known \in 0..Newest /\ log[known] # log[Newest] /\ known # Newest
      BY <1>6 DEF Notice, Behind, IInv, TypeOK, Newest
    <3> QED  BY <1>2, <3>1
  <2> QED  BY <1>1, <1>2, <1>3, <1>6, <2>1 DEF Since, Notice, IInv, TypeOK, CountsTheStreak,
               AbortsOnlyAfterAStreak, Stage, BackoffAfter
<1>7. ASSUME Unchanged \/ Interrupted \/ Expire PROVE Others
  <2>1. Reset /\ known' = known /\ pc \in {"poll", "fetch"}
    BY <1>7 DEF Unchanged, Interrupted, Expire
  <2>2. errors' = 0 /\ streak' = 0 /\ backoff' = 2 /\ BackoffAfter(0) = 2
    BY <2>1 DEF Reset, listenBackoffStart, BackoffAfter
  <2>3. \/ pc' = "done" /\ result' = "ok"
        \/ pc' = "poll" /\ result' = result
    BY <1>7 DEF Unchanged, Interrupted, Expire, Stop
  <2>7. began' = began /\ Since(Len(events) + 1)' = Since(Len(events) + 1)
    BY <1>3, <2>1, <1>7 DEF Begin, Unchanged, Interrupted, Expire, Since
  <2>4. TypeOK'
    BY <1>1, <1>3, <1>7, <2>1, <2>2, <2>3, <2>7 DEF IInv, TypeOK, Results, listenBackoffStart,
         listenBackoffMax, ConstantsOK
  <2>5. CountsTheStreak' /\ AbortsOnlyAfterAStreak'
    BY <1>2, <2>1, <2>2, <2>3 DEF IInv, Stage, CountsTheStreak, AbortsOnlyAfterAStreak
  <2>6. Stage'
    BY <1>1, <1>3, <2>1, <2>3, <2>7 DEF IInv, Stage
  <2> QED  BY <2>4, <2>5, <2>6
<1>8. ASSUME GiveUp \/ AuthFails PROVE Others
  BY <1>1, <1>2, <1>3, <1>8 DEF GiveUp, AuthFails, Stop, IInv, TypeOK, CountsTheStreak,
       AbortsOnlyAfterAStreak, Stage, BackoffAfter, Results
<1>9. ASSUME Fail PROVE Others
  BY <1>1, <1>2, <1>3, <1>9 DEF Since, Fail, Stop, IInv, TypeOK, CountsTheStreak,
       AbortsOnlyAfterAStreak, Stage, BackoffAfter, Results
<1>10. ASSUME Wait PROVE Others
  <2>1. backoff' = BackoffAfter(errors) /\ backoff' \in 2..60
    <3>1. /\ backoff = BackoffAfter(errors - 1) /\ errors > 0
          /\ backoff' = Lesser(2 * backoff, 60)
      BY <1>10 DEF Wait, IInv, CountsTheStreak, listenBackoffMax
    <3>2. CASE errors \in 1..5
      <4>1. errors = 1 \/ errors = 2 \/ errors = 3 \/ errors = 4 \/ errors = 5
        BY <3>2
      <4> QED  BY <3>1, <4>1 DEF BackoffAfter, Lesser, listenBackoffMax
    <3>3. CASE errors > 5
      BY <1>2, <3>1, <3>3 DEF BackoffAfter, Lesser, listenBackoffMax
    <3> QED  BY <1>2, <3>1, <3>2, <3>3
  <2> QED  BY <1>1, <1>2, <1>3, <1>10, <2>1 DEF Since, Wait, IInv, TypeOK, CountsTheStreak,
               AbortsOnlyAfterAStreak, Stage, listenBackoffStart, listenBackoffMax
<1> QED  BY <1>4, <1>5, <1>6, <1>7, <1>8, <1>9, <1>10 DEF IInv

LEMMA Begins == ASSUME ConstantsOK, Init PROVE IInv
<1>1. Len(log) = 1 /\ log \in Seq(Contents \cup {Absent}) /\ log # << >>
  BY DEF Init
<1>2. TypeOK
  <2>1. events \in Seq(1..Newest)
    BY EmptySeq DEF Init
  <2>2. /\ known \in 0..Newest /\ errors \in 0..AbortAfter
        /\ backoff \in listenBackoffStart..listenBackoffMax /\ streak \in Nat
        /\ began \in 0..Newest
    BY <1>1 DEF Init, ConstantsOK, Newest, listenBackoffStart, listenBackoffMax
  <2>3. /\ backend \in Backends /\ canceled \in BOOLEAN /\ result \in Results
        /\ pc \in {"start", "poll", "fetch", "wait", "done"}
    BY DEF Init, Results
  <2> QED  BY <1>1, <2>1, <2>2, <2>3 DEF TypeOK
<1>3. CountsTheStreak /\ AbortsOnlyAfterAStreak /\ EventsFollowTheLog /\ Stage
  BY <1>1 DEF Init, CountsTheStreak, AbortsOnlyAfterAStreak, EventsFollowTheLog, Stage,
       BackoffAfter, ConstantsOK
<1> QED  BY <1>2, <1>3 DEF IInv

LEMMA Steps == ASSUME ConstantsOK, IInv, [Next]_vars PROVE IInv'
<1>1. CASE UNCHANGED vars
  BY <1>1, OthersStep DEF vars, IInv, TypeOK
<1>2. CASE Cancel
  BY <1>2, OthersStep DEF Cancel
<1>3. ASSUME NEW v \in Contents \cup {Absent}, Write(v) PROVE IInv'
  BY <1>3, OthersStep DEF Write, IInv, TypeOK
<1>4. ASSUME NEW r \in 1..Newest, Notify(r) PROVE IInv'
  <2>1. known < r /\ (backend = "k8s" => r = known + 1) /\ backend # "nacos"
    <3>1. known \in 0..Newest /\ Newest \in Nat /\ r \in Sendable
      BY <1>4 DEF Notify, IInv, TypeOK, Newest
    <3>2. backend \in Backends
      BY DEF IInv, TypeOK
    <3> QED  BY <3>1, <3>2 DEF Sendable, Backends
  <2> QED  BY <1>4, <2>1, CollectStep DEF Notify
<1>5. CASE Fetch
  <2>1. /\ Newest \in 1..Newest /\ known < Newest /\ backend = "nacos"
        /\ \E j \in known + 1..Newest : log[j] # log[known]
    BY <1>5 DEF Fetch, IInv, TypeOK, Stage, Newest
  <2> QED  BY <1>5, <2>1, CollectStep DEF Fetch
<1>6. CASE \/ Begin \/ BeginFails \/ Notice \/ Unchanged \/ Interrupted
           \/ GiveUp \/ Expire \/ AuthFails \/ Fail \/ Wait
  <2>1. UNCHANGED <<world, events>>
    BY <1>6 DEF Begin, BeginFails, Notice, Unchanged, Interrupted, GiveUp, Expire,
         AuthFails, Fail, Wait
  <2> QED  BY <1>6, <2>1, QuietStep
<1> QED  BY <1>1, <1>2, <1>3, <1>4, <1>5, <1>6 DEF Next, Listens

(* The inductive invariant: the count, the wait and the events agree with   *)
(* the polls that failed and with the log.                                  *)
THEOREM Inductive == ASSUME ConstantsOK PROVE Spec => []IInv
<1>1. Init => IInv  BY Begins
<1>2. IInv /\ [Next]_vars => IInv'  BY Steps
<1> QED  BY <1>1, <1>2, PTL DEF Spec

(* EventsFollowTheLog holds: every event is a change later than what the    *)
(* command began with and than the event before it; Kubernetes leaves out   *)
(* no change since the command began (internal/backend/k8s/k8s.go:248), and *)
(* Nacos had seen another content (internal/api/config.go).                 *)
THEOREM EventsAreReal == ASSUME ConstantsOK PROVE Spec => []EventsFollowTheLog
<1>1. IInv => EventsFollowTheLog  BY DEF IInv
<1> QED  BY <1>1, Inductive, PTL

(* Only a streak of AbortAfter failures makes the listener give up          *)
(* (cmd/config.go:554).                                                     *)
THEOREM AbortsHonestly == ASSUME ConstantsOK PROVE Spec => []AbortsOnlyAfterAStreak
<1>1. IInv => AbortsOnlyAfterAStreak  BY DEF IInv
<1> QED  BY <1>1, Inductive, PTL

(* On Consul and Nacos success with too few events means up to date         *)
(* (cmd/config.go:500).                                                     *)
THEOREM NoFalseCalm == ASSUME ConstantsOK PROVE Spec => EndsUpToDate
<1> DEFINE Calm == pc # "done" /\ pc' = "done" /\ result' = "ok" /\ ~canceled
                   /\ Len(events') < MaxEvents /\ backend \in {"consul", "nacos"}
                     => ~Behind(known)
<1>1. ASSUME IInv, [Next]_vars PROVE [Calm]_vars
  <2> SUFFICES ASSUME pc # "done", pc' = "done", result' = "ok", ~canceled,
                      Len(events') < MaxEvents, backend \in {"consul", "nacos"}
               PROVE  ~Behind(known)
    OBVIOUS
  <2>1. ASSUME NEW r, Collect(r) PROVE FALSE
    <3>1. events' = Append(events, r) /\ events \in Seq(1..Newest)
      BY <2>1 DEF Collect, IInv, TypeOK
    <3>2. Len(events') = Len(events) + 1 /\ Len(events) \in Nat
      BY <3>1
    <3> QED  BY <2>1, <3>2 DEF Collect, ConstantsOK
  <2>2. Unchanged
    BY <1>1, <2>1 DEF Next, Listens, vars, Begin, BeginFails, Notify, Notice, Fetch,
         Interrupted, GiveUp, Expire, AuthFails, Fail, Wait, Cancel, Write, Stop
  <2> QED  BY <2>2 DEF Unchanged
<1>2. IInv /\ [Next]_vars => [Calm]_vars
  BY <1>1
<1>3. Spec => [][Calm]_vars
  BY <1>2, Inductive, PTL DEF Spec
<1> QED  BY <1>3 DEF EndsUpToDate

(* What is left to do, a number; the end of it is the end of the command.   *)
LEMMA EffortIs ==
  ASSUME ConstantsOK, IInv
  PROVE  /\ Effort \in Nat
         /\ Len(events) \in 0..MaxEvents /\ MaxEvents \in Nat
         /\ pc # "done" => Effort = 3 * (MaxEvents - Len(events)) + StepsLeft[pc]
         /\ pc # "done" => StepsLeft[pc] \in 1..3
<1>1. events \in Seq(1..Newest) /\ Len(events) <= MaxEvents
  BY DEF IInv, TypeOK, Stage
<1>2. Len(events) \in 0..MaxEvents /\ MaxEvents \in Nat
  BY <1>1 DEF ConstantsOK
<1>3. pc # "done" => StepsLeft[pc] \in 1..3
  BY DEF IInv, TypeOK, StepsLeft
<1> QED  BY <1>2, <1>3 DEF Effort

(* The listener's steps once it was canceled.                               *)
LEMMA CanceledStep ==
  ASSUME ConstantsOK, IInv, canceled, Listens
  PROVE  Effort' < Effort
<1>1. pc # "done"
  BY DEF Listens, Begin, BeginFails, Notify, Notice, Fetch, Unchanged, Interrupted,
       GiveUp, Expire, AuthFails, Fail, Wait
<1> DEFINE Rest == MaxEvents - Len(events)
<1>2. Rest \in Nat /\ Effort = 3 * Rest + StepsLeft[pc] /\ StepsLeft[pc] \in 1..3
  BY <1>1, EffortIs
<1>3. ASSUME pc' = "done" PROVE Effort' < Effort
  BY <1>2, <1>3 DEF Effort
<1>4. ASSUME NEW r, Collect(r), pc \in {"poll", "fetch"}, pc' # "done"
      PROVE  Effort' < Effort
  <2>1. pc' = "poll" /\ events' = Append(events, r) /\ Len(events) + 1 < MaxEvents
    BY <1>4 DEF Collect, Stop
  <2>2. events \in Seq(1..Newest)
    BY DEF IInv, TypeOK
  <2>3. Len(events') = Len(events) + 1 /\ Len(events) \in Nat
    BY <2>1, <2>2
  <2>4. Effort' = 3 * (MaxEvents - Len(events')) + 2
    BY <2>1 DEF Effort, StepsLeft
  <2>5. Effort' = 3 * (Rest - 1) + 2
    BY <2>3, <2>4 DEF ConstantsOK
  <2>6. \A n \in Nat : \A s \in 1..3 : 3 * (n - 1) + 2 < 3 * n + s
    OBVIOUS
  <2> QED  BY <1>2, <2>5, <2>6
<1>5. ASSUME events' = events, pc' # "done", StepsLeft'[pc'] \in Nat,
             StepsLeft'[pc'] < StepsLeft[pc]
      PROVE  Effort' < Effort
  <2>1. Effort' = 3 * Rest + StepsLeft'[pc']
    BY <1>5 DEF Effort
  <2>2. \A n \in Nat : \A s, u \in Int : u < s => 3 * n + u < 3 * n + s
    OBVIOUS
  <2> QED  BY <1>2, <1>5, <2>1, <2>2
<1>6. CASE Begin \/ Notice \/ Wait
  <2>1. events' = events
    BY <1>6 DEF Begin, Notice, Wait
  <2>2. \/ pc' = "done"
        \/ StepsLeft'[pc'] \in Nat /\ StepsLeft'[pc'] < StepsLeft[pc]
    BY <1>6 DEF Begin, Notice, Wait, Stop, StepsLeft
  <2> QED  BY <1>3, <1>5, <2>1, <2>2
<1>7. CASE \E r \in 1..Newest : Notify(r)
  BY <1>3, <1>4, <1>7 DEF Notify
<1>8. CASE Fetch
  BY <1>3, <1>4, <1>8 DEF Fetch
<1>9. CASE BeginFails \/ Interrupted \/ GiveUp
  BY <1>3, <1>9 DEF BeginFails, Interrupted, GiveUp, Stop
<1>10. ~(Unchanged \/ Expire \/ AuthFails \/ Fail)
  BY DEF Unchanged, Expire, AuthFails, Fail
<1> QED  BY <1>6, <1>7, <1>8, <1>9, <1>10 DEF Listens

(* CancelRunsDown holds: after the signal every step of the listener brings *)
(* its end nearer, whatever the key and the server do meanwhile             *)
(* (handleListenPollError in cmd/config.go).  The end itself takes fairness. *)
THEOREM CanceledRunsOut ==
  ASSUME ConstantsOK
  PROVE  Spec => [](Effort \in Nat) /\ CancelRunsDown
<1> DEFINE Falls == canceled /\ Listens => Effort' < Effort
<1>1. IInv => [Falls]_vars
  BY CanceledStep
<1>2. IInv => Effort \in Nat
  BY EffortIs
<1>3. Spec => [][Falls]_vars /\ [](Effort \in Nat)
  BY <1>1, <1>2, Inductive, PTL
<1> QED  BY <1>3 DEF CancelRunsDown

(* CanceledIsIncomplete holds: on Consul and Nacos what README.md:179 says  *)
(* of a canceled listener is so, for any contents and limits.               *)
THEOREM NoFalseSuccess ==
  ASSUME ConstantsOK
  PROVE  Spec => []CanceledIsIncomplete
<1>1. Init => CanceledIsIncomplete
  BY DEF Init, CanceledIsIncomplete
<1>2. ASSUME IInv, CanceledIsIncomplete, [Next]_vars
      PROVE  CanceledIsIncomplete'
  <2> USE <1>2
  <2>1. ASSUME NEW r, Collect(r), pc \in {"poll", "fetch"}
        PROVE  CanceledIsIncomplete'
    <3>1. result = "none" /\ Len(events) < MaxEvents /\ events \in Seq(1..Newest)
      BY <2>1 DEF IInv, TypeOK, Stage
    <3>2. result' = "ok" => Len(events') = MaxEvents
      BY <2>1, <3>1 DEF Collect, Stop, ConstantsOK
    <3> QED  BY <3>2 DEF CanceledIsIncomplete
  <2>2. CASE \E r \in 1..Newest : Notify(r)
    BY <2>1, <2>2 DEF Notify
  <2>3. CASE Fetch
    BY <2>1, <2>3 DEF Fetch
  <2>4. CASE \/ Begin \/ BeginFails \/ Notice \/ GiveUp \/ Expire \/ AuthFails
             \/ Fail \/ Wait
    <3>1. pc # "done" /\ (result' = result \/ result' # "ok")
      BY <2>4 DEF Begin, BeginFails, Notice, GiveUp, Expire, AuthFails, Fail, Wait, Stop
    <3>2. result = "none"
      BY <3>1 DEF IInv, Stage
    <3> QED  BY <3>1, <3>2 DEF CanceledIsIncomplete
  <2>5. CASE Unchanged \/ Interrupted
    BY <2>5 DEF Unchanged, Interrupted, world, CanceledIsIncomplete
  <2>6. CASE Cancel
    BY <2>6 DEF Cancel, IInv, Stage, CanceledIsIncomplete
  <2>7. CASE (\E v \in Contents \cup {Absent} : Write(v)) \/ UNCHANGED vars
    BY <2>7 DEF Write, vars, CanceledIsIncomplete
  <2> QED  BY <2>2, <2>3, <2>4, <2>5, <2>6, <2>7 DEF Next, Listens
<1> QED  BY <1>1, <1>2, Inductive, PTL DEF Spec
===============================================================================
