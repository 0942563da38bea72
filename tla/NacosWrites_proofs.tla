------------------------- MODULE NacosWrites_proofs -------------------------
(***************************************************************************)
(* What a command reports of its write through the Nacos client is so, and *)
(* what only may be done once is done once, for any number of retries.     *)
(*                                                                         *)
(* IInv is inductive.  Its heart is SentOnce (a mutation that is not sent  *)
(* again has one request, carried out or on its way) and Foreseen (what    *)
(* the command read is still there as long as nothing else was written     *)
(* since and its own write has not taken effect).                          *)
(***************************************************************************)
EXTENDS NacosWrites, TLAPS

LEMMA InitInv == Init => IInv
<1>1. Init => TypeOK
  BY ConstantsOK DEF Init, TypeOK, Sendings, PCs, Replies, Results, LooksFirst
<1>2. Init => Checked /\ InOrder /\ Foreseen
  BY DEF Init, Checked, Decided, Out, InOrder, Foreseen, LooksFirst
<1>3. Init => CreatedOnce /\ AnswersTrue /\ ReplacesWhatItSaw /\ SentOnce
              /\ AnsweredTruly /\ NothingToFind
  BY DEF Init, CreatedOnce, AnswersTrue, ReplacesWhatItSaw, SentOnce, AnsweredTruly,
         NothingToFind, LooksFirst
<1> QED BY <1>1, <1>2, <1>3 DEF IInv

(* --create-only and --update-only are flags of a push, which looks first.  *)
LEMMA Modes ==
  ASSUME NEW r \in Requests
  PROVE  r.mode \in {"create", "update"} => r.verb = "publish"
BY DEF Requests, VerbsOf

-----------------------------------------------------------------------------
(* The invariant with everything it says in sight, for the steps below.     *)

LEMMA LookKeeps ==
  ASSUME IInv, Look
  PROVE  IInv'
BY ConstantsOK DEF IInv, TypeOK, CreatedOnce, AnswersTrue, ReplacesWhatItSaw, InOrder,
   Checked, Foreseen, SentOnce, AnsweredTruly, NothingToFind, Out, Decided, world,
   history, Goto, End, PCs, Results, Replies,
   Look, LooksFirst

LEMMA RefuseModeKeeps ==
  ASSUME IInv, RefuseMode
  PROVE  IInv'
<1>1. Foreseen' /\ ReplacesWhatItSaw'
  BY DEF IInv, TypeOK, ReplacesWhatItSaw, InOrder, Foreseen, Out, Decided, world, history,
     Goto, End, RefuseMode, ModeRefuses, LooksFirst
<1>2. TypeOK'
  BY ConstantsOK DEF IInv, TypeOK, world, history, Goto, End, PCs, Results,
     RefuseMode, FirstStop
<1>3. CreatedOnce' /\ AnswersTrue'
  <2>1. CreatedOnce'
    BY DEF IInv, CreatedOnce, world, history, RefuseMode
  <2>2. AnswersTrue'
    BY DEF IInv, TypeOK, AnswersTrue, InOrder, world, history, Goto, End, Results,
       Desired, Removes, RefuseMode, ModeRefuses, LooksFirst, Foreseen, Out, Decided
  <2> QED BY <2>1, <2>2
<1>4. InOrder' /\ Checked' /\ SentOnce' /\ AnsweredTruly' /\ NothingToFind'
  BY ConstantsOK DEF IInv, TypeOK, CreatedOnce, InOrder, Checked, SentOnce, AnsweredTruly,
     NothingToFind, Out, Decided, world, history, Goto, End, PCs, Results, Replies,
     RefuseMode, ModeRefuses, LooksFirst
<1> QED BY <1>1, <1>2, <1>3, <1>4 DEF IInv

LEMMA AuthorizeKeeps ==
  ASSUME IInv, Authorize
  PROVE  IInv'
<1>1. Foreseen' /\ ReplacesWhatItSaw'
  BY DEF IInv, TypeOK, ReplacesWhatItSaw, InOrder, Foreseen, Out, Decided, world, history,
     Goto, End, Authorize, ModeRefuses, LooksFirst, Desired, Removes, FirstStop
<1>2. TypeOK'
  BY ConstantsOK DEF IInv, TypeOK, world, history, Goto, End, PCs, Results,
     Authorize, FirstStop
<1>3. CreatedOnce' /\ AnswersTrue'
  <2>1. CreatedOnce'
    BY DEF IInv, CreatedOnce, world, history, Authorize
  <2>2. AnswersTrue'
    BY DEF IInv, TypeOK, AnswersTrue, InOrder, world, history, Goto, End, Results,
       Desired, Removes, Authorize, ModeRefuses, LooksFirst, Foreseen, Out, Decided
  <2> QED BY <2>1, <2>2
<1>4. InOrder' /\ Checked' /\ SentOnce' /\ AnsweredTruly' /\ NothingToFind'
  BY ConstantsOK DEF IInv, TypeOK, CreatedOnce, InOrder, Checked, SentOnce, AnsweredTruly,
     NothingToFind, Out, Decided, world, history, Goto, End, PCs, Results, Replies,
     Authorize, ModeRefuses, LooksFirst, Desired, Removes, FirstStop
<1> QED BY <1>1, <1>2, <1>3, <1>4 DEF IInv

LEMMA BackUpKeeps ==
  ASSUME IInv, BackUp
  PROVE  IInv'
BY ConstantsOK DEF IInv, TypeOK, CreatedOnce, AnswersTrue, ReplacesWhatItSaw, InOrder,
   Checked, Foreseen, SentOnce, AnsweredTruly, NothingToFind, Out, Decided, world,
   history, Goto, End, PCs, Results, Replies,
   BackUp, FirstStop

LEMMA FailEarlyKeeps ==
  ASSUME IInv, FailEarly
  PROVE  IInv'
BY ConstantsOK DEF IInv, TypeOK, CreatedOnce, AnswersTrue, ReplacesWhatItSaw, InOrder,
   Checked, Foreseen, SentOnce, AnsweredTruly, NothingToFind, Out, Decided, world,
   history, Goto, End, PCs, Results, Replies,
   FailEarly

LEMMA LoginKeeps ==
  ASSUME IInv, Login
  PROVE  IInv'
BY ConstantsOK DEF IInv, TypeOK, CreatedOnce, AnswersTrue, ReplacesWhatItSaw, InOrder,
   Checked, Foreseen, SentOnce, AnsweredTruly, NothingToFind, Out, Decided, world,
   history, Goto, End, PCs, Results, Replies,
   Login

LEMMA UnsupportedKeeps ==
  ASSUME IInv, Unsupported
  PROVE  IInv'
BY ConstantsOK DEF IInv, TypeOK, CreatedOnce, AnswersTrue, ReplacesWhatItSaw, InOrder,
   Checked, Foreseen, SentOnce, AnsweredTruly, NothingToFind, Out, Decided, world,
   history, Goto, End, PCs, Results, Replies,
   Unsupported

LEMMA SendKeeps ==
  ASSUME IInv, Send
  PROVE  IInv'
BY ConstantsOK DEF IInv, TypeOK, CreatedOnce, AnswersTrue, ReplacesWhatItSaw, InOrder,
   Checked, Foreseen, SentOnce, AnsweredTruly, NothingToFind, Out, Decided, world,
   history, Goto, End, PCs, Results, Replies,
   Send

LEMMA RefreshKeeps ==
  ASSUME IInv, Refresh
  PROVE  IInv'
BY ConstantsOK DEF IInv, TypeOK, CreatedOnce, AnswersTrue, ReplacesWhatItSaw, InOrder,
   Checked, Foreseen, SentOnce, AnsweredTruly, NothingToFind, Out, Decided, world,
   history, Goto, End, PCs, Results, Replies,
   Refresh

LEMMA RetryKeeps ==
  ASSUME IInv, Retry
  PROVE  IInv'
BY ConstantsOK DEF IInv, TypeOK, CreatedOnce, AnswersTrue, ReplacesWhatItSaw, InOrder,
   Checked, Foreseen, SentOnce, AnsweredTruly, NothingToFind, Out, Decided, world,
   history, Goto, End, PCs, Results, Replies,
   Retry, Idempotent, Creates

LEMMA SucceedKeeps ==
  ASSUME IInv, Succeed
  PROVE  IInv'
BY ConstantsOK DEF IInv, TypeOK, CreatedOnce, AnswersTrue, ReplacesWhatItSaw, InOrder,
   Checked, Foreseen, SentOnce, AnsweredTruly, NothingToFind, Out, Decided, world,
   history, Goto, End, PCs, Results, Replies,
   Succeed

LEMMA ToldKeeps ==
  ASSUME IInv, Told
  PROVE  IInv'
BY ConstantsOK DEF IInv, TypeOK, CreatedOnce, AnswersTrue, ReplacesWhatItSaw, InOrder,
   Checked, Foreseen, SentOnce, AnsweredTruly, NothingToFind, Out, Decided, world,
   history, Goto, End, PCs, Results, Replies,
   Told, Creates

LEMMA GiveUpKeeps ==
  ASSUME IInv, GiveUp
  PROVE  IInv'
BY ConstantsOK DEF IInv, TypeOK, CreatedOnce, AnswersTrue, ReplacesWhatItSaw, InOrder,
   Checked, Foreseen, SentOnce, AnsweredTruly, NothingToFind, Out, Decided, world,
   history, Goto, End, PCs, Results, Replies,
   GiveUp

LEMMA QuestionKeeps ==
  ASSUME IInv, Question
  PROVE  IInv'
BY ConstantsOK DEF IInv, TypeOK, CreatedOnce, AnswersTrue, ReplacesWhatItSaw, InOrder,
   Checked, Foreseen, SentOnce, AnsweredTruly, NothingToFind, Out, Decided, world,
   history, Goto, End, PCs, Results, Replies,
   Question

LEMMA ProbeKeeps ==
  ASSUME IInv, Probe
  PROVE  IInv'
BY ConstantsOK DEF IInv, TypeOK, CreatedOnce, AnswersTrue, ReplacesWhatItSaw, InOrder,
   Checked, Foreseen, SentOnce, AnsweredTruly, NothingToFind, Out, Decided, world,
   history, Goto, End, PCs, Results, Replies,
   Probe, VerbsOf, Creates

LEMMA ProbeFailsKeeps ==
  ASSUME IInv, ProbeFails
  PROVE  IInv'
BY ConstantsOK DEF IInv, TypeOK, CreatedOnce, AnswersTrue, ReplacesWhatItSaw, InOrder,
   Checked, Foreseen, SentOnce, AnsweredTruly, NothingToFind, Out, Decided, world,
   history, Goto, End, PCs, Results, Replies,
   ProbeFails

LEMMA CarryKeeps ==
  ASSUME IInv, NEW what, what \in Replies, Carry(what)
  PROVE  IInv'
<1>1. TypeOK'
  BY ConstantsOK DEF IInv, TypeOK, InOrder, Checked, SentOnce, CreatedOnce, Out,
     Decided, world, history, Goto, PCs, Results, Replies, Carry, Answered, Effect,
     Desired, Requests
<1>2. CreatedOnce'
  BY ConstantsOK DEF IInv, TypeOK, InOrder, Checked, SentOnce, CreatedOnce, Out,
     Decided, world, history, Goto, PCs, Results, Replies, Carry, Answered, Effect,
     Creates
<1>3. AnswersTrue'
  BY ConstantsOK DEF IInv, TypeOK, InOrder, Checked, SentOnce, CreatedOnce, Out,
     Decided, world, history, Goto, PCs, Results, Replies, Carry, Answered, Effect,
     AnswersTrue, Desired, Applicable, Removes, AnsweredTruly, NothingToFind, Creates,
     Idempotent
<1>4. ReplacesWhatItSaw'
  <2>1. req \in Requests /\ req' = req /\ outdated' = outdated /\ Out
    BY DEF IInv, TypeOK, Out, Carry
  <2>2. req.mode \in {"create", "update"} => req.verb = "publish"
    BY <2>1, Modes
  <2>3. ~ModeRefuses(req, seen) /\ req.mode # "cas"
    BY <2>1 DEF IInv, Checked, Decided
  <2>4. req.mode \notin {"create", "cas"}
    BY <2>2, <2>3 DEF ModeRefuses
  <2>5. CASE ran = 0
    <3>1. /\ LooksFirst(req.verb) /\ "look" \notin outdated => store = seen
          /\ req.backup /\ "backup" \notin outdated => store = saved
      BY <2>1, <2>5 DEF IInv, Foreseen, Decided
    <3>2. was' = store /\ seen' = seen /\ saved' = saved
      BY <2>5 DEF Carry, Answered, Effect
    <3>3. req.mode = "update" => LooksFirst(req.verb) /\ seen # Absent
      BY <2>2, <2>3 DEF ModeRefuses, LooksFirst
    <3> QED BY <2>1, <2>4, <3>1, <3>2, <3>3 DEF ReplacesWhatItSaw
  <2>6. CASE ran # 0
    <3>1. was' = was /\ seen' = seen /\ saved' = saved
      BY <2>6 DEF Carry, Answered, Effect
    <3>2. ran > 0
      BY <2>6 DEF IInv, TypeOK
    <3> QED BY <2>1, <2>4, <3>1, <3>2 DEF IInv, ReplacesWhatItSaw
  <2> QED BY <2>5, <2>6
<1>5. InOrder'
  BY ConstantsOK DEF IInv, TypeOK, InOrder, Checked, SentOnce, CreatedOnce, Out,
     Decided, world, history, Goto, PCs, Results, Replies, Carry, Answered, Effect
<1>6. Checked'
  BY ConstantsOK DEF IInv, TypeOK, InOrder, Checked, SentOnce, CreatedOnce, Out,
     Decided, world, history, Goto, PCs, Results, Replies, Carry, Answered, Effect
<1>7. Foreseen'
  BY ConstantsOK DEF IInv, TypeOK, InOrder, Checked, SentOnce, CreatedOnce, Out,
     Decided, world, history, Goto, PCs, Results, Replies, Carry, Answered, Effect,
     Foreseen
<1>8. SentOnce'
  BY ConstantsOK DEF IInv, TypeOK, InOrder, Checked, SentOnce, CreatedOnce, Out,
     Decided, world, history, Goto, PCs, Results, Replies, Carry, Answered, Effect,
     Creates
<1>9. AnsweredTruly'
  BY ConstantsOK DEF IInv, TypeOK, InOrder, Checked, SentOnce, CreatedOnce, Out,
     Decided, world, history, Goto, PCs, Results, Replies, Carry, Answered, Effect,
     AnsweredTruly, Desired, Applicable, Removes, NothingToFind, Creates, Idempotent
<1>10. NothingToFind'
  BY ConstantsOK DEF IInv, TypeOK, InOrder, Checked, SentOnce, CreatedOnce, Out,
     Decided, world, history, Goto, PCs, Results, Replies, Carry, Answered, Effect,
     NothingToFind
<1> QED BY <1>1, <1>2, <1>3, <1>4, <1>5, <1>6, <1>7, <1>8, <1>9, <1>10 DEF IInv

LEMMA DropKeeps ==
  ASSUME IInv, NEW what, NEW arrives, what \in Replies, Drop(what, arrives)
  PROVE  IInv'
BY ConstantsOK DEF IInv, TypeOK, CreatedOnce, AnswersTrue, ReplacesWhatItSaw, InOrder,
   Checked, Foreseen, SentOnce, AnsweredTruly, NothingToFind, Out, Decided, world,
   history, Goto, End, PCs, Results, Replies,
   Drop, Answered, Sendings

LEMMA TurnAwayKeeps ==
  ASSUME IInv, NEW what, what \in Replies, TurnAway(what)
  PROVE  IInv'
BY ConstantsOK DEF IInv, TypeOK, CreatedOnce, AnswersTrue, ReplacesWhatItSaw, InOrder,
   Checked, Foreseen, SentOnce, AnsweredTruly, NothingToFind, Out, Decided, world,
   history, Goto, End, PCs, Results, Replies,
   TurnAway, Answered, Applicable, Creates

LEMMA ArriveKeeps ==
  ASSUME IInv, NEW n, n \in Sendings, Arrive(n)
  PROVE  IInv'
<1>1. TypeOK'
  BY ConstantsOK DEF IInv, TypeOK, InOrder, Checked, SentOnce, CreatedOnce, Out,
     Decided, world, history, Goto, PCs, Results, Replies, Arrive, Effect, Desired,
     Requests
<1>2. CreatedOnce'
  BY ConstantsOK DEF IInv, TypeOK, InOrder, Checked, SentOnce, CreatedOnce, Out,
     Decided, world, history, Goto, PCs, Results, Replies, Arrive, Effect, Creates
<1>3. AnswersTrue'
  BY ConstantsOK DEF IInv, TypeOK, InOrder, Checked, SentOnce, CreatedOnce, Out,
     Decided, world, history, Goto, PCs, Results, Replies, Arrive, Effect, AnswersTrue,
     Desired, Applicable, Removes, AnsweredTruly, NothingToFind, Creates, Idempotent
<1>4. ReplacesWhatItSaw'
  <2>1. req \in Requests /\ req' = req /\ outdated' = outdated /\ Out
    BY DEF IInv, TypeOK, Out, Arrive
  <2>2. req.mode \in {"create", "update"} => req.verb = "publish"
    BY <2>1, Modes
  <2>3. ~ModeRefuses(req, seen) /\ req.mode # "cas"
    BY <2>1 DEF IInv, Checked, Decided
  <2>4. req.mode \notin {"create", "cas"}
    BY <2>2, <2>3 DEF ModeRefuses
  <2>5. CASE ran = 0
    <3>1. /\ LooksFirst(req.verb) /\ "look" \notin outdated => store = seen
          /\ req.backup /\ "backup" \notin outdated => store = saved
      BY <2>1, <2>5 DEF IInv, Foreseen, Decided
    <3>2. was' = store /\ seen' = seen /\ saved' = saved
      BY <2>5 DEF Arrive, Effect
    <3>3. req.mode = "update" => LooksFirst(req.verb) /\ seen # Absent
      BY <2>2, <2>3 DEF ModeRefuses, LooksFirst
    <3> QED BY <2>1, <2>4, <3>1, <3>2, <3>3 DEF ReplacesWhatItSaw
  <2>6. CASE ran # 0
    <3>1. was' = was /\ seen' = seen /\ saved' = saved
      BY <2>6 DEF Arrive, Effect
    <3>2. ran > 0
      BY <2>6 DEF IInv, TypeOK
    <3> QED BY <2>1, <2>4, <3>1, <3>2 DEF IInv, ReplacesWhatItSaw
  <2> QED BY <2>5, <2>6
<1>5. InOrder'
  BY ConstantsOK DEF IInv, TypeOK, InOrder, Checked, SentOnce, CreatedOnce, Out,
     Decided, world, history, Goto, PCs, Results, Replies, Arrive, Effect
<1>6. Checked'
  BY ConstantsOK DEF IInv, TypeOK, InOrder, Checked, SentOnce, CreatedOnce, Out,
     Decided, world, history, Goto, PCs, Results, Replies, Arrive, Effect
<1>7. Foreseen'
  BY ConstantsOK DEF IInv, TypeOK, InOrder, Checked, SentOnce, CreatedOnce, Out,
     Decided, world, history, Goto, PCs, Results, Replies, Arrive, Effect, Foreseen
<1>8. SentOnce'
  BY ConstantsOK DEF IInv, TypeOK, InOrder, Checked, SentOnce, CreatedOnce, Out,
     Decided, world, history, Goto, PCs, Results, Replies, Arrive, Effect, Creates
<1>9. AnsweredTruly'
  BY ConstantsOK DEF IInv, TypeOK, InOrder, Checked, SentOnce, CreatedOnce, Out,
     Decided, world, history, Goto, PCs, Results, Replies, Arrive, Effect,
     AnsweredTruly, Desired, Applicable, Removes, NothingToFind, Creates, Idempotent
<1>10. NothingToFind'
  BY ConstantsOK DEF IInv, TypeOK, InOrder, Checked, SentOnce, CreatedOnce, Out,
     Decided, world, history, Goto, PCs, Results, Replies, Arrive, Effect, NothingToFind
<1> QED BY <1>1, <1>2, <1>3, <1>4, <1>5, <1>6, <1>7, <1>8, <1>9, <1>10 DEF IInv

LEMMA OtherKeeps ==
  ASSUME IInv, NEW v, v \in Contents \cup {Absent}, Other(v)
  PROVE  IInv'
<1>1. TypeOK'
  <2>1. /\ store' \in Contents \cup {Absent} /\ quiet' \in BOOLEAN
        /\ outdated' \subseteq {"look", "backup"}
    BY DEF Other
  <2> QED BY <2>1 DEF IInv, TypeOK, Other
<1>2. CreatedOnce'
  BY ConstantsOK DEF IInv, TypeOK, InOrder, Checked, SentOnce, CreatedOnce, Out,
     Decided, world, history, Goto, PCs, Results, Replies, Other, Creates
<1>3. AnswersTrue'
  BY ConstantsOK DEF IInv, TypeOK, InOrder, Checked, SentOnce, CreatedOnce, Out,
     Decided, world, history, Goto, PCs, Results, Replies, Other, AnswersTrue, Desired,
     Applicable, Removes, AnsweredTruly, NothingToFind, Creates, Idempotent
<1>4. ReplacesWhatItSaw'
  BY ConstantsOK DEF IInv, TypeOK, InOrder, Checked, SentOnce, CreatedOnce, Out,
     Decided, world, history, Goto, PCs, Results, Replies, Other, ReplacesWhatItSaw,
     Foreseen, ModeRefuses, LooksFirst
<1>5. InOrder'
  BY ConstantsOK DEF IInv, TypeOK, InOrder, Checked, SentOnce, CreatedOnce, Out,
     Decided, world, history, Goto, PCs, Results, Replies, Other
<1>6. Checked'
  BY ConstantsOK DEF IInv, TypeOK, InOrder, Checked, SentOnce, CreatedOnce, Out,
     Decided, world, history, Goto, PCs, Results, Replies, Other
<1>7. Foreseen'
  BY ConstantsOK DEF IInv, TypeOK, InOrder, Checked, SentOnce, CreatedOnce, Out,
     Decided, world, history, Goto, PCs, Results, Replies, Other, Foreseen
<1>8. SentOnce'
  BY ConstantsOK DEF IInv, TypeOK, InOrder, Checked, SentOnce, CreatedOnce, Out,
     Decided, world, history, Goto, PCs, Results, Replies, Other, Creates
<1>9. AnsweredTruly'
  BY ConstantsOK DEF IInv, TypeOK, InOrder, Checked, SentOnce, CreatedOnce, Out,
     Decided, world, history, Goto, PCs, Results, Replies, Other, AnsweredTruly,
     Desired, Applicable, Removes, NothingToFind, Creates, Idempotent
<1>10. NothingToFind'
  BY ConstantsOK DEF IInv, TypeOK, InOrder, Checked, SentOnce, CreatedOnce, Out,
     Decided, world, history, Goto, PCs, Results, Replies, Other, NothingToFind
<1> QED BY <1>1, <1>2, <1>3, <1>4, <1>5, <1>6, <1>7, <1>8, <1>9, <1>10 DEF IInv

LEMMA CrashKeeps ==
  ASSUME IInv, Crash
  PROVE  IInv'
BY ConstantsOK DEF IInv, TypeOK, CreatedOnce, AnswersTrue, ReplacesWhatItSaw, InOrder,
   Checked, Foreseen, SentOnce, AnsweredTruly, NothingToFind, Out, Decided, world,
   history, Goto, End, PCs, Results, Replies,
   Crash, Sendings

LEMMA StutterKeeps ==
  ASSUME IInv, UNCHANGED vars
  PROVE  IInv'
BY DEF vars, IInv, TypeOK, CreatedOnce, AnswersTrue, ReplacesWhatItSaw, InOrder,
   Checked, Foreseen, SentOnce, AnsweredTruly, NothingToFind, Out, Decided

-----------------------------------------------------------------------------
LEMMA StepKeeps == IInv /\ [Next]_vars => IInv'
<1> SUFFICES ASSUME IInv, [Next]_vars PROVE IInv'
  OBVIOUS
<1>1. CASE Proceeds
  BY <1>1, LookKeeps, RefuseModeKeeps, AuthorizeKeeps, BackUpKeeps, FailEarlyKeeps,
     LoginKeeps, UnsupportedKeeps, SendKeeps, RefreshKeeps, RetryKeeps,
     SucceedKeeps, ToldKeeps, GiveUpKeeps, QuestionKeeps, ProbeKeeps,
     ProbeFailsKeeps DEF Proceeds
<1>2. CASE Answers
  BY <1>2, CarryKeeps, DropKeeps, TurnAwayKeeps DEF Answers
<1>3. CASE Crash
  BY <1>3, CrashKeeps
<1>4. CASE \E n \in Sendings : Arrive(n)
  BY <1>4, ArriveKeeps
<1>5. CASE \E v \in Contents \cup {Absent} : Other(v)
  BY <1>5, OtherKeeps
<1>6. CASE UNCHANGED vars
  BY <1>6, StutterKeeps
<1> QED BY <1>1, <1>2, <1>3, <1>4, <1>5, <1>6 DEF Next

(* The inductive invariant holds, for every number of retries.              *)
THEOREM Inductive == Spec => []IInv
BY InitInv, StepKeeps, PTL DEF Spec

(* CreatedOnce holds: one command never creates a namespace nor registers   *)
(* an instance twice (internal/api/client.go:219).                          *)
THEOREM NeverTwice == Spec => []CreatedOnce
<1>1. IInv => CreatedOnce
  BY DEF IInv
<1> QED BY <1>1, Inductive, PTL

(* AnswersTrue holds: what a command reports of its write is so             *)
(* (internal/api/namespace.go:80).                                          *)
THEOREM ReportsTrue == Spec => []AnswersTrue
<1>1. IInv => AnswersTrue
  BY DEF IInv
<1> QED BY <1>1, Inductive, PTL

(* ReplacesWhatItSaw holds: what a write on Nacos destroys unseen or unsaved*)
(* was written by somebody else after the read in question                  *)
(* (cmd/config.go:698 and 880).                                             *)
THEOREM FlagsHonoured == Spec => []ReplacesWhatItSaw
<1>1. IInv => ReplacesWhatItSaw
  BY DEF IInv
<1> QED BY <1>1, Inductive, PTL

-----------------------------------------------------------------------------
(* What is left to do, a number that the steps count down.                  *)
LEMMA EffortIs ==
  ASSUME IInv
  PROVE  /\ Tries \in Nat /\ Effort \in Nat
         /\ pc # "done" => Effort = 6 * Tries + StepsLeft[pc] /\ Effort > 0
         /\ pc = "done" => Effort = 0
<1>1. MaxRetries \in Nat /\ attempt \in 0..MaxRetries /\ phase \in 1..2
  BY ConstantsOK DEF IInv, TypeOK
<1>2. Tries \in Nat
  BY <1>1 DEF Tries
<1>3. pc \in PCs
  BY DEF IInv, TypeOK
<1>4. pc # "done" => StepsLeft[pc] \in 1..8
  BY <1>3 DEF StepsLeft, PCs
<1> QED BY <1>2, <1>4 DEF Effort

LEMMA TriesNext == ASSUME IInv' PROVE Tries' \in Nat
<1>1. attempt' \in 0..MaxRetries /\ phase' \in 1..2
  BY DEF IInv, TypeOK
<1>2. \A m \in Nat : \A a \in 0..m : (m + 1) + (m - a) \in Nat /\ 0 + (m - a) \in Nat
  OBVIOUS
<1> QED BY <1>1, <1>2, ConstantsOK DEF Tries

(* The steps between two requests, which leave the tries alone.             *)
LEMMA StepsDown ==
  ASSUME IInv, IInv', pc # "done", UNCHANGED <<phase, attempt>>,
         pc' = "done" \/ StepsLeft'[pc'] < StepsLeft[pc]
  PROVE  Effort' < Effort
<1>1. Tries' = Tries
  BY DEF Tries
<1>2. StepsLeft[pc] \in Int /\ (pc' # "done" => StepsLeft'[pc'] \in Int)
  <2>1. pc \in PCs /\ pc' \in PCs
    BY DEF IInv, TypeOK
  <2> QED BY <2>1 DEF StepsLeft, PCs
<1>3. Tries \in Nat /\ Effort = 6 * Tries + StepsLeft[pc] /\ Effort > 0
  BY EffortIs
<1>4. CASE pc' = "done"
  BY <1>3, <1>4 DEF Effort
<1>5. CASE pc' # "done" /\ StepsLeft'[pc'] < StepsLeft[pc]
  <2>1. Effort' = 6 * Tries + StepsLeft'[pc']
    BY <1>1, <1>5 DEF Effort
  <2> QED BY <1>2, <1>3, <1>5, <2>1
<1> QED BY <1>4, <1>5

(* A request that is sent again, or a refresh of the token, spends a try.   *)
LEMMA TryDown ==
  ASSUME IInv, IInv', pc = "answer", pc' \in {"send", "login"}, Tries' < Tries
  PROVE  Effort' < Effort
<1>1. StepsLeft["answer"] = 2 /\ StepsLeft'["send"] = 4 /\ StepsLeft'["login"] = 5
  BY DEF StepsLeft
<1>2. Tries \in Nat /\ Effort = 6 * Tries + 2
  BY <1>1, EffortIs
<1>3. Tries' \in Nat
  BY TriesNext
<1>4. Effort' <= 6 * Tries' + 5
  BY <1>1, <1>3 DEF Effort
<1>5. Effort' \in Int
  BY <1>1, <1>3 DEF Effort
<1>6. \A a, b \in Nat : \A e \in Int : a < b /\ e <= 6 * a + 5 => e < 6 * b + 2
  OBVIOUS
<1> QED BY <1>2, <1>3, <1>4, <1>5, <1>6

LEMMA StepCounts ==
  ASSUME IInv, IInv', Proceeds \/ Answers \/ Crash
  PROVE  Effort' < Effort
<1>1. CASE Refresh
  <2>1. phase = 1 /\ phase' = 2 /\ attempt' = 0
    BY <1>1 DEF Refresh
  <2>2. MaxRetries \in Nat /\ attempt \in 0..MaxRetries
    BY ConstantsOK DEF IInv, TypeOK
  <2>3. Tries' < Tries
    BY <2>1, <2>2 DEF Tries
  <2> QED BY <1>1, <2>3, TryDown DEF Refresh, Goto
<1>2. CASE Retry
  <2>1. phase' = phase /\ attempt' = attempt + 1
    BY <1>2 DEF Retry
  <2>2. MaxRetries \in Nat /\ attempt \in 0..MaxRetries /\ attempt < MaxRetries
    BY <1>2, ConstantsOK DEF IInv, TypeOK, Retry
  <2>3. Tries' < Tries
    BY <2>1, <2>2 DEF Tries
  <2> QED BY <1>2, <2>3, TryDown DEF Retry, Goto
<1>3. CASE Look \/ Authorize \/ BackUp \/ Login \/ Send \/ Question
  <2>1. UNCHANGED <<phase, attempt>> /\ pc # "done"
    BY <1>3 DEF Look, Authorize, BackUp, Login, Send, Question
  <2>2. pc' = "done" \/ StepsLeft'[pc'] < StepsLeft[pc]
    BY <1>3 DEF Look, Authorize, BackUp, Login, Send, Question, Goto, End, FirstStop,
       StepsLeft
  <2> QED BY <2>1, <2>2, StepsDown
<1>4. CASE \/ RefuseMode \/ FailEarly \/ Unsupported \/ Succeed \/ Told \/ GiveUp
           \/ Probe \/ ProbeFails \/ Crash
  <2>1. UNCHANGED <<phase, attempt>> /\ pc # "done" /\ pc' = "done"
    BY <1>4 DEF RefuseMode, FailEarly, Unsupported, Succeed, Told, GiveUp, Probe,
       ProbeFails, Crash, Goto, End
  <2> QED BY <2>1, StepsDown
<1>5. CASE Answers
  <2>1. UNCHANGED <<phase, attempt>> /\ pc = "wait" /\ pc' = "answer"
    BY <1>5 DEF Answers, Carry, TurnAway, Drop, Answered, Goto
  <2>2. StepsLeft'[pc'] < StepsLeft[pc]
    BY <2>1 DEF StepsLeft
  <2> QED BY <2>1, <2>2, StepsDown
<1> QED BY <1>1, <1>2, <1>3, <1>4, <1>5 DEF Proceeds

(* EffortFalls holds: every step of a command and every answer brings its   *)
(* end nearer, and no other writer puts it off, for every number of retries *)
(* (do() in internal/api/client.go).  The end itself takes fairness.        *)
THEOREM CommandsRunDown == Spec => [](Effort \in Nat) /\ EffortFalls
<1> DEFINE Falls == Effort' <= Effort /\ (Proceeds \/ Answers \/ Crash => Effort' < Effort)
<1>1. ASSUME IInv, IInv', [Next]_vars PROVE [Falls]_vars
  <2>1. CASE Proceeds \/ Answers \/ Crash
    <3>1. Effort \in Nat /\ Effort' \in Int
      <4>1. Tries' \in Int
        BY <1>1, TriesNext
      <4>2. pc' \in PCs
        BY <1>1 DEF IInv, TypeOK
      <4>3. StepsLeft'[pc'] \in Int
        BY <4>2 DEF StepsLeft, PCs
      <4>4. Effort' \in Int
        BY <4>1, <4>3 DEF Effort
      <4> QED BY <1>1, <4>4, EffortIs
    <3>2. Effort' < Effort
      BY <1>1, <2>1, StepCounts
    <3> QED BY <3>1, <3>2
  <2>2. CASE /\ ~(Proceeds \/ Answers \/ Crash)
             /\ \/ \E n \in Sendings : Arrive(n)
                \/ \E v \in Contents \cup {Absent} : Other(v)
    <3>1. Effort' = Effort
      BY <2>2 DEF Arrive, Other, Effort, Tries, StepsLeft
    <3>2. Effort \in Nat
      BY <1>1, EffortIs
    <3> QED BY <2>2, <3>1, <3>2
  <2> QED BY <1>1, <2>1, <2>2 DEF Next
<1>2. IInv /\ IInv' /\ [Next]_vars => [Falls]_vars
  BY <1>1
<1>3. Spec => [][Falls]_vars
  BY <1>2, Inductive, PTL DEF Spec
<1>4. IInv => Effort \in Nat
  BY EffortIs
<1>5. Spec => [](Effort \in Nat)
  BY <1>4, Inductive, PTL
<1> QED BY <1>3, <1>5 DEF EffortFalls
=============================================================================
