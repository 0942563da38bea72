----------------------------- MODULE NacosWrites -----------------------------
(***************************************************************************)
(* The commands that write through the Nacos HTTP client                   *)
(* (internal/api/client.go): config push and delete (cmd/config.go),       *)
(* namespace create, update and delete (cmd/namespace.go), service         *)
(* register and deregister (cmd/service.go).                               *)
(*                                                                         *)
(* Nacos has no compare-and-swap and HTTP loses answers: what a command    *)
(* says of its write rests on which requests the client sends again and on *)
(* how it reads the answer of the last one.                                *)
(*                                                                         *)
(* Modelling decisions:                                                    *)
(*  - one command on one blob, namespace or instance of a service, among   *)
(*    others that write it at any time.  A namespace's content is whatever *)
(*    the commands see of it, the number of its configs for delete;        *)
(*  - a read (and a login) has no effect, so that the client's retries of  *)
(*    it come down to an answer or a failure;                              *)
(*  - a request that was not answered may still be carried out later, even *)
(*    after the command has ended.  Nacos answers 403 before it carries    *)
(*    anything out;                                                        *)
(*  - the records around the commands are the subject of MutationAudit.    *)
(***************************************************************************)
EXTENDS Integers, FiniteSets

CONSTANTS
  Contents,    \* what may be stored
  Absent,      \* nothing is stored
  MaxRetries   \* getMaxRetries, 3 in the code

ASSUME ConstantsOK ==
  /\ Absent \notin Contents
  /\ MaxRetries \in Nat

VARIABLES
  store,     \* what Nacos has
  late,      \* the requests that were not answered and may yet be carried out
  req,       \* what the command was asked to do
  pc,        \* where it is
  seen,      \* what its first read found
  saved,     \* what its backup holds
  phase,     \* 2 once the token was refreshed
  attempt,   \* how many times the request was sent again in this phase
  reply,     \* the answer to the last request
  result,    \* how the command ended
  ran,       \* history: how often its write took effect, 2 for more than once
  was,       \* history: what its write replaced the first time
  quiet,     \* history: nothing else was written since the command began
  outdated   \* history: its reads after which something else was written

vars == <<store, late, req, pc, seen, saved, phase, attempt, reply, result,
          ran, was, quiet, outdated>>
history == <<ran, was, quiet, outdated>>
world == <<store, req>>

-----------------------------------------------------------------------------
(* The commands and what they send.                                         *)

VerbsOf ==
  [config    |-> {"publish", "deleteConfig"},
   namespace |-> {"createNs", "updateNs", "deleteNs"},
   instance  |-> {"register", "deregister"}]

Kinds == DOMAIN VerbsOf
Verbs == UNION {VerbsOf[k] : k \in Kinds}

Removes(verb) == verb \in {"deleteConfig", "deleteNs", "deregister"}

(* --backup, --create-only, --update-only and --expected-revision ("cas")   *)
(* are the flags of the commands on blobs.                                  *)
Requests ==
  { r \in [verb : Verbs, val : Contents, mode : {"any", "create", "update", "cas"},
           backup : BOOLEAN, user : BOOLEAN] :
      /\ r.verb = "deleteConfig" => r.mode \in {"any", "cas"}
      /\ r.verb \notin VerbsOf["config"] => r.mode = "any"
      /\ r.backup => r.verb \in VerbsOf["config"] }

Desired(r) == IF Removes(r.verb) THEN Absent ELSE r.val

(* The commands that read before they are authorized.                       *)
LooksFirst(verb) == verb \in {"publish", "deleteNs"}

(* A namespace is created and an instance registered once.                  *)
Creates(verb) == verb \in {"createNs", "register"}

(* A fault: every mutation is sent like a read.                             *)
IdempotentAll(verb) == verb \in Verbs

(* The mutations that the client sends again when it has no answer.         *)
Idempotent(verb) == ~Creates(verb)

(* What Nacos makes of a request: a namespace is created once and changed   *)
(* only while it is there; the other requests say what is to be there.      *)
Applicable(r) ==
  /\ r.verb = "createNs" => store = Absent
  /\ r.verb \in {"updateNs", "deleteNs"} => store # Absent

PCs == {"look", "authorize", "backup", "login", "send", "wait",
        "answer", "probe", "done"}
Replies == {"none", "true", "false", "exists", "notfound", "forbidden", "lost",
            "broken"}
Results == {"none", "ok", "skipped", "exists", "notfound", "failed"}
Sendings == (1..2) \X (0..MaxRetries)

Init ==
  /\ store \in Contents \cup {Absent}
  /\ late = {}
  /\ req \in Requests
  /\ pc = IF LooksFirst(req.verb) THEN "look" ELSE "authorize"
  /\ seen = Absent
  /\ saved = Absent
  /\ phase = 1
  /\ attempt = 0
  /\ reply = "none"
  /\ result = "none"
  /\ ran = 0
  /\ was = Absent
  /\ quiet = TRUE
  /\ outdated = {}

-----------------------------------------------------------------------------
(* Before the write.                                                        *)

Goto(where) == pc' = where

End(how) ==
  /\ Goto("done")
  /\ result' = how

(* The client logs in first when the context has a user and no request was  *)
(* made yet; a command that has read holds a token.                         *)
FirstStop(r) == IF r.user THEN "login" ELSE "send"

Look ==
  /\ pc = "look"
  /\ seen' = store
  /\ outdated' = outdated \ {"look"}
  /\ Goto("authorize")
  /\ UNCHANGED <<world, late, saved, phase, attempt, reply, result, ran, was, quiet>>

ModeRefuses(r, found) ==
  /\ r.verb = "publish"
  /\ \/ r.mode \in {"create", "cas"}
     \/ r.mode = "update" /\ found = Absent

(* A push that does not fit what it found, or that Nacos cannot honour.     *)
RefuseMode ==
  /\ pc = "authorize"
  /\ ModeRefuses(req, seen)
  /\ End(CASE req.mode = "update"                    -> "notfound"
           [] req.mode = "create" /\ seen # Absent -> "exists"
           [] OTHER                                 -> "failed")
  /\ UNCHANGED <<world, late, seen, saved, phase, attempt, reply, history>>

(* A push of what is there already is skipped, after its authorization.     *)
Authorize ==
  /\ pc = "authorize"
  /\ ~ModeRefuses(req, seen)
  /\ IF req.verb = "publish" /\ seen = req.val
     THEN End("skipped")
     ELSE /\ Goto(IF req.backup THEN "backup" ELSE FirstStop(req))
        /\ result' = result
  /\ UNCHANGED <<world, late, seen, saved, phase, attempt, reply, history>>

(* A fault: the backup is what the preflight read had found.                *)
BackUpSeen ==
  /\ pc = "backup"
  /\ saved' = seen
  /\ outdated' = outdated \ {"backup"}
  /\ Goto(FirstStop(req))
  /\ UNCHANGED <<world, late, seen, phase, attempt, reply, result, ran, was, quiet>>

(* maybeBackupConfig: the blob is read again; there is nothing to save of   *)
(* one that is not there.                                                   *)
BackUp ==
  /\ pc = "backup"
  /\ saved' = store
  /\ outdated' = outdated \ {"backup"}
  /\ Goto(FirstStop(req))
  /\ UNCHANGED <<world, late, seen, phase, attempt, reply, result, ran, was, quiet>>

(* A read, the authorization, a confirmation, the intent, the backup or the *)
(* login fails.                                                             *)
FailEarly ==
  /\ pc \in {"look", "authorize", "backup", "login"}
  /\ End("failed")
  /\ UNCHANGED <<world, late, seen, saved, phase, attempt, reply, history>>

-----------------------------------------------------------------------------
(* The client: do(), with one refresh of the token and up to MaxRetries     *)
(* retries on each side of it.                                              *)

Login ==
  /\ pc = "login" /\ req.mode # "cas"
  /\ Goto("send")
  /\ UNCHANGED <<world, late, seen, saved, phase, attempt, reply, result, history>>

(* The backend's Delete knows no --expected-revision.                       *)
Unsupported ==
  /\ pc \in {"login", "send"} /\ req.mode = "cas"
  /\ End("failed")
  /\ UNCHANGED <<world, late, seen, saved, phase, attempt, reply, history>>

Send ==
  /\ pc = "send" /\ req.mode # "cas"
  /\ Goto("wait")
  /\ reply' = "none"
  /\ UNCHANGED <<world, late, seen, saved, phase, attempt, result, history>>

(* A 403 with a user: the token is refreshed and the request sent anew.     *)
Refresh ==
  /\ pc = "answer" /\ reply = "forbidden"
  /\ req.user /\ phase = 1
  /\ phase' = 2
  /\ attempt' = 0
  /\ Goto("login")
  /\ UNCHANGED <<world, late, seen, saved, reply, result, history>>

(* A fault: the retries are not counted.                                    *)
RetryForever ==
  /\ pc = "answer" /\ reply = "lost"
  /\ Idempotent(req.verb) /\ attempt <= MaxRetries
  /\ Goto("send")
  /\ UNCHANGED <<world, late, seen, saved, phase, attempt, reply, result, history>>

(* No answer, a 5xx or a 429: after a wait the request is sent again.       *)
Retry ==
  /\ pc = "answer" /\ reply = "lost"
  /\ Idempotent(req.verb) /\ attempt < MaxRetries
  /\ attempt' = attempt + 1
  /\ Goto("send")
  /\ UNCHANGED <<world, late, seen, saved, phase, reply, result, history>>

Succeed ==
  /\ pc = "answer" /\ reply = "true"
  /\ End("ok")
  /\ UNCHANGED <<world, late, seen, saved, phase, attempt, reply, history>>

(* Nacos says why in so many words (parseNacosBusinessError).               *)
Told ==
  /\ pc = "answer" /\ reply \in {"exists", "notfound"}
  /\ End(reply)
  /\ UNCHANGED <<world, late, seen, saved, phase, attempt, reply, history>>

GiveUp ==
  /\ pc = "answer"
  /\ \/ reply = "broken"
     \/ reply = "lost" /\ ~(Idempotent(req.verb) /\ attempt < MaxRetries)
     \/ reply = "forbidden" /\ ~(req.user /\ phase = 1)
     \/ reply = "false" /\ req.verb \notin VerbsOf["namespace"]
  /\ End("failed")
  /\ UNCHANGED <<world, late, seen, saved, phase, attempt, reply, history>>

(* namespaceMutationError: a bare "false" sends it to look.                 *)
Question ==
  /\ pc = "answer" /\ reply = "false"
  /\ req.verb \in VerbsOf["namespace"]
  /\ Goto("probe")
  /\ UNCHANGED <<world, late, seen, saved, phase, attempt, reply, result, history>>

(* A fault: a namespace that is there or is not is all that is looked for.  *)
ProbeEither ==
  /\ pc = "probe"
  /\ End(IF store # Absent THEN "exists" ELSE "notfound")
  /\ UNCHANGED <<world, late, seen, saved, phase, attempt, reply, history>>

Probe ==
  /\ pc = "probe"
  /\ End(IF req.verb = "createNs" /\ store # Absent THEN "exists"
            ELSE IF req.verb # "createNs" /\ store = Absent THEN "notfound"
            ELSE "failed")
  /\ UNCHANGED <<world, late, seen, saved, phase, attempt, reply, history>>

ProbeFails ==
  /\ pc = "probe"
  /\ End("failed")
  /\ UNCHANGED <<world, late, seen, saved, phase, attempt, reply, history>>

-----------------------------------------------------------------------------
(* Nacos, and the network.                                                  *)

Answered(what) ==
  /\ Goto("answer")
  /\ reply' = what

Effect ==
  /\ Applicable(req)
  /\ store' = Desired(req)
  /\ ran' = IF ran = 0 THEN 1 ELSE 2
  /\ was' = IF ran = 0 THEN store ELSE was

(* The request is carried out, and the answer arrives or is lost.           *)
Carry(what) ==
  /\ pc = "wait"
  /\ what \in {"true", "lost", "broken"}
  /\ Effect
  /\ Answered(what)
  /\ UNCHANGED <<late, req, seen, saved, phase, attempt, result, quiet, outdated>>

(* No answer: the request is lost, or on its way.                           *)
Drop(what, arrives) ==
  /\ pc = "wait"
  /\ what \in {"lost", "broken"}
  /\ Answered(what)
  /\ late' = IF arrives
             THEN late \cup {<<phase, attempt>>}
             ELSE late
  /\ UNCHANGED <<world, seen, saved, phase, attempt, result, history>>

(* Nacos turns the request away.                                            *)
TurnAway(what) ==
  /\ pc = "wait"
  /\ \/ what \in {"forbidden", "false"}
     \/ what = (IF req.verb = "createNs" THEN "exists" ELSE "notfound")
        /\ ~Applicable(req)
  /\ Answered(what)
  /\ UNCHANGED <<world, late, seen, saved, phase, attempt, result, history>>

(* A request that nobody waits for any longer arrives.                      *)
Arrive(n) ==
  /\ n \in late
  /\ late' = late \ {n}
  /\ Effect
  /\ UNCHANGED <<req, pc, seen, saved, phase, attempt, reply, result, quiet, outdated>>

(* Another command, or a late request of one, writes it.                    *)
Other(v) ==
  /\ store' = v
  /\ quiet' = FALSE
  /\ outdated' = {"look", "backup"}
  /\ UNCHANGED <<late, req, pc, seen, saved, phase, attempt, reply, result, ran, was>>

(* The process dies; what it has sent is on its way.                        *)
Crash ==
  /\ pc # "done"
  /\ End("failed")
  /\ late' = IF pc = "wait"
             THEN late \cup {<<phase, attempt>>}
             ELSE late
  /\ UNCHANGED <<world, seen, saved, phase, attempt, reply, history>>

Proceeds ==
  \/ Look \/ RefuseMode \/ Authorize \/ BackUp \/ FailEarly
  \/ Login \/ Unsupported \/ Send \/ Refresh \/ Retry \/ Succeed \/ Told
  \/ GiveUp \/ Question \/ Probe \/ ProbeFails

Answers ==
  \/ \E what \in Replies : Carry(what) \/ TurnAway(what)
  \/ \E what \in Replies, arrives \in BOOLEAN : Drop(what, arrives)

Next ==
  \/ Proceeds \/ Answers \/ Crash
  \/ \E n \in Sendings : Arrive(n)
  \/ \E v \in Contents \cup {Absent} : Other(v)

Spec == Init /\ [][Next]_vars

(* The command runs on, and its HTTP client has a timeout for every request.  *)
FairSpec == Spec /\ WF_vars(Proceeds \/ Answers)

-----------------------------------------------------------------------------
(* What holds of it.                                                        *)

TypeOK ==
  /\ store \in Contents \cup {Absent}
  /\ late \in SUBSET Sendings
  /\ pc \in PCs
  /\ req \in Requests
  /\ seen \in Contents \cup {Absent}
  /\ saved \in Contents \cup {Absent}
  /\ phase \in 1..2
  /\ attempt \in 0..MaxRetries
  /\ reply \in Replies
  /\ result \in Results
  /\ ran \in 0..2
  /\ was \in Contents \cup {Absent}
  /\ quiet \in BOOLEAN
  /\ outdated \subseteq {"look", "backup"}

(* A namespace is created and an instance registered at most once by one    *)
(* command, whatever answers are lost and however late its requests arrive  *)
(* (internal/api/client.go:219).                                            *)
CreatedOnce == ran = 2 => ~Creates(req.verb)

(* What a command reports is so.  Success: the write took effect; "already  *)
(* exists": the command did not create it itself; and as long as nothing    *)
(* else is written, what it reported is what is there, its own late         *)
(* requests included (internal/api/namespace.go:80).                        *)
AnswersTrue ==
  /\ result = "ok" => ran > 0
  /\ result = "exists" => ran = 0
  /\ quiet =>
       /\ result \in {"ok", "skipped"} => store = Desired(req)
       /\ result = "exists" => store # Absent
       /\ result = "notfound" => store = Absent

(* What a write destroys without having shown or saved it was written by    *)
(* somebody else after the read in question, never before: what it replaces *)
(* is what it had looked at, unless that is outdated, and with --backup what*)
(* its backup holds, unless that is outdated, whoever has written before the*)
(* backup was read.  --update-only creates nothing unless the blob was      *)
(* deleted after the look; --create-only and --expected-revision, which     *)
(* Nacos cannot honour, write nothing (cmd/config.go:698 and 880).          *)
ReplacesWhatItSaw ==
  ran > 0 =>
    /\ req.mode \notin {"create", "cas"}
    /\ LooksFirst(req.verb) /\ "look" \notin outdated => was = seen
    /\ req.backup /\ "backup" \notin outdated => was = saved
    /\ req.mode = "update" /\ "look" \notin outdated => was # Absent

(* The rest of the inductive invariant.  The write is out of the command's  *)
(* hands from the first request on.                                         *)
Out == pc \in {"wait", "answer", "probe"} \/ late # {}
Decided == pc \in {"login", "send"} \/ Out

InOrder ==
  /\ pc = "done" <=> result # "none"
  /\ pc \in {"look", "authorize", "backup"} => ran = 0 /\ late = {}
  /\ pc = "probe" => req.verb \in VerbsOf["namespace"]
  /\ result \in {"exists", "skipped"} => late = {}

Checked ==
  /\ pc = "backup" \/ Decided => ~ModeRefuses(req, seen)
  /\ Out => req.mode # "cas"

Foreseen ==
  /\ quiet => outdated = {}
  /\ ran = 0 =>
       /\ (pc \in {"authorize", "backup"} \/ Decided) /\ LooksFirst(req.verb)
            /\ "look" \notin outdated => seen = store
       /\ Decided /\ req.backup /\ "backup" \notin outdated => saved = store

(* A mutation that is not sent again has one request, which is either       *)
(* carried out or still on its way.                                         *)
SentOnce ==
  Creates(req.verb) =>
    /\ ran > 0 => late = {}
    /\ \A m, n \in late : m = n
    /\ ran > 0 \/ late # {} =>
         \/ pc = "answer" /\ reply \in {"true", "lost", "broken"}
         \/ pc = "done" /\ result \in {"ok", "failed"}

AnsweredTruly ==
  pc = "answer" =>
    /\ reply = "true" => ran > 0
    /\ reply = "exists" => req.verb = "createNs"
    /\ reply = "notfound" => req.verb \in {"updateNs", "deleteNs"}
    /\ quiet => /\ reply = "true" => store = Desired(req)
                /\ reply = "exists" => store # Absent
                /\ reply = "notfound" => store = Absent

NothingToFind ==
  result = "notfound" =>
    late = {} \/ req.verb \in {"updateNs", "deleteNs"}

IInv ==
  /\ TypeOK
  /\ CreatedOnce
  /\ AnswersTrue
  /\ ReplacesWhatItSaw
  /\ InOrder
  /\ Checked
  /\ Foreseen
  /\ SentOnce
  /\ AnsweredTruly
  /\ NothingToFind

(* How many steps the command can still take: at most Tries more requests,  *)
(* and what is left around the one at hand.                                 *)
Tries == (IF phase = 1 THEN MaxRetries + 1 ELSE 0) + (MaxRetries - attempt)

StepsLeft ==
  [look |-> 8, authorize |-> 7, backup |-> 6, login |-> 5, send |-> 4, wait |-> 3,
   answer |-> 2, probe |-> 1, done |-> 0]

Effort == IF pc = "done" THEN 0 ELSE 6 * Tries + StepsLeft[pc]

(* Every step of the command and every answer brings its end nearer; other  *)
(* writers and its own late requests never put it off (do() in              *)
(* internal/api/client.go).                                                 *)
EffortFalls ==
  [][ Effort' <= Effort /\ (Proceeds \/ Answers \/ Crash => Effort' < Effort) ]_vars

(* The command ends, whatever is lost: after MaxRetries retries on each     *)
(* side of one refresh of the token there is nothing left to try.           *)
EveryCommandEnds == <>(pc = "done")
=============================================================================
