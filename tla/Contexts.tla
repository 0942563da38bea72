------------------------------- MODULE Contexts -------------------------------
(***************************************************************************)
(* The context file and the credentials it refers to: ctx set, use,        *)
(* delete, import, migrate-credentials and role set/unset (cmd/context.go),*)
(* with the authorization of R3 changes (cmd/root.go).                     *)
(*                                                                         *)
(* A command changes two stores that share no transaction: the context     *)
(* file, whose update runs under the configuration lock, and a credential  *)
(* backend.  It puts the secrets first and saves the file last.  When the  *)
(* update fails the lock is already free: the command takes it again, reads*)
(* the file to learn whether its save took effect, and undoes its secrets  *)
(* only if it did not.                                                     *)
(*                                                                         *)
(* Modelling decisions:                                                    *)
(*  - a context is its settings (val), its password and its roles.  The    *)
(*    password is a literal secret, or a backend, which stands for the     *)
(*    reference to that backend, or None;                                  *)
(*  - the operator of a command is the command: each may have a role of its*)
(*    own.  "lesser" is a role that does not reach R3 (reader, writer);    *)
(*  - nothing else writes a local credential backend; a vault is shared by *)
(*    machines and may change at any time;                                 *)
(*  - the audit records of a command are the subject of MutationAudit: here*)
(*    report names the outcome that it records;                            *)
(*  - the operating system releases the lock of a process that dies.       *)
(***************************************************************************)
EXTENDS Integers, FiniteSets

CONSTANTS
  Commands,   \* invocations of cfgov ctx, each by its own operator
  Names,      \* the names of contexts
  Vals,       \* settings of a context that the credentials do not touch
  Secrets,    \* literal credentials; one of them may be the empty string
  Backends,   \* credential backends other than plain-yaml
  Vaults,     \* those without an atomic compare-and-swap: vault
  None,       \* no context, no credential, no holder of the lock
  Requests,   \* what each command may be asked to do
  Initial     \* the states of the two stores when the commands start

Grants == {"none", "lesser", "admin"}
Roles == [Commands -> Grants]
NoRoles == [p \in Commands |-> "none"]

Items == [val : Vals, pw : {None} \cup Secrets \cup Backends, roles : Roles]
Slots == Items \cup {None}
Stored == Secrets \cup {None}

Files == [Names -> Slots]
Stores == [Backends -> [Names -> Stored]]

Ops == {"set", "import", "migrate", "use", "delete", "role"}

(* The commands that write credentials reconcile after a failure.           *)
Reconciled == {"set", "import", "migrate"}

(* to is the backend that the command writes secrets to, put the secret of  *)
(* ctx set and import; a migration moves the literals that it finds.  all   *)
(* is a migration without a context name; role gives grant to who.          *)
AnyRequest == [op : Ops, name : Names, item : Items, to : Backends \cup {None},
               put : Stored, force : BOOLEAN, all : BOOLEAN,
               who : Commands, grant : Grants]

(* ctx set builds a context without roles, and always writes the secret of  *)
(* a secure backend; an imported reference may come without its secret; a   *)
(* migration goes to encrypted-file or keychain.                            *)
WellFormed(r) ==
  /\ r.op \in {"set", "import"} =>
       /\ (r.to = None) <=> (r.put = None)
       /\ r.to # None => r.item.pw = r.to
  /\ r.op = "set" =>
       /\ r.item.roles = NoRoles
       /\ r.item.pw \in Backends => r.to # None
  /\ r.op = "migrate" => r.to \in Backends \ Vaults
  /\ r.op \notin Reconciled => r.to = None

ASSUME ConstantsOK ==
  /\ Vaults \subseteq Backends
  /\ Secrets \cap Backends = {}
  /\ None \notin Commands \cup Names \cup Secrets \cup Backends \cup Items
  /\ Requests \in [Commands -> SUBSET AnyRequest]
  /\ \A p \in Commands : \A r \in Requests[p] : WellFormed(r)
  /\ Initial \subseteq [config : Files, current : Names \cup {None},
                        secret : Stores]
  /\ \A s \in Initial : s.current # None => s.config[s.current] # None

VARIABLES
  config, current,  \* the context file
  secret,           \* the credential backends
  lock,             \* the holder of the configuration lock
  pc,               \* where each command is
  request,          \* what it was asked to do
  base, prior,      \* the file and the secrets it read under the lock
  todo,             \* the names whose secret it has still to put, or to undo
  tried,            \* the names whose secret it has tried to put
  clean,            \* no undo of it has failed
  report            \* the outcome it records

vars == <<config, current, secret, lock, pc, request, base, prior, todo,
          tried, clean, report>>
file == <<config, current>>

(* Holding the lock, a command is in one of these.                          *)
Inside == {"writing", "undoing", "restoring"}
PCs == Inside \cup {"start", "asked", "failed", "done", "crashed"}

(* "restored", "incomplete": failed, compensation succeeded or incomplete;  *)
(* "committed": the failure came after the save, partial_failed;            *)
(* "unknown": uncertain, compensation not-safe.                             *)
Reports == {"none", "refused", "success", "failed", "restored", "incomplete",
            "committed", "unknown"}

-----------------------------------------------------------------------------
(* What a request means on a context file c whose current context is cur.   *)

(* A literal credential can be moved: not empty, redacted or a reference.   *)
Candidates(r, c) ==
  {n \in Names : (r.all \/ n = r.name) /\ c[n] # None /\ c[n].pw \in Secrets}

Targets(r, c) == IF r.op = "migrate" THEN Candidates(r, c) ELSE {r.name}

Writes(r, c) == IF r.to = None THEN {} ELSE Targets(r, c)

Found(r, c) ==
  CASE r.op = "set" -> TRUE
    [] r.op = "import" -> c[r.name] = None \/ r.force
    [] r.op = "migrate" -> r.all \/ c[r.name] # None
    [] OTHER -> c[r.name] # None

(* A fault: a new context is decided by nobody's policy.                    *)
DecidingTargetOnly(r, c, cur) ==
  IF r.op = "use" /\ cur # None THEN {cur}
  ELSE {n \in Targets(r, c) : c[n] # None}

(* The contexts whose policy decides: contextPreChangePolicy,               *)
(* contextUsePreChangePolicy, or the policy of what is changed.             *)
Deciding(r, c, cur) ==
  CASE r.op \in {"set", "import"} ->
         IF c[r.name] # None THEN {r.name} ELSE {cur} \ {None}
    [] r.op = "use" -> IF cur # None THEN {cur} ELSE {r.name}
    [] OTHER -> Targets(r, c)

(* safety.Authorize for R3: without roles any operator, else an admin.      *)
MayChange(p, roles) == roles = NoRoles \/ roles[p] = "admin"

Permitted(p, r, c, cur) ==
  \A n \in Deciding(r, c, cur) : c[n] # None /\ MayChange(p, c[n].roles)

NewItem(r, i) ==
  CASE r.op \in {"set", "import"} -> r.item
    [] r.op = "migrate" -> [i EXCEPT !.pw = r.to]
    [] r.op = "delete" -> None
    [] r.op = "role" -> [i EXCEPT !.roles = [@ EXCEPT ![r.who] = r.grant]]
    [] OTHER -> i

NewConfig(r, c) ==
  [n \in Names |-> IF n \in Targets(r, c) THEN NewItem(r, c[n]) ELSE c[n]]

(* A fault: a deleted context stays the current one.                        *)
NewCurrentKept(r, cur) == IF r.op = "use" THEN r.name ELSE cur

NewCurrent(r, cur) ==
  CASE r.op = "use" -> r.name
    [] r.op = "delete" -> IF cur = r.name THEN None ELSE cur
    [] OTHER -> cur

Written(r, c, n) == IF r.op = "migrate" THEN c[n].pw ELSE r.put

-----------------------------------------------------------------------------
Init ==
  /\ \E s \in Initial :
       config = s.config /\ current = s.current /\ secret = s.secret
  /\ lock = None
  /\ pc = [p \in Commands |-> "start"]
  /\ request \in [Commands -> UNION {Requests[p] : p \in Commands}]
  /\ \A p \in Commands : request[p] \in Requests[p]
  /\ base = [p \in Commands |-> config]
  /\ prior = [p \in Commands |-> [n \in Names |-> None]]
  /\ todo = [p \in Commands |-> {}]
  /\ tried = [p \in Commands |-> {}]
  /\ clean = [p \in Commands |-> TRUE]
  /\ report = [p \in Commands |-> "none"]

Finish(p, outcome) ==
  /\ pc' = [pc EXCEPT ![p] = "done"]
  /\ report' = [report EXCEPT ![p] = outcome]

-----------------------------------------------------------------------------
(* The update.                                                              *)

(* The checks before the lock, on a first reading of the file.  A migration *)
(* without candidates ends there.                                           *)
Precheck(r, c) ==
  \/ r.op \in {"set", "use"}
  \/ r.op # "migrate" /\ Found(r, c)
  \/ r.op = "migrate" /\ Found(r, c) /\ Candidates(r, c) # {}

Ask(p) ==
  /\ pc[p] = "start"
  /\ Precheck(request[p], config)
  /\ pc' = [pc EXCEPT ![p] = "asked"]
  /\ UNCHANGED <<file, secret, lock, request, base, prior, todo, tried, clean,
                 report>>

(* The first reading, the lock, the checks under it, the mandatory reading  *)
(* of the credentials, the authorization or the intent record fails.        *)
Refuse(p) ==
  /\ pc[p] \in {"start", "asked"}
  /\ Finish(p, "refused")
  /\ UNCHANGED <<file, secret, lock, request, base, prior, todo, tried, clean>>

(* Under the lock the file is read again, checked and authorized again, the *)
(* secrets to be replaced are read, and the intent is recorded.             *)
Enter(p) ==
  /\ pc[p] = "asked"
  /\ lock = None
  /\ Found(request[p], config)
  /\ Permitted(p, request[p], config, current)
  /\ lock' = p
  /\ base' = [base EXCEPT ![p] = config]
  /\ prior' = [prior EXCEPT ![p] =
                 IF request[p].to = None THEN [n \in Names |-> None]
                                         ELSE secret[request[p].to]]
  /\ todo' = [todo EXCEPT ![p] = Writes(request[p], config)]
  /\ pc' = [pc EXCEPT ![p] = "writing"]
  /\ UNCHANGED <<file, secret, request, tried, clean, report>>

WrittenBy(p, n) == Written(request[p], base[p], n)

Store(p, n, s) == secret' = [secret EXCEPT ![request[p].to][n] = s]

Put(p, n) ==
  /\ pc[p] = "writing"
  /\ n \in todo[p]
  /\ Store(p, n, WrittenBy(p, n))
  /\ todo' = [todo EXCEPT ![p] = @ \ {n}]
  /\ tried' = [tried EXCEPT ![p] = @ \cup {n}]
  /\ UNCHANGED <<file, lock, pc, request, base, prior, clean, report>>

(* A put that returns an error may have stored the secret.  A migration     *)
(* undoes what it has put before it leaves the lock; the others leave it.   *)
PutFails(p, n) ==
  /\ pc[p] = "writing"
  /\ n \in todo[p]
  /\ Store(p, n, WrittenBy(p, n)) \/ UNCHANGED secret
  /\ tried' = [tried EXCEPT ![p] = @ \cup {n}]
  /\ IF request[p].op = "migrate"
       THEN /\ todo' = [todo EXCEPT ![p] = tried'[p]]
            /\ pc' = [pc EXCEPT ![p] = "undoing"]
            /\ UNCHANGED lock
       ELSE /\ todo' = [todo EXCEPT ![p] = {}]
            /\ pc' = [pc EXCEPT ![p] = "failed"]
            /\ lock' = None
  /\ UNCHANGED <<file, request, base, prior, clean, report>>

Replace(p) ==
  /\ config' = NewConfig(request[p], config)
  /\ current' = NewCurrent(request[p], current)

Save(p) ==
  /\ pc[p] = "writing"
  /\ todo[p] = {}
  /\ Replace(p)
  /\ lock' = None
  /\ Finish(p, "success")
  /\ UNCHANGED <<secret, request, base, prior, todo, tried, clean>>

(* The save, or the release of the lock after it, returns an error: the file*)
(* may have been replaced.  ctx use, delete and role record a failure.      *)
SaveFails(p) ==
  /\ pc[p] = "writing"
  /\ todo[p] = {}
  /\ Replace(p) \/ UNCHANGED file
  /\ lock' = None
  /\ IF request[p].op \in Reconciled
       THEN /\ pc' = [pc EXCEPT ![p] = "failed"]
            /\ UNCHANGED report
       ELSE Finish(p, "failed")
  /\ UNCHANGED <<secret, request, base, prior, todo, tried, clean>>

-----------------------------------------------------------------------------
(* Reconciliation after a failure: reconcileContextTargetState and          *)
(* reconcileCredentialMigrationState.                                       *)

Unchanged(p) ==
  \A n \in Targets(request[p], base[p]) : config[n] = base[p][n]

Committed(p) ==
  \A n \in Targets(request[p], base[p]) :
    config[n] = NewItem(request[p], base[p][n])

(* currentWriteState: what a backend holds for a name, against the write.   *)
Desired(p, n) == secret[request[p].to][n] = WrittenBy(p, n)
Previous(p, n) == ~Desired(p, n) /\ secret[request[p].to][n] = prior[p][n]

(* The secret tells a save that changed nothing from one that did not       *)
(* happen.  A migration always changes what it saves, if it saves anything. *)
SameItem(p) == Unchanged(p) /\ Committed(p) /\ request[p].op # "migrate"

Concludes(p, outcome) ==
  LET r == request[p] IN
  CASE outcome = "committed" ->
         \/ Committed(p) /\ ~Unchanged(p)
         \/ SameItem(p) /\ r.to = None
         \/ SameItem(p) /\ r.to # None /\ r.to \notin Vaults /\ Desired(p, r.name)
    [] outcome = "restored" ->
         SameItem(p) /\ r.to # None /\ r.to \notin Vaults /\ Previous(p, r.name)
    [] outcome = "failed" -> Unchanged(p) /\ ~Committed(p) /\ r.to = None
    [] OTHER -> TRUE  \* "unknown": some other case, or an error on the way

Conclude(p) ==
  /\ pc[p] = "failed"
  /\ lock = None
  /\ \E outcome \in {"committed", "restored", "failed", "unknown"} :
       Concludes(p, outcome) /\ Finish(p, outcome)
  /\ UNCHANGED <<file, secret, lock, request, base, prior, todo, tried, clean>>

(* A fault: the undo does not look whether the save took effect.            *)
RestoreAnyway(p) ==
  /\ pc[p] = "failed"
  /\ lock = None
  /\ request[p].to \notin Vaults \cup {None}
  /\ lock' = p
  /\ todo' = [todo EXCEPT ![p] = tried[p]]
  /\ pc' = [pc EXCEPT ![p] = "restoring"]
  /\ UNCHANGED <<file, secret, request, base, prior, tried, clean, report>>

(* The save did not happen: undo, under the lock.                           *)
Restore(p) ==
  /\ pc[p] = "failed"
  /\ lock = None
  /\ Unchanged(p)
  /\ ~SameItem(p)
  /\ request[p].to \notin Vaults \cup {None}
  /\ lock' = p
  /\ todo' = [todo EXCEPT ![p] = tried[p]]
  /\ pc' = [pc EXCEPT ![p] = "restoring"]
  /\ UNCHANGED <<file, secret, request, base, prior, tried, clean, report>>

-----------------------------------------------------------------------------
(* compensate.                                                              *)

(* A fault: whatever the backend holds is replaced.                         *)
UndoBlindly(p, n) ==
  /\ pc[p] \in {"undoing", "restoring"}
  /\ n \in todo[p]
  /\ Store(p, n, prior[p][n])
  /\ todo' = [todo EXCEPT ![p] = @ \ {n}]
  /\ UNCHANGED <<file, lock, pc, request, base, prior, tried, clean, report>>

Undo(p, n) ==
  /\ pc[p] \in {"undoing", "restoring"}
  /\ n \in todo[p]
  /\ \/ Desired(p, n) /\ Store(p, n, prior[p][n])
     \/ Previous(p, n) /\ UNCHANGED secret
  /\ todo' = [todo EXCEPT ![p] = @ \ {n}]
  /\ UNCHANGED <<file, lock, pc, request, base, prior, tried, clean, report>>

(* A fault: an undo that fails is forgotten.                                *)
UndoFailsSilently(p, n) ==
  /\ pc[p] \in {"undoing", "restoring"}
  /\ n \in todo[p]
  /\ (Desired(p, n) /\ Store(p, n, prior[p][n])) \/ UNCHANGED secret
  /\ todo' = [todo EXCEPT ![p] = @ \ {n}]
  /\ UNCHANGED <<file, lock, pc, request, base, prior, tried, clean, report>>

(* The reading fails, the secret is someone else's and stays, or the        *)
(* restoring put or delete returns an error, after it acted or before.      *)
UndoFails(p, n) ==
  /\ pc[p] \in {"undoing", "restoring"}
  /\ n \in todo[p]
  /\ \/ Desired(p, n) /\ Store(p, n, prior[p][n])
     \/ UNCHANGED secret
  /\ todo' = [todo EXCEPT ![p] = @ \ {n}]
  /\ clean' = [clean EXCEPT ![p] = FALSE]
  /\ UNCHANGED <<file, lock, pc, request, base, prior, tried, report>>

(* Outside the update, failing to release the lock makes the state unknown. *)
EndUndo(p) ==
  /\ pc[p] \in {"undoing", "restoring"}
  /\ todo[p] = {}
  /\ lock' = None
  /\ \/ Finish(p, IF clean[p] THEN "restored" ELSE "incomplete")
     \/ pc[p] = "restoring" /\ Finish(p, "unknown")
  /\ UNCHANGED <<file, secret, request, base, prior, todo, tried, clean>>

-----------------------------------------------------------------------------
(* A fault: the process dies; the two stores keep what they have.           *)
Crash(p) ==
  /\ pc[p] \in Inside \cup {"asked", "failed"}
  /\ pc' = [pc EXCEPT ![p] = "crashed"]
  /\ lock' = IF lock = p THEN None ELSE lock
  /\ UNCHANGED <<file, secret, request, base, prior, todo, tried, clean, report>>

(* A fault: another machine removes what is in the vault.  What it puts     *)
(* there instead makes no difference: no command reads a vault again.       *)
Outsider ==
  /\ \E b \in Vaults, n \in Names :
       secret' = [secret EXCEPT ![b][n] = None]
  /\ UNCHANGED <<file, lock, pc, request, base, prior, todo, tried, clean, report>>

Step(p) ==
  \/ Ask(p) \/ Refuse(p) \/ Enter(p) \/ Save(p) \/ SaveFails(p)
  \/ Conclude(p) \/ Restore(p) \/ EndUndo(p) \/ Crash(p)
  \/ \E n \in Names : Put(p, n) \/ PutFails(p, n) \/ Undo(p, n) \/ UndoFails(p, n)

Next == Outsider \/ \E p \in Commands : Step(p)

Spec == Init /\ [][Next]_vars

-----------------------------------------------------------------------------
(* Properties.                                                              *)

TypeOK ==
  /\ config \in Files /\ current \in Names \cup {None}
  /\ secret \in Stores
  /\ lock \in Commands \cup {None}
  /\ pc \in [Commands -> PCs]
  /\ request \in [Commands -> AnyRequest]
  /\ base \in [Commands -> Files]
  /\ prior \in [Commands -> [Names -> Stored]]
  /\ todo \in [Commands -> SUBSET Names]
  /\ tried \in [Commands -> SUBSET Names]
  /\ clean \in [Commands -> BOOLEAN]
  /\ report \in [Commands -> Reports]

(* The current context exists: no use, delete, import or failed save leaves *)
(* the file pointing at a context that is gone, where every later change    *)
(* would be refused (contextPreChangePolicy).                               *)
CurrentExists == current # None => config[current] # None

Asked == \A p \in Commands : request[p] \in Requests[p]

(* Whoever holds the lock is inside, and nobody else is.                    *)
LockHeld == \A p \in Commands : pc[p] \in Inside <=> lock = p

Local(p) == request[p].to \notin Vaults \cup {None}
InStore(p, n) == secret[request[p].to][n]

(* What a command has read stays true while it holds the lock.              *)
FreshInside ==
  \A p \in Commands : pc[p] \in {"writing", "undoing"} =>
    /\ base[p] = config
    /\ Found(request[p], config)
    /\ Permitted(p, request[p], config, current)

Targeted(p) == Writes(request[p], base[p])

Writing ==
  \A p \in Commands : pc[p] = "writing" =>
    /\ todo[p] \cup tried[p] = Targeted(p) /\ todo[p] \cap tried[p] = {}
    /\ clean[p]
    /\ Local(p) => \A n \in Targeted(p) :
         InStore(p, n) = IF n \in todo[p] THEN prior[p][n] ELSE WrittenBy(p, n)

(* A command that left the lock after a failure wrote all that it tried,    *)
(* once it reconciles; the file is as it was while it undoes.               *)
Undoing ==
  \A p \in Commands :
    /\ pc[p] = "start" \/ pc[p] = "asked" => tried[p] = {} /\ clean[p]
    /\ pc[p] = "failed" => /\ request[p].op \in Reconciled
                           /\ clean[p]
                           /\ tried[p] = Targeted(p)
    /\ pc[p] = "undoing" => request[p].op = "migrate"
    /\ pc[p] \in {"undoing", "restoring"} =>
         /\ Local(p) /\ request[p].op \in Reconciled
         /\ todo[p] \subseteq tried[p] /\ tried[p] \subseteq Targeted(p)
         /\ Unchanged(p)
         /\ clean[p] => \A n \in tried[p] \ todo[p] : InStore(p, n) = prior[p][n]

IInv ==
  /\ TypeOK
  /\ Asked
  /\ CurrentExists
  /\ LockHeld
  /\ FreshInside
  /\ Writing
  /\ Undoing

(* What a context resolves its password to: credstore reads a reference in  *)
(* the backend it names, under the name of the context.                     *)
Credential(n) ==
  IF config[n] = None THEN None
  ELSE IF config[n].pw \in Backends THEN secret[config[n].pw][n]
  ELSE config[n].pw

Acts(p) == pc'[p] # pc[p] \/ todo'[p] # todo[p]

(* A migration never changes what a context logs in with: not while it puts *)
(* secrets, not when it fails half way, not when it undoes after others have*)
(* changed the file, and not when it dies (migrateCredentialsLocked).       *)
MigrationPreserves ==
  [][\A p \in Commands : request[p].op = "migrate" /\ Acts(p) =>
       \A n \in Names : Credential(n)' = Credential(n)]_vars

(* An outcome tells the truth when it is recorded: success has replaced the *)
(* contexts and stored the secrets; restored has left both stores as they   *)
(* were; failed with reconciliation has left the file; committed has        *)
(* replaced it (reconcileContextMutationFailure).                           *)
ReportHonest ==
  [][\A p \in Commands : report'[p] # report[p] =>
       LET r == request[p]
           c == base[p]
       IN /\ report'[p] = "success" =>
               /\ \A n \in Targets(r, c) : config'[n] = NewItem(r, c[n])
               /\ Local(p) => \A n \in Targeted(p) : InStore(p, n)' = WrittenBy(p, n)
          /\ report'[p] = "restored" =>
               /\ \A n \in Targets(r, c) : config'[n] = c[n]
               /\ \A n \in tried[p] : InStore(p, n)' = prior[p][n]
          /\ report'[p] = "failed" /\ r.op \in Reconciled =>
               \A n \in Targets(r, c) : config'[n] = c[n]
          /\ report'[p] = "committed" =>
               \A n \in Targets(r, c) : config'[n] = NewItem(r, c[n])]_vars

(* Nobody changes a context, adds one, or changes the current one against   *)
(* the policy in force when the file is replaced, whatever the file said    *)
(* when the command started: a context is changed by its own admins, a new  *)
(* one is added and the current one left by those of the current context.   *)
NoEscalation ==
  [][\A p \in Commands : lock = p =>
       /\ \A n \in Names : config'[n] # config[n] =>
            IF config[n] # None THEN MayChange(p, config[n].roles)
            ELSE current # None => MayChange(p, config[current].roles)
       /\ current' # current =>
            MayChange(p, config[IF current # None THEN current ELSE current'].roles)]_vars

(* A secret that a successful command stored in a local backend is replaced *)
(* only by a write under the lock, never by another command's undoing.  It  *)
(* needs secrets that tell their commands apart (SecretsApart): an undoing  *)
(* recognizes its own secret by its value.                                  *)
SuccessKept ==
  [][\A p \in Commands : \A n \in tried[p] :
       /\ report[p] = "success" /\ Local(p)
       /\ InStore(p, n) = WrittenBy(p, n) /\ InStore(p, n)' # InStore(p, n)
       => lock # None /\ pc[lock] = "writing"]_vars

(* What a command may put in a backend, or write into the file in the clear.*)
Brings(p) == {s \in Secrets : \E r \in Requests[p] : s \in {r.put, r.item.pw}}
InTheFile ==
  {s \in Secrets : \E i \in Initial, n \in Names : i.config[n] # None /\ i.config[n].pw = s}

SecretsApart ==
  \A p \in Commands :
    /\ Brings(p) \cap InTheFile = {}
    /\ \A q \in Commands : p # q => Brings(p) \cap Brings(q) = {}

(* Behind SuccessKept: a literal in the file was there at the start, or was *)
(* saved by a command that will not save again; a literal that a migration  *)
(* has replaced is gone for good.                                           *)
BroughtBy(s, p) == request[p].item.pw = s /\ pc[p] \notin {"start", "asked", "writing"}
Came(s) == s \in InTheFile \/ \E p \in Commands : BroughtBy(s, p)
HasLiteral(n, s) == config[n] # None /\ config[n].pw = s
Migrated(p, n) == /\ report[p] = "success" /\ request[p].op = "migrate"
                  /\ n \in Targeted(p)

SecretInv ==
  /\ \A n \in Names, s \in Secrets : HasLiteral(n, s) => Came(s)
  /\ \A p \in Commands : report[p] = "success" => pc[p] = "done" /\ tried[p] \subseteq Targeted(p)
  /\ \A p \in Commands, n \in Names :
       Migrated(p, n) => Came(WrittenBy(p, n)) /\ ~HasLiteral(n, WrittenBy(p, n))
=============================================================================
