--------------------------- MODULE Contexts_proofs ---------------------------
(* Proofs about Contexts for any commands, names, credentials and requests. *)
EXTENDS Contexts, TLAPS

-----------------------------------------------------------------------------
(* What the operators on a request and a context file return.               *)

(* A command writes secrets only to its targets, which are names, and a     *)
(* target of a migration is a context with a literal secret.                *)
LEMMA TargetFacts ==
  ASSUME NEW r \in AnyRequest, NEW c \in Files
  PROVE  /\ Targets(r, c) \subseteq Names
         /\ Writes(r, c) \subseteq Targets(r, c)
         /\ r.to = None => Writes(r, c) = {}
         /\ r.to # None => Writes(r, c) = Targets(r, c)
         /\ r.op # "migrate" => Targets(r, c) = {r.name}
         /\ r.op = "migrate" =>
              \A n \in Targets(r, c) : c[n] # None /\ c[n].pw \in Secrets
  BY DEF AnyRequest, Targets, Writes, Candidates

(* What a command writes is a secret.                                       *)
LEMMA WrittenFacts ==
  ASSUME NEW r \in AnyRequest, WellFormed(r), NEW c \in Files, NEW n \in Writes(r, c)
  PROVE  Written(r, c, n) \in Secrets
<1>1. r.to # None /\ n \in Targets(r, c)
  BY TargetFacts
<1>2. CASE r.op = "migrate"
  BY <1>1, <1>2, TargetFacts DEF Written
<1>3. CASE r.op # "migrate"
  <2>1. r.op \in {"set", "import"}
    BY <1>1, <1>3 DEF WellFormed, Reconciled, AnyRequest, Ops
  <2>2. r.put # None /\ r.put \in Stored
    BY <1>1, <2>1 DEF WellFormed, AnyRequest
  <2> QED
    BY <1>3, <2>2 DEF Written, Stored
<1> QED
  BY <1>2, <1>3

(* A context that is changed and found becomes a context, or disappears.    *)
LEMMA NewItemFacts ==
  ASSUME NEW r \in AnyRequest, WellFormed(r), NEW c \in Files, Found(r, c),
         NEW n \in Targets(r, c)
  PROVE  /\ NewItem(r, c[n]) \in Slots
         /\ r.op # "delete" => NewItem(r, c[n]) # None
<1>1. n \in Names /\ c[n] \in Slots
  BY TargetFacts DEF Files
<1>2. CASE r.op \in {"set", "import"}
  BY <1>2, ConstantsOK DEF NewItem, AnyRequest, Slots
<1>3. CASE r.op = "migrate"
  <2>1. c[n] \in Items /\ r.to \in Backends
    BY <1>1, <1>3, TargetFacts DEF Slots, WellFormed
  <2>2. [c[n] EXCEPT !.pw = r.to] \in Items
    BY <2>1 DEF Items
  <2> QED
    BY <1>3, <2>2, ConstantsOK DEF NewItem, Slots
<1>4. CASE r.op = "delete"
  BY <1>4 DEF NewItem, Slots
<1>5. CASE r.op \in {"use", "role"}
  <2>1. n = r.name /\ c[n] # None
    BY <1>5, TargetFacts DEF Found
  <2>2. c[n] \in Items
    BY <1>1, <2>1 DEF Slots
  <2>3. c[n].roles \in Roles /\ r.who \in Commands /\ r.grant \in Grants
    BY <2>2 DEF Items, AnyRequest
  <2>4. [c[n].roles EXCEPT ![r.who] = r.grant] \in Roles
    BY <2>3 DEF Roles
  <2>5. [c[n] EXCEPT !.roles = [@ EXCEPT ![r.who] = r.grant]] \in Items
    BY <2>2, <2>4 DEF Items
  <2> QED
    BY <1>5, <2>1, <2>2, <2>5, ConstantsOK DEF NewItem, Slots
<1> QED
  BY <1>2, <1>3, <1>4, <1>5 DEF AnyRequest, Ops

(* The file that a command saves is well formed, and has its current        *)
(* context if the one it read had.                                          *)
LEMMA NewFileFacts ==
  ASSUME NEW r \in AnyRequest, WellFormed(r), NEW c \in Files, Found(r, c),
         NEW cur \in Names \cup {None}, cur # None => c[cur] # None
  PROVE  /\ NewConfig(r, c) \in Files
         /\ NewCurrent(r, cur) \in Names \cup {None}
         /\ NewCurrent(r, cur) # None => NewConfig(r, c)[NewCurrent(r, cur)] # None
<1>1. NewConfig(r, c) \in Files
  BY NewItemFacts DEF NewConfig, Files
<1>2. NewCurrent(r, cur) \in Names \cup {None}
  BY DEF NewCurrent, AnyRequest
<1>3. ASSUME NewCurrent(r, cur) # None
      PROVE  NewConfig(r, c)[NewCurrent(r, cur)] # None
  <2>1. CASE r.op = "delete"
    <3>1. NewCurrent(r, cur) = cur /\ cur # r.name /\ cur \in Names
      BY <1>3, <2>1 DEF NewCurrent
    <3>2. cur \notin Targets(r, c)
      BY <2>1, <3>1, TargetFacts
    <3> QED
      BY <1>3, <3>1, <3>2 DEF NewConfig
  <2>2. CASE r.op # "delete"
    <3>1. NewCurrent(r, cur) \in Names /\ c[NewCurrent(r, cur)] # None
      BY <1>2, <1>3, <2>2 DEF NewCurrent, Found
    <3> QED
      BY <2>2, <3>1, NewItemFacts DEF NewConfig
  <2> QED
    BY <2>1, <2>2
<1> QED
  BY <1>1, <1>2, <1>3

(* What the invariant says of one command.                                  *)
LEMMA CommandFacts ==
  ASSUME IInv, NEW p \in Commands
  PROVE  /\ request[p] \in AnyRequest /\ WellFormed(request[p])
         /\ base[p] \in Files
         /\ config \in Files /\ current \in Names \cup {None}
         /\ Targeted(p) \subseteq Names
         /\ \A n \in Targeted(p) : request[p].to \in Backends /\ WrittenBy(p, n) \in Secrets
         /\ \A q \in Commands : p # q /\ pc[p] \in Inside => pc[q] \notin Inside
<1>1. /\ request[p] \in AnyRequest /\ request[p] \in Requests[p]
      /\ base[p] \in Files
      /\ config \in Files /\ current \in Names \cup {None}
  BY DEF IInv, TypeOK, Asked
<1>2. WellFormed(request[p])
  BY <1>1, ConstantsOK
<1>3. Targeted(p) \subseteq Names
  BY <1>1, TargetFacts DEF Targeted
<1>4. ASSUME NEW n \in Targeted(p)
      PROVE  request[p].to \in Backends /\ WrittenBy(p, n) \in Secrets
  <2>1. request[p].to # None
    BY <1>1, <1>4, TargetFacts DEF Targeted
  <2> QED
    BY <1>1, <1>2, <1>4, <2>1, WrittenFacts DEF Targeted, WrittenBy, AnyRequest
<1>5. \A q \in Commands : p # q /\ pc[p] \in Inside => pc[q] \notin Inside
  BY DEF IInv, LockHeld
<1> QED
  BY <1>1, <1>2, <1>3, <1>4, <1>5

-----------------------------------------------------------------------------
(* Every step keeps the inductive invariant.                                *)

LEMMA InitIInv == Init => IInv
<1> SUFFICES ASSUME Init PROVE IInv
  OBVIOUS
<1>1. PICK s \in Initial : config = s.config /\ current = s.current /\ secret = s.secret
  BY DEF Init
<1>2. s.config \in Files /\ s.current \in Names \cup {None} /\ s.secret \in Stores
  BY ConstantsOK
<1>3. Asked /\ request \in [Commands -> AnyRequest]
  BY ConstantsOK DEF Init, Asked
<1>4. TypeOK
  BY <1>1, <1>2, <1>3 DEF Init, TypeOK, PCs, Stored, Reports
<1>5. CurrentExists
  BY <1>1, ConstantsOK DEF CurrentExists
<1> QED
  BY <1>3, <1>4, <1>5, ConstantsOK
  DEF Init, IInv, LockHeld, FreshInside, Writing, Undoing, Inside

(* The steps outside the lock that touch only where the command is.         *)
Waits(p) == Ask(p) \/ Refuse(p) \/ Conclude(p)

LEMMA WaitsKeeps ==
  ASSUME IInv, NEW p \in Commands, Waits(p)
  PROVE  IInv'
<1>1. /\ UNCHANGED <<file, secret, lock, request, base, prior, todo, tried, clean>>
      /\ pc[p] \in {"start", "asked", "failed"}
      /\ \/ pc' = [pc EXCEPT ![p] = "asked"] /\ pc[p] = "start" /\ UNCHANGED report
         \/ pc' = [pc EXCEPT ![p] = "done"] /\ report' \in [Commands -> Reports]
  BY DEF IInv, TypeOK, Reports, Waits, Ask, Refuse, Conclude, Finish
<1>2. TypeOK'
  BY <1>1 DEF IInv, TypeOK, PCs, file
<1>3. Asked' /\ CurrentExists'
  BY <1>1 DEF IInv, Asked, CurrentExists, file
<1>4. LockHeld'
  BY <1>1 DEF IInv, TypeOK, LockHeld, Inside
<1>5. FreshInside'
  BY <1>1 DEF IInv, TypeOK, FreshInside, file
<1>6. Writing'
  BY <1>1 DEF IInv, TypeOK, Writing, Targeted, Local, InStore, WrittenBy
<1>7. Undoing'
  BY <1>1 DEF IInv, TypeOK, Undoing, Targeted, Local, InStore, Unchanged, file
<1> QED
  BY <1>2, <1>3, <1>4, <1>5, <1>6, <1>7 DEF IInv

LEMMA EnterKeeps ==
  ASSUME IInv, NEW p \in Commands, Enter(p)
  PROVE  IInv'
<1>1. UNCHANGED <<file, secret, request, tried, clean, report>>
  BY DEF Enter
<1>2. TypeOK'
  <2>1. request[p] \in AnyRequest /\ config \in Files
    BY CommandFacts
  <2>2. Writes(request[p], config) \subseteq Names
    BY <2>1, TargetFacts
  <2>3. prior' \in [Commands -> [Names -> Stored]]
    <3>1. request[p].to = None \/ secret[request[p].to] \in [Names -> Stored]
      BY <2>1 DEF IInv, TypeOK, AnyRequest, Stores
    <3>2. [n \in Names |-> None] \in [Names -> Stored]
      BY DEF Stored
    <3> QED
      BY <3>1, <3>2 DEF IInv, TypeOK, Enter
  <2> QED
    BY <1>1, <2>1, <2>2, <2>3 DEF IInv, TypeOK, Enter, PCs, Inside, file
<1>3. Asked' /\ CurrentExists'
  BY <1>1 DEF IInv, Asked, CurrentExists, file
<1>4. LockHeld'
  BY ConstantsOK DEF IInv, TypeOK, LockHeld, Enter, Inside
<1>5. \A q \in Commands : pc[q] \notin Inside
  BY ConstantsOK DEF IInv, LockHeld, Enter
<1>6. FreshInside'
  <2>1. \A q \in Commands : q # p => pc'[q] \notin Inside
    BY <1>5 DEF IInv, TypeOK, Enter
  <2> QED
    BY <1>1, <2>1 DEF IInv, TypeOK, FreshInside, Enter, Inside, file
<1>7. Writing'
  <2>1. SUFFICES ASSUME NEW q \in Commands, pc'[q] = "writing"
                 PROVE  /\ (todo[q] \cup tried[q] = Targeted(q))'
                        /\ (todo[q] \cap tried[q] = {})'
                        /\ clean'[q]
                        /\ Local(q)' => \A n \in Targeted(q)' :
                             InStore(q, n)' = IF n \in todo'[q] THEN prior'[q][n]
                                              ELSE WrittenBy(q, n)'
    BY DEF Writing
  <2>2. q = p
    BY <1>5, <2>1 DEF IInv, TypeOK, Enter, Inside
  <2>3. tried[p] = {} /\ clean[p]
    BY DEF IInv, Undoing, Enter
  <2>4. Targeted(p)' = Writes(request[p], config) /\ todo'[p] = Writes(request[p], config)
    BY <1>1 DEF IInv, TypeOK, Targeted, Enter
  <2>5. Local(p)' => prior'[p] = secret[request[p].to]
    BY <1>1 DEF IInv, TypeOK, Local, Enter
  <2> QED
    BY <1>1, <2>2, <2>3, <2>4, <2>5 DEF InStore
<1>8. Undoing'
  BY <1>1, <1>5 DEF IInv, TypeOK, Undoing, Enter, Inside, Targeted
<1> QED
  BY <1>2, <1>3, <1>4, <1>6, <1>7, <1>8 DEF IInv

(* A write or an undo of one name leaves the secrets of the others.         *)
LEMMA StoreFacts ==
  ASSUME IInv, NEW p \in Commands, NEW n \in Targeted(p), NEW s \in Stored, Store(p, n, s)
  PROVE  /\ secret' \in Stores
         /\ secret'[request[p].to][n] = s
         /\ \A m \in Names : m # n =>
              secret'[request[p].to][m] = secret[request[p].to][m]
<1>1. request[p].to \in Backends /\ n \in Names
  BY CommandFacts
<1> QED
  BY <1>1 DEF IInv, TypeOK, Stores, Store

LEMMA PutKeeps ==
  ASSUME IInv, NEW p \in Commands, NEW n \in Names, Put(p, n)
  PROVE  IInv'
<1>1. /\ pc[p] = "writing" /\ n \in Targeted(p) /\ n \in todo[p]
      /\ UNCHANGED <<file, lock, pc, request, base, prior, clean, report>>
  BY DEF IInv, Writing, Put
<1>2. WrittenBy(p, n) \in Stored
  BY <1>1, CommandFacts DEF Stored
<1>3. /\ secret' \in Stores
      /\ secret'[request[p].to][n] = WrittenBy(p, n)
      /\ \A m \in Names : m # n => secret'[request[p].to][m] = secret[request[p].to][m]
  BY <1>1, <1>2, StoreFacts DEF Put
<1>4. TypeOK'
  BY <1>1, <1>3 DEF IInv, TypeOK, Put, file
<1>5. Asked' /\ CurrentExists' /\ LockHeld' /\ FreshInside'
  BY <1>1 DEF IInv, Asked, CurrentExists, LockHeld, FreshInside, file
<1>6. \A q \in Commands : q # p => pc[q] \notin Inside /\ tried'[q] = tried[q]
  BY <1>1, CommandFacts DEF Put, Inside, IInv, TypeOK
<1>7. Writing'
  <2>1. SUFFICES ASSUME NEW q \in Commands, pc'[q] = "writing"
                 PROVE  /\ (todo[q] \cup tried[q] = Targeted(q))'
                        /\ (todo[q] \cap tried[q] = {})'
                        /\ clean'[q]
                        /\ Local(q)' => \A m \in Targeted(q)' :
                             InStore(q, m)' = IF m \in todo'[q] THEN prior'[q][m]
                                              ELSE WrittenBy(q, m)'
    BY DEF Writing
  <2>2. q = p
    BY <1>1, <1>6, <2>1 DEF Inside
  <2>3. Targeted(p)' = Targeted(p) /\ Local(p)' = Local(p)
        /\ \A m \in Names : WrittenBy(p, m)' = WrittenBy(p, m)
    BY <1>1 DEF Targeted, Local, WrittenBy
  <2>4. todo'[p] = todo[p] \ {n} /\ tried'[p] = tried[p] \cup {n}
    BY DEF IInv, TypeOK, Put
  <2>5. Targeted(p) \subseteq Names
    BY CommandFacts
  <2> QED
    BY <1>1, <1>3, <2>2, <2>3, <2>4, <2>5 DEF IInv, Writing, InStore
<1>8. Undoing'
  BY <1>1, <1>6 DEF IInv, Undoing, Targeted, Inside
<1> QED
  BY <1>4, <1>5, <1>7, <1>8 DEF IInv

(* While it undoes, a command finds its targets as it read them.            *)
LEMMA PutFailsKeeps ==
  ASSUME IInv, NEW p \in Commands, NEW n \in Names, PutFails(p, n)
  PROVE  IInv'
<1>1. /\ pc[p] = "writing" /\ n \in Targeted(p) /\ n \in todo[p]
      /\ UNCHANGED <<file, request, base, prior, clean, report>>
      /\ base[p] = config /\ clean[p]
  BY DEF IInv, Writing, FreshInside, PutFails
<1>2. secret' \in Stores
  <2>1. CASE Store(p, n, WrittenBy(p, n))
    BY <1>1, <2>1, CommandFacts, StoreFacts DEF Stored
  <2>2. CASE UNCHANGED secret
    BY <2>2 DEF IInv, TypeOK
  <2> QED
    BY <2>1, <2>2 DEF PutFails
<1>3. tried' = [tried EXCEPT ![p] = @ \cup {n}] /\ tried'[p] = tried[p] \cup {n}
  BY DEF IInv, TypeOK, PutFails
<1>4. \A q \in Commands : q # p => pc[q] \notin Inside /\ tried'[q] = tried[q]
  BY <1>1, <1>3, CommandFacts DEF Inside, IInv, TypeOK
<1>5. n \in Names /\ request[p].to \in Backends /\ request[p] \in AnyRequest
      /\ WellFormed(request[p]) /\ Targeted(p) = Targets(request[p], base[p])
  BY <1>1, CommandFacts, TargetFacts, ConstantsOK DEF Targeted
<1>6. request[p].op \in Reconciled
  BY <1>5, ConstantsOK DEF WellFormed
<1>7. CASE request[p].op = "migrate"
  <2>1. /\ todo' = [todo EXCEPT ![p] = tried[p] \cup {n}]
        /\ pc' = [pc EXCEPT ![p] = "undoing"]
        /\ UNCHANGED lock
    BY <1>3, <1>7 DEF PutFails
  <2>2. TypeOK'
    BY <1>1, <1>2, <1>3, <2>1 DEF IInv, TypeOK, PCs, Inside, file
  <2>3. Asked' /\ CurrentExists' /\ LockHeld' /\ FreshInside'
    BY <1>1, <2>1 DEF IInv, TypeOK, Asked, CurrentExists, LockHeld, FreshInside, Inside, file
  <2>4. Writing'
    BY <1>4, <2>1 DEF IInv, TypeOK, Writing, Inside
  <2>5. Undoing'
    <3>1. Targeted(p)' = Targeted(p) /\ Local(p)' /\ Unchanged(p)'
      BY <1>1, <1>5, <1>7, ConstantsOK DEF Targeted, Local, Unchanged, file, WellFormed
    <3>2. tried[p] \cup {n} \subseteq Targeted(p)
      BY <1>1 DEF IInv, Writing
    <3>3. /\ pc'[p] = "undoing" /\ todo'[p] = tried'[p]
          /\ \A q \in Commands : q # p => pc'[q] = pc[q] /\ todo'[q] = todo[q]
      BY <1>3, <2>1 DEF IInv, TypeOK
    <3> QED
      BY <1>1, <1>3, <1>4, <1>6, <1>7, <3>1, <3>2, <3>3
      DEF IInv, Undoing, Targeted, Inside
  <2> QED
    BY <2>2, <2>3, <2>4, <2>5 DEF IInv
<1>8. CASE request[p].op # "migrate"
  <2>1. /\ todo' = [todo EXCEPT ![p] = {}]
        /\ pc' = [pc EXCEPT ![p] = "failed"]
        /\ lock' = None
    BY <1>8 DEF PutFails
  <2>2. TypeOK'
    BY <1>1, <1>2, <1>3, <2>1 DEF IInv, TypeOK, PCs, Inside, file
  <2>3. Asked' /\ CurrentExists'
    BY <1>1 DEF IInv, Asked, CurrentExists, file
  <2>4. \A q \in Commands : pc'[q] \notin Inside
    BY <1>4, <2>1 DEF IInv, TypeOK, Inside
  <2>5. LockHeld' /\ FreshInside' /\ Writing'
    BY <2>1, <2>4, ConstantsOK DEF LockHeld, FreshInside, Writing, Inside
  <2>6. tried'[p] = Targeted(p)
    <3>1. Targeted(p) = {request[p].name}
      BY <1>5, <1>8, TargetFacts, CommandFacts
    <3>2. tried[p] \subseteq Targeted(p)
      BY <1>1 DEF IInv, Writing
    <3> QED
      BY <1>1, <1>3, <3>1, <3>2
  <2>7. Undoing'
    BY <1>1, <1>4, <1>6, <2>1, <2>4, <2>6 DEF IInv, TypeOK, Undoing, Targeted, Inside
  <2> QED
    BY <2>2, <2>3, <2>5, <2>7 DEF IInv
<1> QED
  BY <1>7, <1>8

LEMMA SaveKeeps ==
  ASSUME IInv, NEW p \in Commands, Save(p) \/ SaveFails(p)
  PROVE  IInv'
<1>1. /\ pc[p] = "writing" /\ todo[p] = {} /\ lock' = None
      /\ UNCHANGED <<secret, request, base, prior, todo, tried, clean>>
      /\ Replace(p) \/ UNCHANGED file
      /\ \/ pc' = [pc EXCEPT ![p] = "done"] /\ report' \in [Commands -> Reports]
         \/ /\ pc' = [pc EXCEPT ![p] = "failed"] /\ UNCHANGED report
            /\ request[p].op \in Reconciled
  BY DEF IInv, TypeOK, Save, SaveFails, Finish, Reports
<1>2. config' \in Files /\ current' \in Names \cup {None} /\ CurrentExists'
  <2>1. CASE Replace(p)
    <3>1. Found(request[p], config) /\ (current # None => config[current] # None)
      BY <1>1 DEF IInv, FreshInside, CurrentExists
    <3> QED
      BY <2>1, <3>1, CommandFacts, NewFileFacts DEF Replace, CurrentExists
  <2>2. CASE UNCHANGED file
    BY <2>2 DEF IInv, TypeOK, CurrentExists, file
  <2> QED
    BY <1>1, <2>1, <2>2
<1>3. TypeOK'
  BY <1>1, <1>2 DEF IInv, TypeOK, PCs
<1>4. Asked'
  BY <1>1 DEF IInv, Asked
<1>5. \A q \in Commands : pc'[q] \notin Inside /\ (q # p => pc'[q] = pc[q])
  BY <1>1, CommandFacts DEF IInv, TypeOK, Inside
<1>6. LockHeld' /\ FreshInside' /\ Writing'
  BY <1>1, <1>5, ConstantsOK DEF LockHeld, FreshInside, Writing, Inside
<1>7. Undoing'
  <2>1. tried[p] = Targeted(p) /\ clean[p]
    BY <1>1 DEF IInv, Writing
  <2> QED
    BY <1>1, <1>5, <2>1 DEF IInv, TypeOK, Undoing, Targeted, Inside
<1> QED
  BY <1>2, <1>3, <1>4, <1>6, <1>7 DEF IInv

LEMMA RestoreKeeps ==
  ASSUME IInv, NEW p \in Commands, Restore(p)
  PROVE  IInv'
<1>1. /\ pc[p] = "failed" /\ lock = None /\ lock' = p
      /\ UNCHANGED <<file, secret, request, base, prior, tried, clean, report>>
      /\ pc' = [pc EXCEPT ![p] = "restoring"]
      /\ todo' = [todo EXCEPT ![p] = tried[p]]
      /\ Unchanged(p) /\ Local(p)
  BY DEF Restore, Local
<1>2. TypeOK'
  BY <1>1 DEF IInv, TypeOK, PCs, Inside, file
<1>3. Asked' /\ CurrentExists'
  BY <1>1 DEF IInv, Asked, CurrentExists, file
<1>4. \A q \in Commands : pc[q] \notin Inside
  BY <1>1, ConstantsOK DEF IInv, LockHeld
<1>5. pc'[p] = "restoring" /\ \A q \in Commands : q # p => pc'[q] = pc[q]
  BY <1>1 DEF IInv, TypeOK
<1>6. LockHeld' /\ FreshInside' /\ Writing'
  BY <1>1, <1>4, <1>5, ConstantsOK DEF LockHeld, FreshInside, Writing, Inside
<1>7. Undoing'
  <2>1. Targeted(p)' = Targeted(p) /\ Unchanged(p)' /\ Local(p)'
    BY <1>1 DEF Targeted, Unchanged, Local, file
  <2>2. todo'[p] = tried[p] /\ tried'[p] = tried[p] /\ tried[p] = Targeted(p)
        /\ request[p].op \in Reconciled
    BY <1>1 DEF IInv, TypeOK, Undoing
  <2> QED
    BY <1>1, <1>4, <1>5, <2>1, <2>2 DEF IInv, Undoing, Targeted, Inside
<1> QED
  BY <1>2, <1>3, <1>6, <1>7 DEF IInv

(* An undo leaves what is undone of the others, and one that counts has     *)
(* restored its own.                                                        *)
LEMMA UndoKeeps ==
  ASSUME IInv, NEW p \in Commands, NEW n \in Names, Undo(p, n) \/ UndoFails(p, n)
  PROVE  IInv'
<1>1. /\ pc[p] \in {"undoing", "restoring"} /\ n \in todo[p] /\ n \in tried[p]
      /\ todo' = [todo EXCEPT ![p] = @ \ {n}]
      /\ clean' = clean \/ clean' = [clean EXCEPT ![p] = FALSE]
      /\ Store(p, n, prior[p][n]) \/ UNCHANGED secret
      /\ UNCHANGED <<file, lock, pc, request, base, prior, tried, report>>
  BY DEF Undo, UndoFails, IInv, Undoing
<1>2. n \in Targeted(p) /\ prior[p][n] \in Stored
  BY <1>1 DEF IInv, Undoing, TypeOK
<1>3. /\ secret' \in Stores
      /\ \A m \in Names : m # n => secret'[request[p].to][m] = secret[request[p].to][m]
      /\ clean'[p] => secret'[request[p].to][n] = prior[p][n]
  <2>1. CASE Undo(p, n)
    <3>1. CASE Store(p, n, prior[p][n])
      BY <1>2, <3>1, StoreFacts
    <3>2. CASE UNCHANGED secret /\ Previous(p, n)
      BY <3>2 DEF IInv, TypeOK, Previous
    <3> QED
      BY <2>1, <3>1, <3>2 DEF Undo
  <2>2. CASE UndoFails(p, n)
    <3>1. clean'[p] = FALSE
      BY <2>2 DEF IInv, TypeOK, UndoFails
    <3>2. CASE Store(p, n, prior[p][n])
      BY <1>2, <3>1, <3>2, StoreFacts
    <3>3. CASE UNCHANGED secret
      BY <3>1, <3>3 DEF IInv, TypeOK
    <3> QED
      BY <1>1, <3>2, <3>3
  <2> QED
    BY <2>1, <2>2
<1>4. TypeOK'
  BY <1>1, <1>3 DEF IInv, TypeOK, file
<1>5. Asked' /\ CurrentExists' /\ LockHeld' /\ FreshInside'
  BY <1>1 DEF IInv, Asked, CurrentExists, LockHeld, FreshInside, file
<1>6. \A q \in Commands : q # p => /\ pc[q] \notin Inside
                                   /\ clean'[q] = clean[q] /\ todo'[q] = todo[q]
  BY <1>1, CommandFacts DEF Inside, IInv, TypeOK
<1>7. Writing'
  BY <1>1, <1>6 DEF Writing, Inside
<1>8. Undoing'
  <2>1. Targeted(p)' = Targeted(p) /\ Unchanged(p)' = Unchanged(p) /\ Local(p)' = Local(p)
    BY <1>1 DEF Targeted, Unchanged, Local, file
  <2>2. todo'[p] = todo[p] \ {n} /\ tried'[p] = tried[p] /\ prior'[p] = prior[p]
        /\ (clean'[p] => clean[p])
    BY <1>1 DEF IInv, TypeOK
  <2>3. Targeted(p) \subseteq Names
    BY CommandFacts
  <2>4. clean'[p] => \A m \in tried'[p] \ todo'[p] : InStore(p, m)' = prior'[p][m]
    BY <1>1, <1>3, <2>2, <2>3 DEF IInv, Undoing, InStore
  <2>5. \A q \in Commands : q # p => Targeted(q)' = Targeted(q)
    BY <1>1 DEF Targeted
  <2> QED
    BY <1>1, <1>6, <2>1, <2>2, <2>4, <2>5 DEF IInv, Undoing, Inside
<1> QED
  BY <1>4, <1>5, <1>7, <1>8 DEF IInv

LEMMA LeaveKeeps ==
  ASSUME IInv, NEW p \in Commands, EndUndo(p) \/ Crash(p)
  PROVE  IInv'
<1>1. /\ UNCHANGED <<file, secret, request, base, prior, todo, tried, clean>>
      /\ report' \in [Commands -> Reports]
      /\ \E place \in {"done", "crashed"} : pc' = [pc EXCEPT ![p] = place]
      /\ lock' = IF lock = p THEN None ELSE lock
  BY DEF IInv, TypeOK, LockHeld, Inside, EndUndo, Crash, Finish, Reports
<1>2. TypeOK'
  BY <1>1 DEF IInv, TypeOK, PCs, file
<1>3. Asked' /\ CurrentExists'
  BY <1>1 DEF IInv, Asked, CurrentExists, file
<1>4. LockHeld'
  BY <1>1, ConstantsOK DEF IInv, TypeOK, LockHeld, Inside
<1>5. FreshInside'
  BY <1>1 DEF IInv, TypeOK, FreshInside, file
<1>6. Writing'
  BY <1>1 DEF IInv, TypeOK, Writing, Targeted, Local, InStore, WrittenBy
<1>7. Undoing'
  BY <1>1 DEF IInv, TypeOK, Undoing, Targeted, Local, InStore, Unchanged, file
<1> QED
  BY <1>2, <1>3, <1>4, <1>5, <1>6, <1>7 DEF IInv

LEMMA OutsiderKeeps ==
  ASSUME IInv, Outsider
  PROVE  IInv'
<1>1. /\ UNCHANGED <<file, lock, pc, request, base, prior, todo, tried, clean, report>>
      /\ secret' \in Stores
      /\ \A b \in Backends \ Vaults : secret'[b] = secret[b]
  BY ConstantsOK DEF IInv, TypeOK, Stores, Stored, Outsider
<1>2. TypeOK'
  BY <1>1 DEF IInv, TypeOK, file
<1>3. Asked' /\ CurrentExists' /\ LockHeld' /\ FreshInside'
  BY <1>1 DEF IInv, Asked, CurrentExists, LockHeld, FreshInside, file
<1>4. \A p \in Commands : Local(p) => secret'[request[p].to] = secret[request[p].to]
  BY <1>1 DEF IInv, TypeOK, AnyRequest, Local
<1>5. Writing'
  BY <1>1, <1>4 DEF IInv, Writing, Targeted, Local, InStore, WrittenBy
<1>6. Undoing'
  BY <1>1, <1>4 DEF IInv, Undoing, Targeted, Local, InStore, Unchanged, file
<1> QED
  BY <1>2, <1>3, <1>5, <1>6 DEF IInv

LEMMA StutterKeeps ==
  ASSUME IInv, UNCHANGED vars
  PROVE  IInv'
<1>1. UNCHANGED <<config, current, secret, lock, pc, request, base, prior, todo, tried,
                  clean, report>>
  BY DEF vars
<1>2. TypeOK' /\ Asked' /\ CurrentExists' /\ LockHeld' /\ FreshInside'
  BY <1>1 DEF IInv, TypeOK, Asked, CurrentExists, LockHeld, FreshInside
<1>3. Writing' /\ Undoing'
  BY <1>1 DEF IInv, Writing, Undoing, Targeted, Local, InStore, WrittenBy, Unchanged
<1> QED
  BY <1>2, <1>3 DEF IInv

LEMMA StepIInv ==
  ASSUME IInv, [Next]_vars
  PROVE  IInv'
<1>1. CASE Outsider
  BY <1>1, OutsiderKeeps
<1>2. ASSUME NEW p \in Commands, Step(p)
      PROVE  IInv'
  BY <1>2, WaitsKeeps, EnterKeeps, PutKeeps, PutFailsKeeps, SaveKeeps, RestoreKeeps,
     UndoKeeps, LeaveKeeps
  DEF Step, Waits
<1>3. CASE UNCHANGED vars
  BY <1>3, StutterKeeps
<1> QED
  BY <1>1, <1>2, <1>3 DEF Next

(* The invariant of a store and a file changed under one lock and undone    *)
(* after it: the current context exists, what the holder read stays true,   *)
(* and what it has put or undone is in the backend.                         *)
THEOREM Inductive == Spec => []IInv
<1> QED
  BY InitIInv, StepIInv, PTL DEF Spec

-----------------------------------------------------------------------------
(* What a step may do.                                                      *)

(* A step that moves a command is a step of that command.                   *)
LEMMA Mover ==
  ASSUME IInv, [Next]_vars, NEW p \in Commands, Acts(p) \/ report'[p] # report[p]
  PROVE  Step(p)
<1>1. CASE Outsider
  BY <1>1 DEF Outsider, Acts
<1>2. ASSUME NEW q \in Commands, Step(q), q # p
      PROVE  FALSE
  BY <1>2 DEF IInv, TypeOK, Acts, Step, Ask, Refuse, Enter, Put, PutFails, Save,
     SaveFails, Conclude, Restore, Undo, UndoFails, EndUndo, Crash, Finish
<1>3. CASE UNCHANGED vars
  BY <1>3 DEF vars, Acts
<1> QED
  BY <1>1, <1>2, <1>3 DEF Next

(* What a migration writes, or undoes, under a name whose context has a     *)
(* literal is read by nobody.                                               *)
LEMMA UnreadWhileLiteral ==
  ASSUME IInv, NEW p \in Commands, NEW n \in Targeted(p), NEW s \in Stored,
         Store(p, n, s), UNCHANGED config,
         config[n] # None, config[n].pw \in Secrets
  PROVE  \A m \in Names : Credential(m)' = Credential(m)
<1>1. SUFFICES ASSUME NEW m \in Names PROVE Credential(m)' = Credential(m)
  OBVIOUS
<1>2. CASE m = n
  BY <1>2, ConstantsOK DEF Credential
<1>3. CASE m # n
  <2>1. \A b \in Backends : secret'[b][m] = secret[b][m]
    BY <1>3, CommandFacts DEF Store, IInv, TypeOK, Stores
  <2> QED
    BY <2>1 DEF Credential
<1> QED
  BY <1>2, <1>3

(* The save of a migration replaces literals by references to what it has   *)
(* stored.                                                                  *)
LEMMA SavePreserves ==
  ASSUME IInv, NEW p \in Commands, request[p].op = "migrate",
         pc[p] = "writing", todo[p] = {}, Replace(p), UNCHANGED secret
  PROVE  \A m \in Names : Credential(m)' = Credential(m)
<1>1. SUFFICES ASSUME NEW m \in Names PROVE Credential(m)' = Credential(m)
  OBVIOUS
<1>2. request[p].to \in Backends /\ Local(p) /\ request[p] \in AnyRequest
      /\ config \in Files
  BY CommandFacts, ConstantsOK DEF WellFormed, Local
<1>3. base[p] = config /\ config' = NewConfig(request[p], config)
  BY DEF IInv, FreshInside, Replace
<1>4. CASE m \in Targets(request[p], config)
  <2>1. config[m] # None /\ config[m].pw \in Secrets
    BY <1>2, <1>4, TargetFacts
  <2>2. secret[request[p].to][m] = config[m].pw
    <3>1. m \in Targeted(p)
      BY <1>2, <1>3, <1>4, TargetFacts, ConstantsOK DEF Targeted
    <3> QED
      BY <1>2, <1>3, <3>1 DEF IInv, Writing, InStore, WrittenBy, Written
  <2>3. config[m] \in Items
    BY <1>2, <2>1 DEF Files, Slots
  <2>4. config'[m] = [config[m] EXCEPT !.pw = request[p].to]
    BY <1>3, <1>4 DEF NewConfig, NewItem
  <2>5. config'[m] \in Items /\ config'[m].pw = request[p].to
    BY <1>2, <2>3, <2>4 DEF Items
  <2>6. config[m].pw \notin Backends /\ config'[m] # None
    BY <2>1, <2>5, ConstantsOK
  <2> QED
    BY <1>2, <2>1, <2>2, <2>5, <2>6 DEF Credential
<1>5. CASE m \notin Targets(request[p], config)
  <2>1. config'[m] = config[m]
    BY <1>3, <1>5 DEF NewConfig
  <2> QED
    BY <2>1 DEF Credential
<1> QED
  BY <1>4, <1>5

(* Migrating never changes what a context resolves its credential to.       *)
THEOREM CredentialsPreserved == Spec => MigrationPreserves
<1>1. ASSUME IInv, [Next]_vars, NEW p \in Commands, request[p].op = "migrate", Acts(p)
      PROVE  \A m \in Names : Credential(m)' = Credential(m)
  <2>1. Step(p)
    BY <1>1, Mover
  <2>2. CASE UNCHANGED file /\ UNCHANGED secret
    BY <2>2 DEF Credential, file
  <2>3. CASE Save(p) \/ SaveFails(p)
    <3>1. CASE Replace(p)
      BY <1>1, <2>3, <3>1, SavePreserves DEF Save, SaveFails
    <3>2. CASE ~Replace(p)
      BY <2>2, <2>3, <3>2 DEF Save, SaveFails
    <3> QED
      BY <3>1, <3>2
  <2>4. ASSUME NEW n \in Names,
               Put(p, n) \/ PutFails(p, n) \/ Undo(p, n) \/ UndoFails(p, n)
        PROVE  \A m \in Names : Credential(m)' = Credential(m)
    <3>1. n \in Targeted(p) /\ config[n] = base[p][n] /\ UNCHANGED file
      <4>1. n \in Targeted(p)
        BY <1>1, <2>4 DEF IInv, Writing, Undoing, Put, PutFails, Undo, UndoFails
      <4>2. Targeted(p) \subseteq Targets(request[p], base[p])
        BY <1>1, CommandFacts, TargetFacts DEF Targeted
      <4> QED
        BY <1>1, <2>4, <4>1, <4>2
        DEF IInv, FreshInside, Undoing, Unchanged, Put, PutFails, Undo, UndoFails
    <3>2. config[n] # None /\ config[n].pw \in Secrets
      BY <1>1, <3>1, CommandFacts, TargetFacts DEF Targeted
    <3>3. PICK s \in Stored : Store(p, n, s) \/ UNCHANGED secret
      <4>1. WrittenBy(p, n) \in Stored /\ prior[p][n] \in Stored
        BY <1>1, <3>1, CommandFacts DEF Stored, IInv, TypeOK
      <4> QED
        BY <2>4, <4>1 DEF Put, PutFails, Undo, UndoFails
    <3> QED
      BY <1>1, <2>2, <3>1, <3>2, <3>3, UnreadWhileLiteral DEF file
  <2> QED
    BY <2>1, <2>2, <2>3, <2>4 DEF Step, Ask, Refuse, Enter, Conclude, Restore, EndUndo, Crash
<1>2. IInv /\ [Next]_vars =>
        [\A p \in Commands : request[p].op = "migrate" /\ Acts(p) =>
           \A n \in Names : Credential(n)' = Credential(n)]_vars
  BY <1>1
<1> QED
  BY <1>2, Inductive, PTL DEF Spec, MigrationPreserves

(* The outcome that a command records, as ReportHonest reads it.            *)
Honest(p) ==
  LET r == request[p]
      c == base[p]
  IN /\ report'[p] = "success" =>
          /\ \A n \in Targets(r, c) : config'[n] = NewItem(r, c[n])
          /\ Local(p) => \A n \in Targeted(p) : InStore(p, n)' = WrittenBy(p, n)
     /\ report'[p] = "restored" =>
          /\ \A n \in Targets(r, c) : config'[n] = c[n]
          /\ \A n \in tried[p] : InStore(p, n)' = prior[p][n]
     /\ report'[p] = "failed" /\ r.op \in Reconciled =>
          \A n \in Targets(r, c) : config'[n] = c[n]
     /\ report'[p] = "committed" =>
          \A n \in Targets(r, c) : config'[n] = NewItem(r, c[n])

LEMMA ConcludeHonest ==
  ASSUME IInv, NEW p \in Commands, Conclude(p)
  PROVE  Honest(p)
<1>1. PICK o \in {"committed", "restored", "failed", "unknown"} :
        Concludes(p, o) /\ Finish(p, o)
  BY DEF Conclude
<1>2. report'[p] = o /\ UNCHANGED <<config, secret, request, base, prior>>
  BY <1>1 DEF Conclude, Finish, IInv, TypeOK, file
<1>3. o = "committed" => Committed(p)
  BY <1>1 DEF Concludes, SameItem
<1>4. o = "failed" => Unchanged(p)
  BY <1>1 DEF Concludes
<1>5. ASSUME o = "restored"
      PROVE  Unchanged(p) /\ \A n \in tried[p] : InStore(p, n) = prior[p][n]
  <2>1. SameItem(p) /\ Previous(p, request[p].name)
    BY <1>1, <1>5 DEF Concludes
  <2>2. tried[p] \subseteq {request[p].name}
    BY <2>1, CommandFacts, TargetFacts
    DEF IInv, Undoing, Conclude, Targeted, SameItem
  <2> QED
    BY <2>1, <2>2 DEF SameItem, Previous, InStore
<1> QED
  BY <1>2, <1>3, <1>4, <1>5 DEF Honest, Committed, Unchanged, InStore

LEMMA SaveHonest ==
  ASSUME IInv, NEW p \in Commands, Save(p)
  PROVE  Honest(p)
<1>1. /\ report'[p] = "success" /\ config' = NewConfig(request[p], config)
      /\ UNCHANGED <<secret, request>>
      /\ base[p] = config /\ request[p] \in AnyRequest /\ config \in Files
  BY CommandFacts DEF Save, Finish, Replace, IInv, TypeOK, FreshInside
<1>2. \A n \in Targets(request[p], config) : config'[n] = NewItem(request[p], config[n])
  BY <1>1, TargetFacts DEF NewConfig
<1>3. Local(p) => \A n \in Targeted(p) : InStore(p, n)' = WrittenBy(p, n)
  BY <1>1 DEF Save, IInv, Writing, InStore
<1> QED
  BY <1>1, <1>2, <1>3 DEF Honest

LEMMA EndUndoHonest ==
  ASSUME IInv, NEW p \in Commands, EndUndo(p)
  PROVE  Honest(p)
<1>1. /\ report'[p] \in {"restored", "incomplete", "unknown"}
      /\ report'[p] = "restored" => clean[p]
      /\ UNCHANGED <<config, secret, request>>
  BY DEF EndUndo, Finish, IInv, TypeOK, file
<1>2. /\ Unchanged(p)
      /\ clean[p] => \A n \in tried[p] : InStore(p, n) = prior[p][n]
  BY DEF EndUndo, IInv, Undoing
<1> QED
  BY <1>1, <1>2 DEF Honest, Unchanged, InStore

(* Recorded outcomes are true when they are recorded.                       *)
THEOREM ReportsHonest == Spec => ReportHonest
<1>1. ASSUME IInv, [Next]_vars, NEW p \in Commands, report'[p] # report[p]
      PROVE  Honest(p)
  <2>1. Step(p)
    BY <1>1, Mover
  <2>2. CASE Refuse(p) \/ SaveFails(p)
    <3>1. \/ report'[p] = "refused"
          \/ report'[p] = "failed" /\ request[p].op \notin Reconciled
      BY <1>1, <2>2 DEF Refuse, SaveFails, Finish, IInv, TypeOK
    <3> QED
      BY <3>1 DEF Honest
  <2> QED
    BY <1>1, <2>1, <2>2, ConcludeHonest, SaveHonest, EndUndoHonest
    DEF Step, Ask, Enter, Put, PutFails, Restore, Undo, UndoFails, Crash
<1>2. IInv /\ [Next]_vars =>
        [\A p \in Commands : report'[p] # report[p] => Honest(p)]_vars
  BY <1>1
<1>3. ReportHonest <=> [][\A p \in Commands : report'[p] # report[p] => Honest(p)]_vars
  BY DEF ReportHonest, Honest
<1> QED
  BY <1>2, <1>3, Inductive, PTL DEF Spec

(* The policy in force when the file is replaced allowed the replacement.   *)
THEOREM Governed == Spec => NoEscalation
<1> DEFINE Allowed(p) ==
      /\ \A n \in Names : config'[n] # config[n] =>
           IF config[n] # None THEN MayChange(p, config[n].roles)
           ELSE current # None => MayChange(p, config[current].roles)
      /\ current' # current =>
           MayChange(p, config[IF current # None THEN current ELSE current'].roles)
<1>1. ASSUME IInv, [Next]_vars, NEW p \in Commands, lock = p
      PROVE  Allowed(p)
  <2>1. CASE UNCHANGED file
    BY <2>1 DEF file
  <2>2. CASE (Save(p) \/ SaveFails(p)) /\ Replace(p)
    <3>1. /\ request[p] \in AnyRequest /\ config \in Files
          /\ Permitted(p, request[p], config, current) /\ Found(request[p], config)
      BY <1>1, <2>2, CommandFacts DEF IInv, FreshInside, Save, SaveFails
    <3>2. ASSUME NEW n \in Names, config'[n] # config[n]
          PROVE  IF config[n] # None THEN MayChange(p, config[n].roles)
                 ELSE current # None => MayChange(p, config[current].roles)
      <4>1. n \in Targets(request[p], config) /\ request[p].op # "use"
        BY <2>2, <3>2 DEF Replace, NewConfig, NewItem
      <4>2. CASE request[p].op \in {"set", "import"}
        BY <3>1, <4>1, <4>2, TargetFacts DEF Permitted, Deciding
      <4>3. CASE request[p].op \notin {"set", "import"}
        BY <3>1, <4>1, <4>3, TargetFacts DEF Permitted, Deciding
      <4> QED
        BY <4>2, <4>3
    <3>3. ASSUME current' # current
          PROVE  MayChange(p, config[IF current # None THEN current ELSE current'].roles)
      <4>1. CASE request[p].op = "use"
        BY <2>2, <3>1, <3>3, <4>1 DEF Replace, NewCurrent, Permitted, Deciding
      <4>2. CASE request[p].op = "delete"
        <5>1. current = request[p].name /\ current # None
          BY <2>2, <3>1, <3>3, <4>2, ConstantsOK DEF Replace, NewCurrent, AnyRequest
        <5> QED
          BY <3>1, <4>2, <5>1, TargetFacts DEF Permitted, Deciding
      <4>3. CASE request[p].op \notin {"use", "delete"}
        BY <2>2, <3>3, <4>3 DEF Replace, NewCurrent
      <4> QED
        BY <4>1, <4>2, <4>3
    <3> QED
      BY <3>2, <3>3
  <2>3. CASE ~(UNCHANGED file) /\ ~((Save(p) \/ SaveFails(p)) /\ Replace(p))
    <3>1. PICK q \in Commands : (Save(q) \/ SaveFails(q)) /\ Replace(q)
      BY <1>1, <2>3
      DEF Next, Step, Outsider, Ask, Refuse, Enter, Put, PutFails, Save, SaveFails,
          Conclude, Restore, Undo, UndoFails, EndUndo, Crash, vars, file
    <3>2. q = p
      BY <1>1, <3>1 DEF IInv, LockHeld, Inside, Save, SaveFails
    <3> QED
      BY <2>3, <3>1, <3>2
  <2> QED
    BY <2>1, <2>2, <2>3
<1>2. IInv /\ [Next]_vars => [\A p \in Commands : lock = p => Allowed(p)]_vars
  BY <1>1
<1>3. NoEscalation <=> [][\A p \in Commands : lock = p => Allowed(p)]_vars
  BY DEF NoEscalation
<1> QED
  BY <1>2, <1>3, Inductive, PTL DEF Spec

-----------------------------------------------------------------------------
(* What a successful command stored stays until somebody writes again.      *)

LEMMA InitSecretInv == Init => SecretInv
<1> SUFFICES ASSUME Init PROVE SecretInv
  OBVIOUS
<1>1. PICK i \in Initial : config = i.config
  BY DEF Init
<1>2. \A n \in Names, s \in Secrets : HasLiteral(n, s) => s \in InTheFile
  BY <1>1 DEF HasLiteral, InTheFile
<1>3. \A p \in Commands : report[p] # "success"
  BY DEF Init
<1> QED
  BY <1>2, <1>3 DEF SecretInv, Came, Migrated

(* How a step can change the file: not at all, or by one command's save.    *)
LEMMA FileChanges ==
  ASSUME IInv, [Next]_vars, config' # config
  PROVE  \E p \in Commands : (Save(p) \/ SaveFails(p)) /\ Replace(p)
BY DEF Next, vars, Outsider, Step, Ask, Refuse, Enter, Put, PutFails, Save, SaveFails, Conclude,
       Restore, Undo, UndoFails, EndUndo, Crash, Finish, file

(* A command that has left its writing never comes back to it.              *)
LEMMA NoWayBack ==
  ASSUME IInv, [Next]_vars, NEW p \in Commands
  PROVE  /\ request' = request
         /\ pc[p] \notin {"start", "asked"} => base'[p] = base[p]
         /\ pc[p] \notin {"start", "asked", "writing"} =>
              pc'[p] \notin {"start", "asked", "writing"}
<1>1. CASE UNCHANGED vars \/ Outsider
  BY <1>1 DEF vars, Outsider
<1>2. ASSUME NEW q \in Commands, Step(q), q # p
      PROVE  request' = request /\ base'[p] = base[p] /\ pc'[p] = pc[p]
  BY <1>2 DEF IInv, TypeOK, Step, Ask, Refuse, Enter, Put, PutFails, Save, SaveFails, Conclude,
     Restore, Undo, UndoFails, EndUndo, Crash, Finish
<1>3. CASE Step(p)
  BY <1>3 DEF IInv, TypeOK, Step, Ask, Refuse, Enter, Put, PutFails, Save, SaveFails, Conclude,
     Restore, Undo, UndoFails, EndUndo, Crash, Finish, Inside
<1> QED
  BY <1>1, <1>2, <1>3 DEF Next

LEMMA CameStays ==
  ASSUME IInv, [Next]_vars, NEW s, Came(s)
  PROVE  Came(s)'
BY NoWayBack DEF Came, BroughtBy, InTheFile

(* A save writes into the file only its own literal, which nobody brought   *)
(* before it.                                                               *)
LEMMA SavedLiteral ==
  ASSUME IInv, [Next]_vars, NEW n \in Names, NEW s \in Secrets,
         HasLiteral(n, s)', ~HasLiteral(n, s)
  PROVE  \E p \in Commands :
           /\ pc[p] = "writing" /\ BroughtBy(s, p)'
           /\ s \in Brings(p)
<1>1. config' # config
  BY DEF HasLiteral
<1>2. PICK p \in Commands : (Save(p) \/ SaveFails(p)) /\ Replace(p)
  BY <1>1, FileChanges
<1>3. pc[p] = "writing" /\ pc'[p] \notin {"start", "asked", "writing"} /\ request' = request
  BY <1>2 DEF IInv, TypeOK, Save, SaveFails, Finish
<1>4. /\ request[p] \in AnyRequest /\ WellFormed(request[p]) /\ config \in Files
      /\ request[p] \in Requests[p]
  BY CommandFacts DEF IInv, Asked
<1>5. config'[n] = IF n \in Targets(request[p], config) THEN NewItem(request[p], config[n])
                                                       ELSE config[n]
  BY <1>2 DEF Replace, NewConfig
<1>6. n \in Targets(request[p], config) /\ config'[n] = NewItem(request[p], config[n])
  BY <1>5 DEF HasLiteral
<1>7. request[p].item.pw = s
  <2>1. config[n] \in Items \cup {None} /\ Found(request[p], config)
    BY <1>3, <1>4 DEF Files, Slots, IInv, FreshInside
  <2>2. CASE request[p].op \in {"set", "import"}
    BY <1>6, <2>2 DEF NewItem, HasLiteral
  <2>3. CASE request[p].op = "migrate"
    <3>1. config[n] \in Items /\ request[p].to \in Backends
      BY <1>4, <1>6, <2>1, <2>3, TargetFacts DEF WellFormed
    <3>2. config'[n] = [config[n] EXCEPT !.pw = request[p].to]
      BY <1>6, <2>3 DEF NewItem
    <3>3. config'[n].pw = request[p].to
      BY <3>1, <3>2 DEF Items
    <3> QED
      BY <3>1, <3>3, ConstantsOK DEF HasLiteral
  <2>4. CASE request[p].op = "delete"
    BY <1>6, <2>4 DEF NewItem, HasLiteral
  <2>5. CASE request[p].op \in {"use", "role"}
    <3>1. config[n] # None /\ config[n] \in Items
      BY <1>4, <1>6, <2>1, <2>5, TargetFacts DEF Found
    <3>2. config'[n].pw = config[n].pw
      <4>1. CASE request[p].op = "use"
        BY <1>6, <4>1 DEF NewItem
      <4>2. CASE request[p].op = "role"
        <5>1. config'[n] = [config[n] EXCEPT !.roles =
                              [@ EXCEPT ![request[p].who] = request[p].grant]]
          BY <1>6, <4>2 DEF NewItem
        <5> QED
          BY <3>1, <5>1 DEF Items
      <4> QED
        BY <2>5, <4>1, <4>2
    <3> QED
      BY <3>1, <3>2 DEF HasLiteral
  <2> QED
    BY <1>4, <2>2, <2>3, <2>4, <2>5 DEF AnyRequest, Ops
<1>8. s \in Brings(p)
  BY <1>4, <1>7 DEF Brings
<1> QED
  BY <1>3, <1>7, <1>8 DEF BroughtBy

(* A literal that came already is not one that a command still writing      *)
(* brings.                                                                  *)
LEMMA CameIsOld ==
  ASSUME SecretsApart, IInv, NEW s \in Secrets, Came(s), NEW p \in Commands,
         pc[p] \in {"start", "asked", "writing"}, s \in Brings(p)
  PROVE  FALSE
<1>1. s \notin InTheFile
  BY DEF SecretsApart
<1>2. PICK q \in Commands : BroughtBy(s, q)
  BY <1>1 DEF Came
<1>3. s \in Brings(q) /\ p # q
  BY <1>2 DEF BroughtBy, Brings, IInv, Asked
<1> QED
  BY <1>3 DEF SecretsApart

(* Where a migration leaves a reference, its literal does not come back.    *)
LEMMA MigratedLiteral ==
  ASSUME IInv, SecretInv, NEW p \in Commands, Save(p), request[p].op = "migrate",
         NEW n \in Targeted(p)
  PROVE  Came(WrittenBy(p, n)) /\ ~HasLiteral(n, WrittenBy(p, n))'
<1>0. /\ request[p] \in AnyRequest /\ WellFormed(request[p]) /\ config \in Files
      /\ base[p] = config /\ n \in Names /\ WrittenBy(p, n) \in Secrets
  BY CommandFacts DEF IInv, FreshInside, Save
<1>1. n \in Targets(request[p], config) /\ request[p].to \in Backends
  BY <1>0, TargetFacts DEF Targeted, WellFormed
<1>2. config[n] # None /\ config[n] \in Items /\ WrittenBy(p, n) = config[n].pw
  BY <1>0, <1>1, TargetFacts DEF Files, Slots, WrittenBy, Written
<1>3. Came(WrittenBy(p, n))
  BY <1>0, <1>2 DEF SecretInv, HasLiteral
<1>4. config'[n] = [config[n] EXCEPT !.pw = request[p].to]
  BY <1>0, <1>1 DEF Save, Replace, NewConfig, NewItem
<1>5. config'[n].pw = request[p].to
  BY <1>2, <1>4 DEF Items
<1>6. WrittenBy(p, n)' = WrittenBy(p, n)
  BY DEF WrittenBy, Save
<1> QED
  BY <1>0, <1>1, <1>3, <1>5, <1>6, ConstantsOK DEF HasLiteral

LEMMA SecretStep ==
  ASSUME SecretsApart, IInv, IInv', SecretInv, [Next]_vars
  PROVE  SecretInv'
<1>1. ASSUME NEW n \in Names, NEW s \in Secrets, HasLiteral(n, s)' PROVE Came(s)'
  <2>1. CASE HasLiteral(n, s)
    BY <2>1, CameStays DEF SecretInv
  <2>2. CASE ~HasLiteral(n, s)
    BY <1>1, <2>2, SavedLiteral DEF Came
  <2> QED
    BY <2>1, <2>2
<1>2. ASSUME NEW p \in Commands, report'[p] = "success"
      PROVE  /\ pc'[p] = "done" /\ tried'[p] \subseteq Targeted(p)'
             /\ \/ report[p] = "success" /\ base'[p] = base[p] /\ request' = request
                \/ Save(p)
  <2>1. CASE report[p] = "success"
    <3>1. pc[p] = "done" /\ tried[p] \subseteq Targeted(p)
      BY <2>1 DEF SecretInv
    <3>2. base'[p] = base[p] /\ request' = request
      BY <3>1, NoWayBack
    <3>3. pc'[p] = pc[p] /\ tried'[p] = tried[p]
      BY <3>1
      DEF IInv, TypeOK, Next, vars, Outsider, Step, Ask, Refuse, Enter, Put, PutFails, Save,
          SaveFails, Conclude, Restore, Undo, UndoFails, EndUndo, Crash, Finish, Inside
    <3> QED
      BY <2>1, <3>1, <3>2, <3>3 DEF Targeted
  <2>2. CASE report[p] # "success"
    <3>1. Step(p)
      BY <1>2, <2>2, Mover
    <3>2. Save(p)
      BY <1>2, <2>2, <3>1
      DEF IInv, TypeOK, Step, Ask, Refuse, Enter, Put, PutFails, SaveFails, Conclude, Restore,
          Undo, UndoFails, EndUndo, Crash, Finish, Concludes
    <3>3. tried[p] \subseteq Targeted(p) /\ Targeted(p)' = Targeted(p) /\ tried' = tried
      BY <3>2 DEF IInv, Writing, Save, Targeted
    <3> QED
      BY <3>2, <3>3 DEF Save, Finish, IInv, TypeOK
  <2> QED
    BY <2>1, <2>2
<1>3. ASSUME NEW p \in Commands, NEW n \in Names, Migrated(p, n)'
      PROVE  Came(WrittenBy(p, n))' /\ ~HasLiteral(n, WrittenBy(p, n))'
  <2>1. CASE Save(p)
    <3>1. /\ request' = request /\ base' = base
          /\ WrittenBy(p, n)' = WrittenBy(p, n) /\ Targeted(p)' = Targeted(p)
      BY <2>1 DEF Save, WrittenBy, Targeted
    <3>2. request[p].op = "migrate" /\ n \in Targeted(p)
      BY <1>3, <3>1 DEF Migrated
    <3>3. Came(WrittenBy(p, n)) /\ ~HasLiteral(n, WrittenBy(p, n))'
      BY <2>1, <3>2, MigratedLiteral
    <3> QED
      BY <3>1, <3>3, CameStays DEF Came, BroughtBy
  <2>2. CASE ~Save(p)
    <3>1. report[p] = "success" /\ base'[p] = base[p] /\ request' = request
      BY <1>2, <1>3, <2>2 DEF Migrated
    <3>2. WrittenBy(p, n)' = WrittenBy(p, n) /\ Migrated(p, n)
      BY <1>3, <3>1 DEF WrittenBy, Migrated, Targeted
    <3>3. Came(WrittenBy(p, n)) /\ ~HasLiteral(n, WrittenBy(p, n))
      BY <3>2 DEF SecretInv
    <3>4. WrittenBy(p, n) \in Secrets
      BY <3>2, CommandFacts DEF Migrated
    <3>5. ~HasLiteral(n, WrittenBy(p, n))'
      <4> SUFFICES ASSUME HasLiteral(n, WrittenBy(p, n))' PROVE FALSE
        OBVIOUS
      <4>1. PICK s \in Secrets : s = WrittenBy(p, n)
        BY <3>4
      <4>2. HasLiteral(n, s)' /\ ~HasLiteral(n, s) /\ Came(s)
        BY <3>2, <3>3, <4>1 DEF HasLiteral
      <4>3. PICK q \in Commands : pc[q] = "writing" /\ s \in Brings(q)
        BY <4>2, SavedLiteral
      <4> QED
        BY <4>2, <4>3, CameIsOld
    <3>6. Came(WrittenBy(p, n))'
      BY <3>2, <3>3, CameStays DEF Came, BroughtBy
    <3> QED
      BY <3>5, <3>6
  <2> QED
    BY <2>1, <2>2
<1> QED
  BY <1>1, <1>2, <1>3 DEF SecretInv

(* An undoing command never finds, as its own, the secret of a command that *)
(* succeeded.                                                               *)
LEMMA NotItsOwn ==
  ASSUME SecretsApart, IInv, SecretInv,
         NEW p \in Commands, NEW n \in tried[p], report[p] = "success", Local(p),
         InStore(p, n) = WrittenBy(p, n),
         NEW q \in Commands, pc[q] \in {"undoing", "restoring"}, n \in todo[q],
         request[q].to = request[p].to, Desired(q, n)
  PROVE  FALSE
<1> DEFINE s == WrittenBy(p, n)
<1>1. /\ pc[p] = "done" /\ p # q /\ n \in Targeted(p) /\ n \in Targeted(q) /\ n \in Names
      /\ Unchanged(q)
  BY CommandFacts DEF SecretInv, IInv, Undoing
<1>2. s \in Secrets /\ s = WrittenBy(q, n)
  BY <1>1, CommandFacts DEF Desired, InStore
<1>3. /\ request[p] \in AnyRequest /\ WellFormed(request[p]) /\ request[p] \in Requests[p]
      /\ request[q] \in AnyRequest /\ WellFormed(request[q]) /\ request[q] \in Requests[q]
      /\ base[p] \in Files /\ base[q] \in Files
  BY CommandFacts DEF IInv, Asked
<1>4. ASSUME NEW c \in {p, q}, request[c].op # "migrate"
      PROVE  s \in Brings(c) /\ request[c].item.pw # s
  <2>1. request[c].to \in Backends /\ request[c].to # None
    BY <1>1, <1>3, CommandFacts, TargetFacts DEF Targeted
  <2>2. request[c].op \in {"set", "import"}
    BY <1>3, <1>4, <2>1 DEF WellFormed, Reconciled
  <2>3. s = request[c].put /\ request[c].item.pw = request[c].to
    BY <1>2, <1>3, <1>4, <2>1, <2>2 DEF WellFormed, WrittenBy, Written
  <2> QED
    BY <1>2, <1>3, <2>1, <2>3, ConstantsOK DEF Brings
<1>5. ASSUME request[p].op = "migrate" PROVE Came(s) /\ ~HasLiteral(n, s)
  BY <1>1, <1>5 DEF SecretInv, Migrated
<1>6. ASSUME request[q].op = "migrate" PROVE Came(s) /\ HasLiteral(n, s)
  <2>1. n \in Targets(request[q], base[q])
    BY <1>1, <1>3, TargetFacts DEF Targeted
  <2>2. config[n] = base[q][n] /\ base[q][n] # None /\ base[q][n].pw = s
    BY <1>1, <1>2, <1>3, <1>6, <2>1, TargetFacts DEF Unchanged, WrittenBy, Written
  <2>3. HasLiteral(n, s)
    BY <2>2 DEF HasLiteral
  <2> QED
    BY <1>1, <1>2, <2>3 DEF SecretInv
<1>7. ASSUME NEW c \in {p, q}, s \in Brings(c), request[c].item.pw # s, Came(s)
      PROVE  FALSE
  <2>1. s \notin InTheFile
    BY <1>7 DEF SecretsApart
  <2>2. PICK d \in Commands : BroughtBy(s, d)
    BY <1>7, <2>1 DEF Came
  <2>3. s \in Brings(d) /\ d # c
    BY <1>2, <1>7, <2>2 DEF BroughtBy, Brings, IInv, Asked
  <2> QED
    BY <1>7, <2>3 DEF SecretsApart
<1>8. CASE request[p].op = "migrate" /\ request[q].op = "migrate"
  BY <1>5, <1>6, <1>8
<1>9. CASE request[p].op # "migrate" /\ request[q].op # "migrate"
  <2>1. s \in Brings(p) /\ s \in Brings(q)
    BY <1>4, <1>9
  <2> QED
    BY <1>1, <2>1 DEF SecretsApart
<1>10. CASE request[p].op = "migrate" /\ request[q].op # "migrate"
  BY <1>4, <1>5, <1>7, <1>10
<1>11. CASE request[p].op # "migrate" /\ request[q].op = "migrate"
  BY <1>4, <1>6, <1>7, <1>11
<1> QED
  BY <1>8, <1>9, <1>10, <1>11

(* What a successful command stored locally is replaced only by a write     *)
(* under the lock, if secrets tell their commands apart: an undoing leaves  *)
(* what others wrote alone.                                                 *)
THEOREM SuccessIsKept ==
  ASSUME SecretsApart
  PROVE  Spec => SuccessKept
<1>1. ASSUME IInv, SecretInv, [Next]_vars, NEW p \in Commands, NEW n \in tried[p],
             report[p] = "success", Local(p),
             InStore(p, n) = WrittenBy(p, n), InStore(p, n)' # InStore(p, n)
      PROVE  lock # None /\ pc[lock] = "writing"
  <2>0. /\ pc[p] = "done" /\ n \in Targeted(p) /\ n \in Names
        /\ request[p].to \in Backends /\ request[p].to \notin Vaults
        /\ request' = request /\ secret \in Stores
    BY <1>1, CommandFacts, NoWayBack DEF SecretInv, IInv, TypeOK, Local
  <2>1. secret'[request[p].to][n] # secret[request[p].to][n]
    BY <1>1, <2>0 DEF InStore
  <2>2. ~Outsider /\ secret' # secret
    BY <2>0, <2>1 DEF Outsider, Stores
  <2>3. PICK q \in Commands, m \in Names :
          Put(q, m) \/ PutFails(q, m) \/ Undo(q, m) \/ UndoFails(q, m)
    <3>1. PICK q \in Commands : Step(q)
      BY <1>1, <2>2 DEF Next, vars
    <3>2. \E m \in Names : Put(q, m) \/ PutFails(q, m) \/ Undo(q, m) \/ UndoFails(q, m)
      BY <2>2, <3>1 DEF Step, Ask, Refuse, Enter, Save, SaveFails, Conclude, Restore, EndUndo, Crash
    <3> QED
      BY <3>2
  <2>4. CASE Put(q, m) \/ PutFails(q, m)
    <3>1. pc[q] = "writing" /\ pc[q] \in Inside
      BY <2>4 DEF Put, PutFails, Inside
    <3>2. lock = q
      BY <1>1, <3>1 DEF IInv, LockHeld
    <3> QED
      BY <3>1, <3>2, ConstantsOK
  <2>5. CASE Undo(q, m) \/ UndoFails(q, m)
    <3>1. /\ pc[q] \in {"undoing", "restoring"} /\ m \in todo[q]
          /\ Desired(q, m) /\ Store(q, m, prior[q][m])
      BY <2>2, <2>5 DEF Undo, UndoFails
    <3>2. m = n /\ request[q].to = request[p].to
      BY <2>0, <2>1, <3>1 DEF Store, Stores
    <3> QED
      BY <1>1, <3>1, <3>2, NotItsOwn
  <2> QED
    BY <2>3, <2>4, <2>5
<1>2. IInv /\ SecretInv /\ [Next]_vars =>
        [\A p \in Commands : \A n \in tried[p] :
           /\ report[p] = "success" /\ Local(p)
           /\ InStore(p, n) = WrittenBy(p, n) /\ InStore(p, n)' # InStore(p, n)
           => lock # None /\ pc[lock] = "writing"]_vars
  BY <1>1
<1>3. Init => SecretInv
  BY InitSecretInv
<1>4. IInv /\ IInv' /\ SecretInv /\ [Next]_vars => SecretInv'
  BY SecretStep
<1> QED
  BY <1>2, <1>3, <1>4, Inductive, PTL DEF Spec, SuccessKept
=============================================================================
