------------------------------ MODULE MCContexts ------------------------------
(* Three commands on two contexts, a keychain and a vault; the third one    *)
(* deletes a context.  The other two have a secret each, so that a secret   *)
(* tells who wrote it; both may write the same context, so that one can find*)
(* the file as it wanted it although the other saved it.                    *)
EXTENDS Contexts

CONSTANTS c1, c2, c3, n1, n2, v, s0, s1, s2, keychain, vault

OwnSecret(c) == IF c = c1 THEN s1 ELSE s2

AdminOnly(c) == [p \in {c1, c2, c3} |-> IF p = c THEN "admin" ELSE "lesser"]

Item(pw, roles) == [val |-> v, pw |-> pw, roles |-> roles]

Blank(c) ==
  [op |-> "use", name |-> n1, item |-> Item(None, NoRoles), to |-> None,
   put |-> None, force |-> FALSE, all |-> FALSE, who |-> c, grant |-> "none"]

Storing(c, op, n, b) ==
  [Blank(c) EXCEPT !.op = op, !.name = n, !.item = Item(b, NoRoles), !.to = b,
                   !.put = OwnSecret(c), !.force = TRUE]

RequestsOf(c) ==
  { Storing(c, "set", n1, keychain),
    Storing(c, "set", n2, vault),
    [Storing(c, "import", n1, keychain) EXCEPT !.item = Item(keychain, AdminOnly(c))],
    [Blank(c) EXCEPT !.op = "set", !.item = Item(OwnSecret(c), NoRoles)],
    [Blank(c) EXCEPT !.op = "import", !.name = n2,
                     !.item = Item(keychain, AdminOnly(c))],
    [Blank(c) EXCEPT !.op = "migrate", !.to = keychain, !.all = TRUE],
    [Blank(c) EXCEPT !.op = "migrate", !.to = keychain],
    [Blank(c) EXCEPT !.name = n2],
    [Blank(c) EXCEPT !.op = "delete"],
    [Blank(c) EXCEPT !.op = "role", !.who = c1, !.grant = "admin"],
    [Blank(c) EXCEPT !.op = "role", !.who = c1] }

AllRequests ==
  [c \in {c1, c2, c3} |->
     IF c = c3 THEN {[Blank(c) EXCEPT !.op = "delete"]} ELSE RequestsOf(c)]

NoSecrets == [b \in {keychain, vault} |-> [n \in {n1, n2} |-> None]]

(* A literal that is open to all; a literal that is governed and current,   *)
(* alone or beside an open one; a stored credential that is current beside  *)
(* a literal.                                                               *)
Initials ==
  { [config |-> [n \in {n1, n2} |-> IF n = n1 THEN Item(s0, NoRoles) ELSE None],
     current |-> None, secret |-> NoSecrets],
    [config |-> [n \in {n1, n2} |->
                   Item(s0, IF n = n1 THEN AdminOnly(c1) ELSE NoRoles)],
     current |-> n1, secret |-> NoSecrets],
    [config |-> [n \in {n1, n2} |->
                   IF n = n1 THEN Item(s0, AdminOnly(c1)) ELSE None],
     current |-> n1, secret |-> NoSecrets],
    [config |-> [n \in {n1, n2} |->
                   Item(IF n = n1 THEN keychain ELSE s0, NoRoles)],
     current |-> n1, secret |-> [NoSecrets EXCEPT ![keychain][n1] = s0]] }

(* The hypothesis under which SuccessKept is proved holds of this instance. *)
ASSUME SecretsToldApart == SecretsApart
=============================================================================
