--------------------------- MODULE VaultRequests ---------------------------
(***************************************************************************)
(* The requests a vault process answers from memory, as pure operators:    *)
(* what each does to the secrets and bindings the process holds, and what  *)
(* it answers (Server.answer, server.go).                                  *)
(*                                                                         *)
(* A credential has one role here.  The entry of a credential whose id the *)
(* vault's bindings know, with an approval that fits the asking            *)
(* connection, is a member of "allowed"; every other credential is refused *)
(* as not approved (vault.Bindings.Allows and AllowsRole).                 *)
(***************************************************************************)

CONSTANTS Creds,     \* credential names
          Values,    \* secret values
          NoValue,   \* a credential the process holds no entry of
          Ops        \* the operations the clients of this instance use

ASSUME RequestsAssumption ==
    /\ Creds # {}
    /\ NoValue \notin Values
    /\ Values \cap {"none", "ok", "found", "absent", "approval", "refused", "signalled",
                        "broken"} = {}
    /\ Ops \subseteq {"get", "check", "set", "delete", "bind", "lock"}

(* What a process holds: the value of each credential, and which of them an *)
(* approved connection may read.                                            *)
HeldType == [Creds -> Values \cup {NoValue}]
AllowedType == SUBSET Creds

NothingHeld == [k \in Creds |-> NoValue]

Requests ==
    {r \in [op : {"get", "check", "delete"}, cred : Creds]
           \cup [op : {"set"}, cred : Creds, val : Values]
           \cup [op : {"bind"}, allowed : AllowedType]
           \cup [op : {"lock"}] : r.op \in Ops}

Answers == Values \cup {"ok", "found", "absent", "approval"}

(* What the process holds after the request: set stores the value, delete   *)
(* removes the role and with the last role the entry.                       *)
HeldAfter(r, held) ==
    CASE r.op = "set" -> [held EXCEPT ![r.cred] = r.val]
      [] r.op = "delete" -> [held EXCEPT ![r.cred] = NoValue]
      [] OTHER -> held

(* The bindings after the request: bind replaces them; delete forgets the   *)
(* id of the removed entry, so an entry stored under the same name again is *)
(* not covered by the old approval.                                         *)
AllowedAfter(r, allowed) ==
    CASE r.op = "bind" -> r.allowed
      [] r.op = "delete" -> allowed \ {r.cred}
      [] OTHER -> allowed

(* A get or a check of a credential the process does not hold finds         *)
(* nothing; of one it holds, it is answered only where the bindings allow.  *)
AnswerTo(r, held, allowed) ==
    IF r.op \notin {"get", "check"} THEN "ok"
    ELSE IF held[r.cred] = NoValue THEN "absent"
    ELSE IF r.cred \notin allowed THEN "approval"
    ELSE IF r.op = "get" THEN held[r.cred] ELSE "found"
=============================================================================
