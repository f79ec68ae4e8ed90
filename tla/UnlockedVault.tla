--------------------------- MODULE UnlockedVault ---------------------------
(***************************************************************************)
(* What an unlocked vault promises its clients, whatever processes hold    *)
(* it: one set of secrets and bindings, on which a request takes effect at *)
(* one moment and at most once, until the vault locks.  An answered        *)
(* request took effect before its answer, a refused one never does, and    *)
(* one that broke off without an answer may have, may still or may never.  *)
(* A lock answered ok leaves the vault locked, a locked vault stays so,    *)
(* and nothing takes effect on it any more.  Handing the vault over from   *)
(* one process to the next is no step here at all.                         *)
(***************************************************************************)
EXTENDS VaultRequests

CONSTANTS Clients,
          NoRequest    \* a client that has not asked anything yet

VARIABLES open,        \* the vault is unlocked
          held,        \* the secrets, while it is
          allowed,     \* the credentials with a standing approval
          asked,       \* the request of each client
          done,        \* what it was answered when it took effect, "none" before
          answer       \* what the client was told, "none" before

vars == <<open, held, allowed, asked, done, answer>>

TypeOK ==
    /\ open \in BOOLEAN
    /\ held \in HeldType
    /\ allowed \in AllowedType
    /\ asked \in [Clients -> Requests \cup {NoRequest}]
    /\ done \in [Clients -> Answers \cup {"none"}]
    /\ answer \in [Clients -> Answers \cup {"none", "refused", "signalled", "broken"}]

Init ==
    /\ open = TRUE
    /\ held \in HeldType
    /\ allowed \in AllowedType
    /\ asked = [c \in Clients |-> NoRequest]
    /\ done = [c \in Clients |-> "none"]
    /\ answer = [c \in Clients |-> "none"]

(* A client asks one request at a time. *)
Ask(c, r) ==
    /\ asked[c] = NoRequest \/ answer[c] # "none"
    /\ asked' = [asked EXCEPT ![c] = r]
    /\ done' = [done EXCEPT ![c] = "none"]
    /\ answer' = [answer EXCEPT ![c] = "none"]
    /\ UNCHANGED <<open, held, allowed>>

(* A request that may take effect: not yet, and not refused.                *)
Pending(c) ==
    /\ asked[c] # NoRequest
    /\ done[c] = "none"
    /\ answer[c] \in {"none", "broken"}

(* The one moment a request takes effect. *)
Serve(c) ==
    /\ open
    /\ Pending(c)
    /\ asked[c].op # "lock"
    /\ done' = [done EXCEPT ![c] = AnswerTo(asked[c], held, allowed)]
    /\ held' = HeldAfter(asked[c], held)
    /\ allowed' = AllowedAfter(asked[c], allowed)
    /\ UNCHANGED <<open, asked, answer>>

Locked ==
    /\ open' = FALSE
    /\ held' = NothingHeld
    /\ allowed' = {}

Lock(c) ==
    /\ Pending(c)
    /\ asked[c].op = "lock"
    /\ done' = [done EXCEPT ![c] = "ok"]
    /\ Locked
    /\ UNCHANGED <<asked, answer>>

(* The client learns how its request was answered.                          *)
Return(c) ==
    /\ done[c] # "none"
    /\ answer[c] = "none"
    /\ answer' = [answer EXCEPT ![c] = done[c]]
    /\ UNCHANGED <<open, held, allowed, asked, done>>

(* A request the vault does not carry out: locked, replaced for too long,   *)
(* or not sent at all.  A lock may be carried out by a signal instead.      *)
(* Either may be what made a process notice that it has to lock.            *)
Refuse(c) ==
    /\ asked[c] # NoRequest
    /\ done[c] = "none"
    /\ answer[c] = "none"
    /\ \E a \in {"refused", "signalled"} : answer' = [answer EXCEPT ![c] = a]
    /\ \/ UNCHANGED <<open, held, allowed>>
       \/ Locked
    /\ UNCHANGED <<asked, done>>

(* The client gave up, or lost the connection, with its request sent: it    *)
(* learns nothing, and the request has taken effect, will, or never does.   *)
Break(c) ==
    /\ asked[c] # NoRequest
    /\ answer[c] = "none"
    /\ answer' = [answer EXCEPT ![c] = "broken"]
    /\ UNCHANGED <<open, held, allowed, asked, done>>

(* The vault locks by itself: a deadline, a signal, a failed handover.      *)
Expire ==
    /\ open
    /\ Locked
    /\ UNCHANGED <<asked, done, answer>>

Next ==
    \/ \E c \in Clients :
          \/ \E r \in Requests : Ask(c, r)
          \/ Serve(c) \/ Lock(c)
          \/ Return(c) \/ Refuse(c) \/ Break(c)
    \/ Expire

Spec == Init /\ [][Next]_vars
=============================================================================
