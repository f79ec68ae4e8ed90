--------------------------- MODULE VaultProcess ---------------------------
(***************************************************************************)
(* The vault processes of one vault: the server that holds it unlocked,    *)
(* the requests it answers, its deadlines, and the handover to a successor *)
(* an update starts (internal/vaultproc/server.go, handover.go, client.go  *)
(* and the successor's side in internal/cli/vaultproc_serve.go).           *)
(*                                                                         *)
(* Every step below is one critical section of Server.mu, one message, or  *)
(* one event of the operating system.  A connection is the client's own    *)
(* variable: one request each, as serveConn serves.  The lock file beside  *)
(* the socket is left to VaultSocket; here "socket" is the process whose   *)
(* socket lies at the path.                                                *)
(***************************************************************************)
EXTENDS VaultRequests, Naturals

CONSTANTS Procs,       \* process ids a vault process may run under
          First,       \* the process 'vault unlock' started
          NoProc,
          Clients,
          NoRequest,
          Idle,        \* IdleTimeout, in ticks of the clock
          Limits,      \* the MaxUnlock values settings.age may hold; 0 is none
          MaxTime      \* the bound of the clock

ASSUME ProcessAssumption ==
    /\ First \in Procs
    /\ NoProc \notin Procs
    /\ NoRequest \notin Requests
    /\ Idle \in Nat \ {0}
    /\ Limits \subseteq Nat
    /\ Limits # {}
    /\ MaxTime \in Nat

VARIABLES
    now,           \* the clock
    replaced,      \* ReplacedProgram of each process: an update replaced its program
    socket,        \* the process whose socket lies at the vault's path, or NoProc
    (* Server, one of each per process. *)
    phase,         \* absent, started (a successor before AwaitHandover returned), serving, ended
    stopped,       \* the channel stop closes
    armed,         \* the timer runs; it fires at locksAt
    locksAt,
    unlockedAt,
    maxUnlock,     \* MaxUnlock
    held, allowed, \* secrets and bindings
    handingOver,
    (* serveHandover, which holds "pending" wherever handover is not none. *)
    handover,      \* none, claimed, preparing, prepared, draining, starting, ready, swapped, failing
    readPast,      \* the read deadline of the pending connection lies in the past
    successor,     \* the process the handover started
    (* Client.call and the connection it is on. *)
    req,           \* the request
    pc,            \* idle, dialing, dialed, greeted, read, locking, answered, replaced
    conn,          \* the process at the other end
    resp,          \* what the server answered, from the moment it carried the request out
    got,           \* what the call returned: the answer, or how it failed
    lastGet        \* history: when the last get restarted the idle period

serverVars == <<locksAt, unlockedAt, maxUnlock, held, allowed>>
handoverVars == <<handingOver, handover, successor>>
clientVars == <<req, pc, conn, resp, got>>
stopVars == <<stopped, armed, socket, readPast>>
vars == <<now, replaced, phase, lastGet, stopVars, serverVars, handoverVars, clientVars>>

Phases == {"absent", "started", "serving", "ended"}
HandoverSteps == {"none", "claimed", "preparing", "prepared", "draining", "starting", "ready",
                  "swapped", "failing"}
CallSteps == {"idle", "dialing", "dialed", "greeted", "read", "locking", "answered", "replaced"}
CallResults == Answers \cup {"none", "refused", "signalled", "broken"}

TypeOK ==
    /\ now \in 0..MaxTime
    /\ replaced \in [Procs -> BOOLEAN]
    /\ socket \in Procs \cup {NoProc}
    /\ phase \in [Procs -> Phases]
    /\ stopped \in [Procs -> BOOLEAN]
    /\ armed \in [Procs -> BOOLEAN]
    /\ locksAt \in [Procs -> 0..(MaxTime + Idle)]
    /\ unlockedAt \in [Procs -> 0..MaxTime]
    /\ maxUnlock \in [Procs -> Limits \cup {0}]
    /\ held \in [Procs -> HeldType]
    /\ allowed \in [Procs -> AllowedType]
    /\ handingOver \in [Procs -> BOOLEAN]
    /\ handover \in [Procs -> HandoverSteps]
    /\ readPast \in [Procs -> BOOLEAN]
    /\ successor \in [Procs -> Procs \cup {NoProc}]
    /\ req \in [Clients -> Requests \cup {NoRequest}]
    /\ pc \in [Clients -> CallSteps]
    /\ conn \in [Clients -> Procs \cup {NoProc}]
    /\ resp \in [Clients -> Answers \cup {"none", "refused"}]
    /\ got \in [Clients -> CallResults]
    /\ lastGet \in 0..MaxTime

---------------------------------------------------------------------------
(* Deadlines *)

Earlier(a, b) == IF a <= b THEN a ELSE b

(* A slip of the next: a process's own setting wins. *)
TakesOwnLimit(a, b) == b

(* The smaller positive one of two maximum durations; zero means none. *)
ShorterLimit(a, b) ==
    IF a = 0 THEN b
    ELSE IF b = 0 THEN a
    ELSE Earlier(a, b)

(* Slips: the idle time alone moves the deadline; the old deadline is moved *)
(* on instead of replaced.                                                  *)
IgnoresMaximum(p) == now + Idle

AddsToDeadline(p) == locksAt[p] + Idle

(* The idle deadline from now, held back to the hard deadline. *)
NextLocksAt(p) ==
    IF maxUnlock[p] = 0 THEN now + Idle
    ELSE Earlier(now + Idle, unlockedAt[p] + maxUnlock[p])

---------------------------------------------------------------------------
(* Servers *)

Live(p) == phase[p] \in {"started", "serving"}

(* A slip: a request counts only once it is answered. *)
AnsweredOnly(p) == {c \in Clients : conn[c] = p /\ pc[c] = "answered"}

(* The requests read and not yet answered that begin counted and end did    *)
(* not yet: Server.inFlight.                                                *)
InFlight(p) == {c \in Clients : conn[c] = p /\ pc[c] \in {"read", "locking", "answered"}}

(* The connections a handler goroutine serves, which Serve waits for.       *)
Handled(p) == InFlight(p) \cup {c \in Clients : conn[c] = p /\ pc[c] = "greeted"}

(* Server.stop, once: close the channel, stop the timer, close the listener *)
(* (which removes its own socket, unless it was handed over or, in a        *)
(* successor, was not known to lie at the path yet), and move the read      *)
(* deadline of a pending handover into the past.                            *)
Stop(p) ==
    IF stopped[p] THEN UNCHANGED stopVars
    ELSE /\ stopped' = [stopped EXCEPT ![p] = TRUE]
         /\ armed' = [armed EXCEPT ![p] = FALSE]
         /\ socket' = IF socket = p /\ phase[p] = "serving" THEN NoProc ELSE socket
         /\ readPast' = [readPast EXCEPT ![p] = handover[p] # "none"]

(* The process is gone with everything it held, killed or at its end.  One  *)
(* that had not stopped leaves its socket where it lies.                    *)
Gone(p) ==
    /\ phase' = [phase EXCEPT ![p] = "ended"]
    /\ armed' = [armed EXCEPT ![p] = FALSE]
    /\ readPast' = [readPast EXCEPT ![p] = FALSE]
    /\ held' = [held EXCEPT ![p] = NothingHeld]
    /\ allowed' = [allowed EXCEPT ![p] = {}]
    /\ locksAt' = [locksAt EXCEPT ![p] = 0]
    /\ UNCHANGED <<stopped, socket>>

(* And with what it knew of a handover and of its program.                  *)
Forgets(p) ==
    /\ replaced' = [replaced EXCEPT ![p] = FALSE]
    /\ handingOver' = [handingOver EXCEPT ![p] = FALSE]
    /\ successor' = [successor EXCEPT ![p] = NoProc]

Init ==
    /\ now = 0
    /\ replaced = [p \in Procs |-> FALSE]
    /\ socket = First
    /\ phase = [p \in Procs |-> IF p = First THEN "serving" ELSE "absent"]
    /\ stopped = [p \in Procs |-> FALSE]
    /\ armed = [p \in Procs |-> p = First]
    /\ \E m \in Limits : maxUnlock = [p \in Procs |-> IF p = First THEN m ELSE 0]
    /\ unlockedAt = [p \in Procs |-> 0]
    /\ locksAt = [p \in Procs |-> IF p # First THEN 0
                                  ELSE IF maxUnlock[p] = 0 THEN Idle
                                  ELSE Earlier(Idle, maxUnlock[p])]
    /\ \E h \in HeldType : held = [p \in Procs |-> IF p = First THEN h ELSE NothingHeld]
    /\ \E a \in AllowedType : allowed = [p \in Procs |-> IF p = First THEN a ELSE {}]
    /\ handingOver = [p \in Procs |-> FALSE]
    /\ handover = [p \in Procs |-> "none"]
    /\ readPast = [p \in Procs |-> FALSE]
    /\ successor = [p \in Procs |-> NoProc]
    /\ req = [c \in Clients |-> NoRequest]
    /\ pc = [c \in Clients |-> "idle"]
    /\ conn = [c \in Clients |-> NoProc]
    /\ resp = [c \in Clients |-> "none"]
    /\ got = [c \in Clients |-> "none"]
    /\ lastGet = 0

(* The clock advances while no timer is due: the runtime fires a timer      *)
(* before a whole tick passes.                                              *)
Due(p) == armed[p] /\ locksAt[p] <= now

Tick ==
    /\ now < MaxTime
    /\ \A p \in Procs : ~Due(p)
    /\ now' = now + 1
    /\ UNCHANGED <<replaced, phase, lastGet, stopVars, serverVars, handoverVars, clientVars>>

TimerFires(p) ==
    /\ Due(p)
    /\ Stop(p)
    /\ UNCHANGED <<now, replaced, phase, lastGet, serverVars, handoverVars, clientVars>>

(* SIGTERM, SIGHUP or SIGINT, or the socket gone from its path: Close. *)
CloseServer(p) ==
    /\ Live(p)
    /\ ~stopped[p]
    /\ Stop(p)
    /\ UNCHANGED <<now, replaced, phase, lastGet, serverVars, handoverVars, clientVars>>

(* Serve returned and every handler is done: the secrets are overwritten.   *)
(* The process ends.                                                        *)
Wipe(p) ==
    /\ Live(p)
    /\ stopped[p]
    /\ Handled(p) = {}
    /\ handover[p] = "none"
    /\ Gone(p)
    /\ Forgets(p)
    /\ UNCHANGED <<now, lastGet, unlockedAt, maxUnlock, handover, clientVars>>

(* A process dies between any two steps: killed, or its machine rebooted.   *)
(* Its socket stays at the path, dead.                                      *)
Crash(p) ==
    /\ Live(p)
    /\ Gone(p)
    /\ Forgets(p)
    /\ handover' = [handover EXCEPT ![p] = "none"]
    /\ UNCHANGED <<now, lastGet, unlockedAt, maxUnlock, clientVars>>

---------------------------------------------------------------------------
(* Requests: Client.call and serveConn *)

(* The connection is closed.  The call returns a, unless it did before; a    *)
(* refusal that was written is not needed any more.                         *)
Returned(c, a) == IF got[c] = "none" THEN a ELSE got[c]

Answered(c, a) ==
    /\ pc' = [pc EXCEPT ![c] = "idle"]
    /\ conn' = [conn EXCEPT ![c] = NoProc]
    /\ got' = [got EXCEPT ![c] = Returned(c, a)]
    /\ resp' = [resp EXCEPT ![c] = IF @ = "refused" THEN "none" ELSE @]

GoesTo(c, step) ==
    /\ pc' = [pc EXCEPT ![c] = step]
    /\ UNCHANGED <<conn, resp, got>>

(* The server carried the request out and has an answer to write.           *)
Carried(c, a) ==
    /\ pc' = [pc EXCEPT ![c] = "answered"]
    /\ resp' = [resp EXCEPT ![c] = a]
    /\ UNCHANGED <<conn, got>>

Ask(c, r) ==
    /\ pc[c] = "idle"
    /\ req' = [req EXCEPT ![c] = r]
    /\ pc' = [pc EXCEPT ![c] = "dialing"]
    /\ resp' = [resp EXCEPT ![c] = "none"]
    /\ got' = [got EXCEPT ![c] = "none"]
    /\ UNCHANGED <<now, replaced, phase, lastGet, conn, stopVars, serverVars, handoverVars>>

(* Dialing the path reaches whichever process listens there; a successor    *)
(* does before it serves.  No socket, or a dead one, is ErrNotRunning.      *)
Dial(c) ==
    /\ pc[c] = "dialing"
    /\ IF socket # NoProc /\ Live(socket) /\ ~stopped[socket]
       THEN /\ pc' = [pc EXCEPT ![c] = "dialed"]
            /\ conn' = [conn EXCEPT ![c] = socket]
            /\ UNCHANGED <<resp, got>>
       ELSE Answered(c, "refused")
    /\ UNCHANGED <<now, replaced, phase, lastGet, req, stopVars, serverVars, handoverVars>>

(* The server accepted the connection and read the hello.  It checks the    *)
(* peer first: with its own program replaced it refuses every program, and  *)
(* locks itself unless a handover is under way (programReplaced).  Then it  *)
(* solves the challenge (solve).                                            *)
Greet(c) == LET p == conn[c] IN
    /\ pc[c] = "dialed"
    /\ phase[p] = "serving"
    /\ IF replaced[p]
       THEN IF handingOver[p] \/ handover[p] # "none"
            THEN GoesTo(c, "replaced") /\ UNCHANGED stopVars
            ELSE Answered(c, "refused") /\ Stop(p)
       ELSE /\ UNCHANGED stopVars
            /\ IF handingOver[p] THEN GoesTo(c, "replaced")
               ELSE IF stopped[p] THEN Answered(c, "refused")
               ELSE GoesTo(c, "greeted")
    /\ UNCHANGED <<now, replaced, phase, lastGet, req, serverVars, handoverVars>>

(* A slip: begin does not look for a committed handover. *)
ReadAnyway(c) ==
    /\ pc[c] = "greeted"
    /\ Live(conn[c])
    /\ GoesTo(c, "read")
    /\ UNCHANGED <<now, replaced, phase, lastGet, req, stopVars, serverVars, handoverVars>>

(* The request was read: begin counts it, unless a handover was committed.  *)
(* Of the answer replaced a client that left learns nothing.                *)
Read(c) == LET p == conn[c] IN
    /\ pc[c] = "greeted"
    /\ Live(p)
    /\ IF ~handingOver[p] THEN GoesTo(c, "read")
       ELSE IF got[c] = "none" THEN GoesTo(c, "replaced")
       ELSE Answered(c, "broken")
    /\ UNCHANGED <<now, replaced, phase, lastGet, req, stopVars, serverVars, handoverVars>>

(* The connection ends without an answer: the server ended or stopped       *)
(* accepting, or no request came within RequestTimeout.  The client cannot  *)
(* tell whether a request it had sent was carried out; before it was        *)
(* greeted it had sent none (failed).                                       *)
Broken(c) == LET p == conn[c] IN
    /\ \/ pc[c] \in {"dialed", "greeted", "read", "locking", "answered"} /\ ~Live(p)
       \/ pc[c] = "dialed" /\ stopped[p]
       \/ pc[c] = "greeted"
    /\ Answered(c, IF pc[c] = "dialed" THEN "refused" ELSE "broken")
    /\ UNCHANGED <<now, replaced, phase, lastGet, req, stopVars, serverVars, handoverVars>>

(* The client's own deadline or the end of its context ends the call.  The  *)
(* handler of a request that may have been sent goes on without it, and may *)
(* still carry it out.                                                      *)
Leave(c) ==
    /\ got[c] = "none"
    /\ \/ pc[c] \in {"dialing", "dialed"} /\ Answered(c, "refused")
       \/ /\ pc[c] \in {"greeted", "read", "locking", "answered"}
          /\ got' = [got EXCEPT ![c] = "broken"]
          /\ UNCHANGED <<pc, conn, resp>>
    /\ UNCHANGED <<now, replaced, phase, lastGet, req, stopVars, serverVars, handoverVars>>

(* Server.answer, under the lock.  A get restarts the idle period, whatever *)
(* it is answered.  A lock is not answered before the server stopped.       *)
TouchDisarms(p) ==
    /\ locksAt' = [locksAt EXCEPT ![p] = NextLocksAt(p)]
    /\ armed' = [armed EXCEPT ![p] = FALSE]
    /\ lastGet' = now

Touch(p) ==
    /\ locksAt' = [locksAt EXCEPT ![p] = NextLocksAt(p)]
    /\ armed' = [armed EXCEPT ![p] = TRUE]
    /\ lastGet' = now

Answer(c) == LET p == conn[c] IN
    /\ pc[c] = "read"
    /\ Live(p)
    /\ ~stopped[p]
    /\ req[c].op # "lock"
    /\ Carried(c, AnswerTo(req[c], held[p], allowed[p]))
    /\ held' = [held EXCEPT ![p] = HeldAfter(req[c], held[p])]
    /\ allowed' = [allowed EXCEPT ![p] = AllowedAfter(req[c], allowed[p])]
    /\ IF req[c].op = "get" THEN Touch(p) ELSE UNCHANGED <<locksAt, armed, lastGet>>
    /\ UNCHANGED <<now, replaced, phase, stopped, socket, readPast, unlockedAt, maxUnlock,
                   req, handoverVars>>

(* A slip: a request to a stopped server is left without an answer. *)
LeftUnanswered(c) == FALSE /\ UNCHANGED vars

AnswerStopped(c) == LET p == conn[c] IN
    /\ pc[c] = "read"
    /\ Live(p)
    /\ stopped[p]
    /\ Carried(c, "refused")
    /\ UNCHANGED <<now, replaced, phase, lastGet, req, stopVars, serverVars, handoverVars>>

AnswerLock(c) == LET p == conn[c] IN
    /\ pc[c] = "read"
    /\ Live(p)
    /\ ~stopped[p]
    /\ req[c].op = "lock"
    /\ GoesTo(c, "locking")
    /\ UNCHANGED <<now, replaced, phase, lastGet, req, stopVars, serverVars, handoverVars>>

StopForLock(c) == LET p == conn[c] IN
    /\ pc[c] = "locking"
    /\ Live(p)
    /\ Stop(p)
    /\ Carried(c, "ok")
    /\ UNCHANGED <<now, replaced, phase, lastGet, req, serverVars, handoverVars>>

(* The answer is written, to a client that may have left; end counts the    *)
(* request as answered.                                                     *)
Reply(c) ==
    /\ pc[c] = "answered"
    /\ Live(conn[c])
    /\ Answered(c, resp[c])
    /\ UNCHANGED <<now, replaced, phase, lastGet, req, stopVars, serverVars, handoverVars>>

(* A process that answered replaced is asked again on a new connection, for *)
(* up to replacedLimit.                                                     *)
Retry(c) ==
    /\ pc[c] = "replaced"
    /\ GoesTo(c, "dialing")
    /\ UNCHANGED <<now, replaced, phase, lastGet, req, stopVars, serverVars, handoverVars>>

(* The limit is reached.  A lock then ends the process it last reached with *)
(* SIGTERM, on which that process locks itself, and reports success.        *)
GiveUp(c) == LET p == conn[c] IN
    /\ pc[c] = "replaced"
    /\ IF req[c].op = "lock" /\ Live(p)
       THEN Answered(c, "signalled") /\ Stop(p)
       ELSE Answered(c, "refused") /\ UNCHANGED stopVars
    /\ UNCHANGED <<now, replaced, phase, lastGet, req, serverVars, handoverVars>>

---------------------------------------------------------------------------
(* The handover: serveHandover and its phases, run by one goroutine *)

HandoverStep(p, step) == handover' = [handover EXCEPT ![p] = step]

(* Every failure clears handingOver, then locks the server (failHandover).  *)
Fails(p) ==
    /\ HandoverStep(p, "failing")
    /\ handingOver' = [handingOver EXCEPT ![p] = FALSE]

(* A replaced program is started again only once the update wrote it. *)
ReplaceProgram ==
    /\ replaced' = [p \in Procs |-> replaced[p] \/ Live(p)]
    /\ UNCHANGED <<now, phase, lastGet, stopVars, serverVars, handoverVars, clientVars>>

(* A handover request on a connection that was greeted as any other. *)
Claim(p) ==
    /\ phase[p] = "serving"
    /\ ~handingOver[p]
    /\ ~stopped[p]
    /\ handover[p] = "none"
    /\ HandoverStep(p, "claimed")
    /\ readPast' = [readPast EXCEPT ![p] = FALSE]
    /\ UNCHANGED <<now, replaced, phase, lastGet, stopped, armed, socket, handingOver, successor,
                   serverVars, clientVars>>

(* prepare takes the key under the lock and then verifies the release files *)
(* outside it, for as long as that takes.                                   *)
Prepare(p) ==
    /\ Live(p)
    /\ handover[p] = "claimed"
    /\ IF stopped[p] THEN Fails(p) ELSE HandoverStep(p, "preparing") /\ UNCHANGED handingOver
    /\ UNCHANGED <<now, replaced, phase, lastGet, successor, stopVars, serverVars, clientVars>>

(* Verified, and the vault hands over on an update: the answer is written   *)
(* and the connection gets a new deadline to read the commit by.            *)
Prepared(p) ==
    /\ Live(p)
    /\ handover[p] = "preparing"
    /\ HandoverStep(p, "prepared")
    /\ readPast' = [readPast EXCEPT ![p] = FALSE]
    /\ UNCHANGED <<now, replaced, phase, lastGet, stopped, armed, socket, handingOver, successor,
                   serverVars, clientVars>>

(* Verified, and the vault asks an update to lock it. *)
PreparedLock(p) ==
    /\ Live(p)
    /\ handover[p] = "preparing"
    /\ Stop(p)
    /\ HandoverStep(p, "none")
    /\ UNCHANGED <<now, replaced, phase, lastGet, handingOver, successor, serverVars, clientVars>>

(* The release is not verified, the answer cannot be written, or no commit  *)
(* can be read: the client closed the connection, or its deadline passed.   *)
PrepareFails(p) ==
    /\ Live(p)
    /\ handover[p] \in {"preparing", "prepared"}
    /\ Fails(p)
    /\ UNCHANGED <<now, replaced, phase, lastGet, successor, stopVars, serverVars, clientVars>>

(* A slip: the timer is stopped and requests are still let in. *)
CommitOpen(p) ==
    /\ Live(p)
    /\ handover[p] = "prepared"
    /\ ~readPast[p] /\ ~stopped[p]
    /\ HandoverStep(p, "draining")
    /\ armed' = [armed EXCEPT ![p] = FALSE]
    /\ UNCHANGED <<now, replaced, phase, lastGet, stopped, socket, readPast, handingOver, successor,
                   serverVars, clientVars>>

(* The commit was read.  From here on no new request is served, and the     *)
(* timer is left to the successor.                                          *)
Commit(p) ==
    /\ Live(p)
    /\ handover[p] = "prepared"
    /\ ~readPast[p]
    /\ IF stopped[p]
       THEN Fails(p) /\ UNCHANGED armed
       ELSE /\ HandoverStep(p, "draining")
            /\ handingOver' = [handingOver EXCEPT ![p] = TRUE]
            /\ armed' = [armed EXCEPT ![p] = FALSE]
    /\ UNCHANGED <<now, replaced, phase, lastGet, stopped, socket, readPast, successor,
                   serverVars, clientVars>>

(* Every request read before is answered, and the program is the release's: *)
(* the successor q is started and handed a copy of what p holds, with the   *)
(* time p locks at, when the vault was unlocked, and the maximum, which the *)
(* successor shortens to its own setting if that is less.                   *)
Snapshot(p, q) ==
    /\ Live(p)
    /\ handover[p] = "draining"
    /\ InFlight(p) = {}
    /\ replaced[p]
    /\ ~stopped[p]
    /\ phase[q] = "absent"
    /\ HandoverStep(p, "starting")
    /\ successor' = [successor EXCEPT ![p] = q]
    /\ phase' = [phase EXCEPT ![q] = "started"]
    /\ held' = [held EXCEPT ![q] = held[p]]
    /\ allowed' = [allowed EXCEPT ![q] = allowed[p]]
    /\ locksAt' = [locksAt EXCEPT ![q] = locksAt[p]]
    /\ unlockedAt' = [unlockedAt EXCEPT ![q] = unlockedAt[p]]
    /\ \E own \in Limits : maxUnlock' = [maxUnlock EXCEPT ![q] = ShorterLimit(maxUnlock[p], own)]
    /\ UNCHANGED <<now, replaced, lastGet, handingOver, stopVars, clientVars>>

(* No answer within RequestTimeout, a stopping server, a program that was   *)
(* not replaced or is not the release's, or a successor that cannot start.  *)
CommitFails(p) ==
    /\ Live(p)
    /\ handover[p] = "draining"
    /\ Fails(p)
    /\ UNCHANGED <<now, replaced, phase, lastGet, successor, stopVars, serverVars, clientVars>>

(* The successor reported that it listens beside the socket. *)
SuccessorReady(p) ==
    /\ Live(p)
    /\ handover[p] = "starting"
    /\ Live(successor[p])
    /\ HandoverStep(p, "ready")
    /\ UNCHANGED <<now, replaced, phase, lastGet, handingOver, successor, stopVars, serverVars,
                   clientVars>>

(* handOver, under the lock stop takes: the socket that lies beside is      *)
(* moved onto the path, whether its process still lives and listens or not. *)
Swap(p) ==
    /\ Live(p)
    /\ handover[p] = "ready"
    /\ ~stopped[p]
    /\ socket' = successor[p]
    /\ HandoverStep(p, "swapped")
    /\ UNCHANGED <<now, replaced, phase, lastGet, stopped, armed, readPast, handingOver, successor,
                   serverVars, clientVars>>

(* The start was cancelled or failed, the server is stopping, or the rename *)
(* failed: the successor is killed and nothing is left of it.               *)
SwapFails(p) == LET q == successor[p] IN
    /\ Live(p)
    /\ handover[p] \in {"starting", "ready"}
    /\ Gone(q)
    /\ Fails(p)
    /\ UNCHANGED <<now, replaced, lastGet, successor, unlockedAt, maxUnlock, clientVars>>

(* Slips: the server lives on after its handover; it locks itself and never *)
(* lets go of the connection.                                               *)
LivesOn(p) ==
    /\ Live(p)
    /\ handover[p] \in {"swapped", "failing"}
    /\ HandoverStep(p, "none")
    /\ handingOver' = [handingOver EXCEPT ![p] = FALSE]
    /\ UNCHANGED <<now, replaced, phase, lastGet, successor, stopVars, serverVars, clientVars>>

NotReleased(p) ==
    /\ Live(p)
    /\ handover[p] \in {"swapped", "failing"}
    /\ Stop(p)
    /\ UNCHANGED <<now, replaced, phase, lastGet, handoverVars, serverVars, clientVars>>

(* The server locks itself, handed over or failed, and lets go of the       *)
(* connection (releaseHandover).                                            *)
HandoverEnds(p) ==
    /\ Live(p)
    /\ handover[p] \in {"swapped", "failing"}
    /\ Stop(p)
    /\ HandoverStep(p, "none")
    /\ UNCHANGED <<now, replaced, phase, lastGet, handingOver, successor, serverVars, clientVars>>

(* The successor found its socket at the path: it serves, and locks no      *)
(* later than its predecessor would have without another get (Serve).       *)
TakeOver(q) ==
    /\ phase[q] = "started"
    /\ ~stopped[q]
    /\ socket = q
    /\ phase' = [phase EXCEPT ![q] = "serving"]
    /\ locksAt' = [locksAt EXCEPT ![q] = Earlier(NextLocksAt(q), locksAt[q])]
    /\ armed' = [armed EXCEPT ![q] = TRUE]
    /\ UNCHANGED <<now, replaced, lastGet, stopped, socket, readPast, unlockedAt, maxUnlock,
                   held, allowed, handoverVars, clientVars>>

(* A slip: it waits without a limit. *)
WaitsOn(q) == FALSE /\ UNCHANGED vars

(* It did not within HandoverTimeout: it closes its server without serving. *)
AwaitFails(q) ==
    /\ phase[q] = "started"
    /\ ~stopped[q]
    /\ Stop(q)
    /\ UNCHANGED <<now, replaced, phase, lastGet, serverVars, handoverVars, clientVars>>

---------------------------------------------------------------------------
ServeHandover(p) ==
    \/ Prepare(p) \/ Prepared(p) \/ PreparedLock(p) \/ PrepareFails(p)
    \/ Commit(p) \/ \E q \in Procs : Snapshot(p, q)
    \/ CommitFails(p) \/ SuccessorReady(p) \/ Swap(p) \/ SwapFails(p)
    \/ HandoverEnds(p)

AwaitHandover(q) == TakeOver(q) \/ AwaitFails(q)

Call(c) ==
    \/ Dial(c) \/ Greet(c) \/ Read(c) \/ Broken(c) \/ Leave(c)
    \/ Answer(c) \/ AnswerStopped(c) \/ AnswerLock(c) \/ StopForLock(c) \/ Reply(c)
    \/ Retry(c) \/ GiveUp(c)

Next ==
    \/ Tick
    \/ ReplaceProgram
    \/ \E p \in Procs :
          \/ TimerFires(p) \/ CloseServer(p) \/ Wipe(p) \/ Crash(p)
          \/ Claim(p) \/ ServeHandover(p) \/ AwaitHandover(p)
    \/ \E c \in Clients :
          \/ \E r \in Requests : Ask(c, r)
          \/ Call(c)

(* Time passes, timers fire, and every goroutine that started runs on: each *)
(* of them waits at most for a deadline, after which it fails.  Nothing     *)
(* makes a client ask, an update replace the program, or a signal come.     *)
Fairness ==
    /\ WF_vars(Tick)
    /\ \A p \in Procs :
          /\ WF_vars(TimerFires(p))
          /\ WF_vars(Wipe(p))
          /\ WF_vars(ServeHandover(p))
          /\ WF_vars(AwaitHandover(p))
    /\ \A c \in Clients : WF_vars(Call(c))

Spec == Init /\ [][Next]_vars
FairSpec == Spec /\ Fairness

---------------------------------------------------------------------------
(* What the processes together promise *)

HasSuccessor(p) == handover[p] \in {"starting", "ready", "swapped"}

(* The process that serves the vault's path, while it is not locking. *)
Open(p) == Live(p) /\ ~stopped[p] /\ socket = p

VaultOpen == \E p \in Procs : Open(p)

(* The answers to the requests that were carried out, returned or not. *)
CarriedOut == [c \in Clients |-> IF resp[c] \in Answers THEN resp[c] ELSE "none"]

(* The processes implement one unlocked vault: a request takes effect at    *)
(* most once, on what the serving process holds, and if it is answered      *)
(* before that; one reported refused never does, whatever was retried; no   *)
(* change that took effect is missing from a successor, nothing is carried  *)
(* out by a process that handed over or locked, and an answered lock leaves *)
(* no process that answers (server.go's begin and drain, handover.go's      *)
(* snapshot and handOver, client.go's call).                                *)
Service == INSTANCE UnlockedVault WITH
    open <- VaultOpen,
    held <- IF VaultOpen THEN held[socket] ELSE NothingHeld,
    allowed <- IF VaultOpen THEN allowed[socket] ELSE {},
    asked <- req,
    done <- CarriedOut,
    answer <- got

ServiceSpec == Service!Spec

(* A server that is open to requests always has its timer running, so no    *)
(* path through a handover leaves a vault unlocked with nothing to lock it  *)
(* (commit stops the timer; every failure after it must end in a stop).     *)
ArmedTimer ==
    \A p \in Procs :
        phase[p] = "serving" /\ ~stopped[p]
            /\ handover[p] \in {"none", "claimed", "preparing", "prepared"}
        => armed[p]

(* No process locks later than the idle time after the last get anywhere,   *)
(* nor past its own maximum; and none has a maximum that ends later than    *)
(* the one the vault was unlocked with (touch, nextLocksAt, Serve,          *)
(* shorterLimit): a handover never extends an unlock.                       *)
UnlockNeverExtended ==
    \A p \in Procs : Live(p) =>
        /\ locksAt[p] <= lastGet + Idle
        /\ phase[p] = "serving" /\ maxUnlock[p] # 0 => locksAt[p] <= unlockedAt[p] + maxUnlock[p]
        /\ maxUnlock[First] # 0 =>
              /\ maxUnlock[p] # 0
              /\ unlockedAt[p] + maxUnlock[p] <= unlockedAt[First] + maxUnlock[First]

(* A process that holds secrets nobody can reach at the path is on its way  *)
(* out: it is stopping, it is a successor that has not taken over and will  *)
(* end, or it has just handed the path over and stops next.                 *)
NoStrandedSecrets ==
    \A p \in Procs : Live(p) /\ socket # p =>
        \/ stopped[p]
        \/ phase[p] = "started"
        \/ handover[p] = "swapped" /\ handingOver[p]

(* Once a successor is started, its predecessor answers no request any more *)
(* and the two hold the same, until the successor serves and changes it     *)
(* (begin, drain and snapshot together).                                    *)
HandedOverInFull ==
    \A p \in Procs : HasSuccessor(p) =>
        /\ handingOver[p]
        /\ InFlight(p) = {}
        /\ phase[successor[p]] = "started" =>
              /\ held[successor[p]] = held[p]
              /\ allowed[successor[p]] = allowed[p]
              /\ locksAt[successor[p]] = locksAt[p]

(* Why HandedOverInFull is kept by every step: the facts it rests on.       *)
(* - A handover that was committed keeps new requests out, and only a       *)
(*   serving process has a handover or a request of a client.               *)
(* - The successor of a handover is its own, was started by it, and before  *)
(*   the swap is neither at the path nor serving.                           *)
CommittedIsClosed ==
    \A p \in Procs : handover[p] \in {"draining", "starting", "ready", "swapped"} => handingOver[p]

OnlyServingWorks ==
    /\ \A p \in Procs : handover[p] # "none" => phase[p] = "serving"
    /\ \A c \in Clients : pc[c] \in {"greeted", "read", "locking", "answered"}
                            => phase[conn[c]] \in {"serving", "ended"}

SuccessorStarted ==
    /\ \A p \in Procs : HasSuccessor(p) =>
          /\ successor[p] \in Procs
          /\ phase[successor[p]] # "absent"
          /\ handover[p] # "swapped" => phase[successor[p]] # "serving" /\ socket # successor[p]
    /\ socket # NoProc => phase[socket] # "absent"

OwnSuccessor ==
    \A p, r \in Procs : HasSuccessor(p) /\ HasSuccessor(r) /\ p # r => successor[p] # successor[r]

HandoverInv ==
    /\ CommittedIsClosed
    /\ OnlyServingWorks
    /\ SuccessorStarted
    /\ OwnSuccessor
    /\ HandedOverInFull

(* A server that began to lock overwrites its secrets: no request, handover *)
(* or client keeps it from that (Serve's deferred wipe).                    *)
StoppedIsWiped == \A p \in Procs : stopped[p] ~> (phase[p] = "ended")

(* A successor serves the vault or ends; it never keeps waiting with the    *)
(* secrets (AwaitHandover's timeout).                                       *)
SuccessorServesOrEnds ==
    \A p \in Procs : (phase[p] = "started") ~> (phase[p] \in {"serving", "ended"})

(* With a maximum, the vault is locked in the end, whatever gets and        *)
(* handovers come.                                                          *)
UnlockEnds == maxUnlock[First] # 0 ~> [](\A p \in Procs : ~Live(p))

(* Every call of a client ends, answered or failed, and so does the handler *)
(* of a request whose client left.                                          *)
CallEnds == \A c \in Clients : (pc[c] # "idle") ~> (pc[c] = "idle")

---------------------------------------------------------------------------
(* What comments of the code say of it *)

(* "A lock that reaches a process in the middle of a handover is answered   *)
(* replaced and asked again, which locks the successor; a lock is never     *)
(* lost to a handover" (Client.Lock): once Lock reported success, no        *)
(* process serves the vault any more.                                       *)
LockNeverLost ==
    \A c \in Clients :
        pc[c] = "idle" /\ req[c] # NoRequest /\ req[c] \in Requests
            /\ got[c] \in {"ok", "signalled"} /\ req[c].op = "lock"
        => ~VaultOpen

(* "a prepared handover still waiting for its commit is ended"              *)
(* (Server.stop): once the server stopped, a handover that waits for its    *)
(* commit has its read deadline in the past.                                *)
StopEndsPrepared ==
    \A p \in Procs : Live(p) /\ stopped[p] /\ handover[p] = "prepared" => readPast[p]
=============================================================================
