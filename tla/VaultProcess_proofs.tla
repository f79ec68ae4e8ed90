------------------------ MODULE VaultProcess_proofs ------------------------
(***************************************************************************)
(* Theorems about VaultProcess, for every number of processes, clients,    *)
(* credentials, values and every setting of the deadlines.                 *)
(***************************************************************************)
EXTENDS VaultProcess, TLAPS

---------------------------------------------------------------------------
(* Lemmas about the operators *)

LEMMA RequestTypes ==
    ASSUME NEW r \in Requests
    PROVE  /\ r.op \in {"get", "check", "set", "delete", "bind", "lock"}
           /\ r.op \in {"get", "check", "set", "delete"} => r.cred \in Creds
           /\ r.op = "set" => r.val \in Values
           /\ r.op = "bind" => r.allowed \in AllowedType
BY DEF Requests

(* What answer leaves behind is again something a process can hold. *)
LEMMA AnswerTypes ==
    ASSUME NEW r \in Requests, NEW h \in HeldType, NEW a \in AllowedType
    PROVE  /\ HeldAfter(r, h) \in HeldType
           /\ AllowedAfter(r, a) \in AllowedType
           /\ AnswerTo(r, h, a) \in Answers
<1>1. HeldAfter(r, h) \in HeldType
  BY RequestTypes DEF HeldAfter, HeldType
<1>2. AllowedAfter(r, a) \in AllowedType
  BY RequestTypes DEF AllowedAfter, AllowedType
<1>3. AnswerTo(r, h, a) \in Answers
  BY RequestTypes, RequestsAssumption DEF AnswerTo, Answers, HeldType
<1> QED BY <1>1, <1>2, <1>3

LEMMA NothingHeldType == NothingHeld \in HeldType
BY DEF NothingHeld, HeldType

(* The shorter of two limits is one of them, and a limit wherever one is. *)
LEMMA ShorterLimitType ==
    ASSUME NEW a \in Limits \cup {0}, NEW b \in Limits
    PROVE  /\ ShorterLimit(a, b) \in Limits \cup {0}
           /\ ShorterLimit(a, b) \in Nat
           /\ a # 0 => ShorterLimit(a, b) # 0 /\ ShorterLimit(a, b) <= a
BY ProcessAssumption DEF ShorterLimit, Earlier

(* The next deadline is within the idle time, and within the maximum. *)
LEMMA NextLocksAtType ==
    ASSUME TypeOK, NEW p \in Procs
    PROVE  /\ NextLocksAt(p) \in 0..(MaxTime + Idle)
           /\ NextLocksAt(p) <= now + Idle
           /\ maxUnlock[p] # 0 => NextLocksAt(p) <= unlockedAt[p] + maxUnlock[p]
<1>1. Idle \in Nat /\ MaxTime \in Nat
  BY ProcessAssumption
<1>2. maxUnlock[p] \in Nat
  <2>1. maxUnlock[p] \in Limits \cup {0}
    BY DEF TypeOK
  <2>2. \A m \in Limits : m \in Nat
    BY ProcessAssumption
  <2> QED BY <2>1, <2>2
<1>3. now \in 0..MaxTime /\ unlockedAt[p] \in 0..MaxTime
  BY DEF TypeOK
<1> QED BY <1>1, <1>2, <1>3 DEF NextLocksAt, Earlier

---------------------------------------------------------------------------
(* Type correctness *)

(* A call beyond its first step carries a request, and one on a connection  *)
(* has a process at the other end.                                          *)
CallOK ==
    \A c \in Clients :
        /\ pc[c] # "idle" => req[c] \in Requests
        /\ pc[c] \notin {"idle", "dialing"} => conn[c] \in Procs

Typing == TypeOK /\ CallOK

LEMMA InitTyping == Init => Typing
<1> SUFFICES ASSUME Init PROVE Typing
  OBVIOUS
<1>1. CallOK
  BY DEF Init, CallOK
<1>2. Idle \in Nat /\ Idle # 0 /\ MaxTime \in Nat /\ First \in Procs
  BY ProcessAssumption
<1>3. \A m \in Limits \cup {0} : m \in Nat
  BY ProcessAssumption
<1>4. maxUnlock \in [Procs -> Limits \cup {0}]
  BY DEF Init
<1>5. locksAt \in [Procs -> 0..(MaxTime + Idle)]
  <2>1. locksAt = [p \in Procs |-> IF p # First THEN 0
                                   ELSE IF maxUnlock[p] = 0 THEN Idle
                                   ELSE Earlier(Idle, maxUnlock[p])]
    BY DEF Init
  <2> QED BY <2>1, <1>2, <1>3, <1>4 DEF Earlier
<1>6. held \in [Procs -> HeldType] /\ allowed \in [Procs -> AllowedType]
  BY NothingHeldType DEF Init, AllowedType
<1>7. /\ now \in 0..MaxTime /\ lastGet \in 0..MaxTime
      /\ unlockedAt \in [Procs -> 0..MaxTime]
  BY <1>2 DEF Init
<1>8. /\ replaced \in [Procs -> BOOLEAN] /\ stopped \in [Procs -> BOOLEAN]
      /\ armed \in [Procs -> BOOLEAN] /\ handingOver \in [Procs -> BOOLEAN]
      /\ readPast \in [Procs -> BOOLEAN]
      /\ socket \in Procs \cup {NoProc}
      /\ phase \in [Procs -> Phases]
      /\ handover \in [Procs -> HandoverSteps]
      /\ successor \in [Procs -> Procs \cup {NoProc}]
  BY <1>2 DEF Init, Phases, HandoverSteps
<1>9. /\ req \in [Clients -> Requests \cup {NoRequest}]
      /\ pc \in [Clients -> CallSteps]
      /\ conn \in [Clients -> Procs \cup {NoProc}]
      /\ resp \in [Clients -> Answers \cup {"none", "refused"}]
      /\ got \in [Clients -> CallResults]
  BY DEF Init, CallSteps, CallResults
<1> QED BY <1>1, <1>4, <1>5, <1>6, <1>7, <1>8, <1>9 DEF Typing, TypeOK

(* The operators the actions share keep their variables in their types. *)
LEMMA StopTypes ==
    ASSUME TypeOK, NEW p \in Procs, Stop(p)
    PROVE  /\ stopped' \in [Procs -> BOOLEAN]
           /\ armed' \in [Procs -> BOOLEAN]
           /\ socket' \in Procs \cup {NoProc}
           /\ readPast' \in [Procs -> BOOLEAN]
BY DEF TypeOK, Stop, stopVars

LEMMA GoneTypes ==
    ASSUME TypeOK, NEW p, Gone(p)
    PROVE  /\ phase' \in [Procs -> Phases]
           /\ UNCHANGED stopped
           /\ armed' \in [Procs -> BOOLEAN]
           /\ socket' \in Procs \cup {NoProc}
           /\ readPast' \in [Procs -> BOOLEAN]
           /\ held' \in [Procs -> HeldType]
           /\ allowed' \in [Procs -> AllowedType]
           /\ locksAt' \in [Procs -> 0..(MaxTime + Idle)]
<1>1. 0 \in 0..(MaxTime + Idle)
  BY ProcessAssumption
<1> QED BY <1>1, NothingHeldType DEF TypeOK, Gone, Phases, AllowedType

LEMMA AnsweredTypes ==
    ASSUME Typing, NEW c \in Clients, NEW a \in CallResults,
           Answered(c, a), UNCHANGED req
    PROVE  /\ pc' \in [Clients -> CallSteps]
           /\ conn' \in [Clients -> Procs \cup {NoProc}]
           /\ resp' \in [Clients -> Answers \cup {"none", "refused"}]
           /\ got' \in [Clients -> CallResults]
           /\ CallOK'
BY DEF Typing, TypeOK, Answered, Returned, CallSteps, CallOK

LEMMA GoesToTypes ==
    ASSUME Typing, NEW c \in Clients, NEW step \in CallSteps \ {"idle"},
           GoesTo(c, step), UNCHANGED req,
           pc[c] # "idle", step # "dialing" => conn[c] \in Procs
    PROVE  /\ pc' \in [Clients -> CallSteps]
           /\ conn' \in [Clients -> Procs \cup {NoProc}]
           /\ resp' \in [Clients -> Answers \cup {"none", "refused"}]
           /\ got' \in [Clients -> CallResults]
           /\ CallOK'
BY DEF Typing, TypeOK, GoesTo, CallSteps, CallOK

LEMMA ServerTyping ==
    ASSUME Typing, NEW p \in Procs,
           \/ Tick \/ ReplaceProgram \/ TimerFires(p) \/ CloseServer(p) \/ Wipe(p) \/ Crash(p)
    PROVE  Typing'
<1> USE DEF Typing, CallOK
<1>1. CASE Tick
  <2>1. now' \in 0..MaxTime
    BY <1>1, ProcessAssumption DEF Tick, TypeOK
  <2> QED BY <1>1, <2>1 DEF Tick, TypeOK, serverVars, handoverVars, clientVars, stopVars
<1>2. CASE ReplaceProgram
  BY <1>2 DEF ReplaceProgram, TypeOK, serverVars, handoverVars, clientVars, stopVars
<1>3. CASE TimerFires(p)
  BY <1>3, StopTypes DEF TimerFires, TypeOK, serverVars, handoverVars, clientVars
<1>4. CASE CloseServer(p)
  BY <1>4, StopTypes DEF CloseServer, TypeOK, serverVars, handoverVars, clientVars
<1>5. CASE Wipe(p)
  BY <1>5, GoneTypes DEF Wipe, Forgets, TypeOK, clientVars
<1>6. CASE Crash(p)
  <2>1. handover' \in [Procs -> HandoverSteps]
    BY <1>6 DEF Crash, TypeOK, HandoverSteps
  <2> QED BY <1>6, <2>1, GoneTypes DEF Crash, Forgets, TypeOK, clientVars
<1> QED BY <1>1, <1>2, <1>3, <1>4, <1>5, <1>6

LEMMA CallTyping ==
    ASSUME Typing, NEW c \in Clients,
           \/ \E r \in Requests : Ask(c, r)
           \/ Call(c)
    PROVE  Typing'
<1>1. CASE \E r \in Requests : Ask(c, r)
  BY <1>1 DEF Ask, Typing, CallOK, CallSteps, CallResults, TypeOK, serverVars, handoverVars, clientVars, stopVars
<1>2. CASE Dial(c)
  <2>1. CASE socket # NoProc /\ Live(socket) /\ ~stopped[socket]
    BY <1>2, <2>1 DEF Dial, Typing, CallOK, CallSteps, TypeOK, serverVars, handoverVars, clientVars, stopVars
  <2>2. CASE ~(socket # NoProc /\ Live(socket) /\ ~stopped[socket])
    <3>1. Answered(c, "refused") /\ UNCHANGED req /\ "refused" \in CallResults
      BY <1>2, <2>2 DEF Dial, CallResults
    <3> QED BY <1>2, <3>1, AnsweredTypes DEF Dial, Typing, TypeOK, serverVars, handoverVars, stopVars
  <2> QED BY <2>1, <2>2
<1>3. CASE Greet(c)
  <2> DEFINE p == conn[c]
  <2>1. pc[c] = "dialed" /\ p \in Procs /\ UNCHANGED req
    BY <1>3 DEF Greet, Typing, CallOK
  <2>2. \/ UNCHANGED stopVars
        \/ Stop(p)
    BY <1>3 DEF Greet
  <2>3. \/ GoesTo(c, "replaced") \/ GoesTo(c, "greeted")
        \/ Answered(c, "refused")
    BY <1>3 DEF Greet
  <2>4. /\ stopped' \in [Procs -> BOOLEAN] /\ armed' \in [Procs -> BOOLEAN]
        /\ socket' \in Procs \cup {NoProc} /\ readPast' \in [Procs -> BOOLEAN]
    BY <2>1, <2>2, StopTypes DEF Typing, TypeOK, stopVars
  <2>5. /\ pc' \in [Clients -> CallSteps]
        /\ conn' \in [Clients -> Procs \cup {NoProc}]
        /\ resp' \in [Clients -> Answers \cup {"none", "refused"}]
        /\ got' \in [Clients -> CallResults]
        /\ CallOK'
    <3>1. "replaced" \in CallSteps \ {"idle"} /\ "greeted" \in CallSteps \ {"idle"}
      BY DEF CallSteps
    <3>2. "refused" \in CallResults
      BY DEF CallResults
    <3> QED BY <2>1, <2>3, <3>1, <3>2, GoesToTypes, AnsweredTypes
  <2> QED BY <1>3, <2>4, <2>5 DEF Greet, Typing, TypeOK, serverVars, handoverVars
<1>4. CASE Read(c)
  <2>1. /\ pc[c] = "greeted" /\ conn[c] \in Procs /\ UNCHANGED req
        /\ GoesTo(c, "replaced") \/ GoesTo(c, "read") \/ Answered(c, "broken")
    BY <1>4 DEF Read, Typing, CallOK
  <2>2. /\ "replaced" \in CallSteps \ {"idle"} /\ "read" \in CallSteps \ {"idle"}
        /\ "broken" \in CallResults
    BY DEF CallSteps, CallResults
  <2> QED BY <1>4, <2>1, <2>2, GoesToTypes, AnsweredTypes DEF Read, Typing, TypeOK, serverVars, handoverVars, stopVars
<1>5. CASE Broken(c)
  <2>1. \E a \in CallResults : Answered(c, a)
    BY <1>5 DEF Broken, CallResults
  <2> QED BY <1>5, <2>1, AnsweredTypes DEF Broken, Typing, TypeOK, serverVars, handoverVars, stopVars
<1>6. CASE Answer(c)
  <2> DEFINE p == conn[c]
  <2>1. pc[c] = "read" /\ p \in Procs /\ req[c] \in Requests
    BY <1>6 DEF Answer, Typing, CallOK
  <2>2. held[p] \in HeldType /\ allowed[p] \in AllowedType
    BY <2>1 DEF Typing, TypeOK
  <2>3. /\ HeldAfter(req[c], held[p]) \in HeldType
        /\ AllowedAfter(req[c], allowed[p]) \in AllowedType
        /\ AnswerTo(req[c], held[p], allowed[p]) \in Answers
    BY <2>1, <2>2, AnswerTypes
  <2>4. /\ held' \in [Procs -> HeldType] /\ allowed' \in [Procs -> AllowedType]
        /\ resp' \in [Clients -> Answers \cup {"none", "refused"}]
        /\ got' \in [Clients -> CallResults]
        /\ pc' \in [Clients -> CallSteps]
    BY <1>6, <2>3 DEF Answer, Carried, Typing, TypeOK, CallSteps
  <2>5. /\ locksAt' \in [Procs -> 0..(MaxTime + Idle)]
        /\ armed' \in [Procs -> BOOLEAN]
        /\ lastGet' \in 0..MaxTime
    <3>1. CASE Touch(p)
      BY <3>1, <2>1, NextLocksAtType DEF Touch, Typing, TypeOK
    <3>2. CASE UNCHANGED <<locksAt, armed, lastGet>>
      BY <3>2 DEF Typing, TypeOK
    <3> QED BY <1>6, <3>1, <3>2 DEF Answer
  <2>6. CallOK'
    BY <1>6, <2>1 DEF Answer, Carried, Typing, TypeOK, CallOK
  <2> QED BY <1>6, <2>4, <2>5, <2>6 DEF Answer, Carried, Typing, TypeOK, handoverVars
<1>7. CASE AnswerStopped(c)
  BY <1>7 DEF AnswerStopped, Carried, Typing, CallOK, CallSteps, TypeOK, serverVars, handoverVars, stopVars
<1>8. CASE AnswerLock(c)
  <2>1. /\ pc[c] = "read" /\ conn[c] \in Procs /\ UNCHANGED req
        /\ GoesTo(c, "locking") /\ "locking" \in CallSteps \ {"idle"}
    BY <1>8 DEF AnswerLock, Typing, CallOK, CallSteps
  <2> QED BY <1>8, <2>1, GoesToTypes DEF AnswerLock, Typing, TypeOK, serverVars, handoverVars, stopVars
<1>9. CASE StopForLock(c)
  <2>1. pc[c] = "locking" /\ conn[c] \in Procs
    BY <1>9 DEF StopForLock, Typing, CallOK
  <2>2. /\ pc' \in [Clients -> CallSteps] /\ CallOK'
        /\ resp' \in [Clients -> Answers \cup {"none", "refused"}]
        /\ got' \in [Clients -> CallResults]
    BY <1>9, <2>1 DEF StopForLock, Carried, Typing, TypeOK, CallOK, CallSteps, Answers
  <2> QED BY <1>9, <2>1, <2>2, StopTypes DEF StopForLock, Carried, Typing, TypeOK, serverVars, handoverVars
<1>10. CASE Reply(c)
  <2>1. \E a \in CallResults : Answered(c, a)
    BY <1>10 DEF Reply, CallResults, Typing, TypeOK
  <2> QED BY <1>10, <2>1, AnsweredTypes DEF Reply, Typing, TypeOK, serverVars, handoverVars, stopVars
<1>11. CASE Retry(c)
  <2>1. /\ pc[c] = "replaced" /\ UNCHANGED req
        /\ GoesTo(c, "dialing") /\ "dialing" \in CallSteps \ {"idle"}
    BY <1>11 DEF Retry, CallSteps
  <2> QED BY <1>11, <2>1, GoesToTypes DEF Retry, Typing, TypeOK, serverVars, handoverVars, stopVars
<1>12. CASE GiveUp(c)
  <2>1. pc[c] = "replaced" /\ conn[c] \in Procs
    BY <1>12 DEF GiveUp, Typing, CallOK
  <2>2. /\ \/ Answered(c, "signalled") /\ Stop(conn[c])
           \/ Answered(c, "refused") /\ UNCHANGED stopVars
        /\ UNCHANGED req /\ "signalled" \in CallResults /\ "refused" \in CallResults
    BY <1>12 DEF GiveUp, CallResults
  <2>3. /\ stopped' \in [Procs -> BOOLEAN] /\ armed' \in [Procs -> BOOLEAN]
        /\ socket' \in Procs \cup {NoProc} /\ readPast' \in [Procs -> BOOLEAN]
    BY <2>1, <2>2, StopTypes DEF Typing, TypeOK, stopVars
  <2> QED BY <1>12, <2>2, <2>3, AnsweredTypes DEF GiveUp, Typing, TypeOK, serverVars, handoverVars
<1>13. CASE Leave(c)
  <2>1. CASE pc[c] \in {"dialing", "dialed"} /\ Answered(c, "refused")
    <3>1. "refused" \in CallResults /\ UNCHANGED req
      BY <1>13 DEF Leave, CallResults
    <3> QED BY <1>13, <2>1, <3>1, AnsweredTypes DEF Leave, Typing, TypeOK, serverVars, handoverVars, stopVars
  <2>2. CASE got' = [got EXCEPT ![c] = "broken"] /\ UNCHANGED <<pc, conn, resp>>
    BY <1>13, <2>2 DEF Leave, CallResults, Typing, CallOK, TypeOK, serverVars, handoverVars, stopVars
  <2> QED BY <1>13, <2>1, <2>2 DEF Leave
<1> QED
  BY <1>1, <1>2, <1>3, <1>4, <1>5, <1>6, <1>7, <1>8, <1>9, <1>10, <1>11, <1>12, <1>13 DEF Call

LEMMA HandoverTyping ==
    ASSUME Typing, NEW p \in Procs,
           Claim(p) \/ ServeHandover(p) \/ AwaitHandover(p)
    PROVE  Typing'
<1> USE DEF Typing, CallOK
<1>1. CASE Claim(p)
  BY <1>1 DEF Claim, HandoverStep, HandoverSteps, TypeOK, serverVars, clientVars
<1>2. CASE Prepare(p)
  BY <1>2 DEF Prepare, Fails, HandoverStep, HandoverSteps, TypeOK, serverVars, clientVars, stopVars
<1>3. CASE Prepared(p)
  BY <1>3 DEF Prepared, HandoverStep, HandoverSteps, TypeOK, serverVars, clientVars
<1>4. CASE PreparedLock(p)
  BY <1>4, StopTypes DEF PreparedLock, HandoverStep, HandoverSteps, TypeOK, serverVars, clientVars
<1>5. CASE PrepareFails(p)
  BY <1>5 DEF PrepareFails, Fails, HandoverStep, HandoverSteps, TypeOK, serverVars, clientVars, stopVars
<1>6. CASE Commit(p)
  BY ZenonT(60), <1>6 DEF Commit, Fails, HandoverStep, HandoverSteps, TypeOK, serverVars, clientVars
<1>7. CASE \E q \in Procs : Snapshot(p, q)
  <2> PICK q \in Procs : Snapshot(p, q)
    BY <1>7
  <2>1. \A own \in Limits : ShorterLimit(maxUnlock[p], own) \in Limits \cup {0}
    BY ShorterLimitType DEF TypeOK
  <2>2. maxUnlock' \in [Procs -> Limits \cup {0}]
    BY <2>1 DEF Snapshot, TypeOK
  <2>3. /\ phase' \in [Procs -> Phases] /\ handover' \in [Procs -> HandoverSteps]
        /\ successor' \in [Procs -> Procs \cup {NoProc}]
    BY DEF Snapshot, HandoverStep, HandoverSteps, Phases, TypeOK
  <2>4. /\ held' \in [Procs -> HeldType] /\ allowed' \in [Procs -> AllowedType]
        /\ locksAt' \in [Procs -> 0..(MaxTime + Idle)] /\ unlockedAt' \in [Procs -> 0..MaxTime]
    BY DEF Snapshot, TypeOK
  <2> QED BY <2>2, <2>3, <2>4 DEF Snapshot, TypeOK, stopVars, clientVars
<1>8. CASE CommitFails(p)
  BY <1>8 DEF CommitFails, Fails, HandoverStep, HandoverSteps, TypeOK, serverVars, clientVars, stopVars
<1>9. CASE SuccessorReady(p)
  BY <1>9 DEF SuccessorReady, HandoverStep, HandoverSteps, TypeOK, serverVars, clientVars, stopVars
<1>10. CASE Swap(p)
  BY <1>10 DEF Swap, HandoverStep, HandoverSteps, TypeOK, serverVars, clientVars
<1>11. CASE SwapFails(p)
  <2>1. Gone(successor[p])
    BY <1>11 DEF SwapFails
  <2>2. handover' \in [Procs -> HandoverSteps] /\ handingOver' \in [Procs -> BOOLEAN]
    BY <1>11 DEF SwapFails, Fails, HandoverStep, HandoverSteps, TypeOK
  <2> QED BY <1>11, <2>1, <2>2, GoneTypes DEF SwapFails, TypeOK, clientVars
<1>12. CASE HandoverEnds(p)
  BY <1>12, StopTypes DEF HandoverEnds, HandoverStep, HandoverSteps, TypeOK, serverVars, clientVars
<1>13. CASE TakeOver(p)
  <2>1. Earlier(NextLocksAt(p), locksAt[p]) \in 0..(MaxTime + Idle)
    BY NextLocksAtType DEF Earlier, TypeOK
  <2> QED BY <1>13, <2>1 DEF TakeOver, Phases, TypeOK, handoverVars, clientVars
<1>14. CASE AwaitFails(p)
  BY <1>14, StopTypes DEF AwaitFails, TypeOK, serverVars, handoverVars, clientVars
<1> QED
  BY <1>1, <1>2, <1>3, <1>4, <1>5, <1>6, <1>7, <1>8, <1>9, <1>10, <1>11, <1>12, <1>13, <1>14
     DEF ServeHandover, AwaitHandover

LEMMA NextTyping == Typing /\ [Next]_vars => Typing'
<1> SUFFICES ASSUME Typing, [Next]_vars PROVE Typing'
  OBVIOUS
<1>1. CASE UNCHANGED vars
  BY <1>1 DEF vars, Typing, TypeOK, CallOK, serverVars, handoverVars, clientVars, stopVars
<1>2. CASE Tick \/ ReplaceProgram
  BY <1>2, ServerTyping, ProcessAssumption
<1>3. ASSUME NEW p \in Procs,
             \/ TimerFires(p) \/ CloseServer(p) \/ Wipe(p) \/ Crash(p)
             \/ Claim(p) \/ ServeHandover(p) \/ AwaitHandover(p)
      PROVE  Typing'
  BY <1>3, ServerTyping, HandoverTyping
<1>4. ASSUME NEW c \in Clients,
             \/ \E r \in Requests : Ask(c, r)
             \/ Call(c)
      PROVE  Typing'
  BY <1>4, CallTyping
<1> QED BY <1>1, <1>2, <1>3, <1>4 DEF Next

(* Every variable keeps its type, whatever clients, updates, signals and    *)
(* crashes do: in particular no deadline ever lies further ahead than the   *)
(* idle time.                                                               *)
THEOREM TypeCorrect == Spec => []TypeOK
<1>1. Typing => TypeOK
  BY DEF Typing
<1> QED BY <1>1, InitTyping, NextTyping, PTL DEF Spec

---------------------------------------------------------------------------
(* The handover *)

LEMMA InitHandover == Init => HandoverInv
BY ProcessAssumption DEF Init, HandoverInv, CommittedIsClosed, OnlyServingWorks, SuccessorStarted, OwnSuccessor, HandedOverInFull, HasSuccessor, InFlight

(* Stopping takes no process to the path that was not there. *)
LEMMA StopSocket ==
    ASSUME NEW p \in Procs, Stop(p)
    PROVE  socket' \in {socket, NoProc}
BY DEF Stop, stopVars

LEMMA ServerHandover ==
    ASSUME Typing, HandoverInv, NEW p \in Procs,
           \/ Tick \/ ReplaceProgram \/ TimerFires(p) \/ CloseServer(p) \/ Wipe(p) \/ Crash(p)
    PROVE  HandoverInv'
<1>a. NoProc \notin Procs
  BY ProcessAssumption
<1> USE DEF Typing, TypeOK, CallOK, HandoverInv, CommittedIsClosed, OnlyServingWorks, SuccessorStarted, OwnSuccessor, HandedOverInFull, HasSuccessor, InFlight
<1>1. CASE Tick
  BY <1>1 DEF Tick, serverVars, handoverVars, clientVars, stopVars
<1>2. CASE ReplaceProgram
  BY <1>2 DEF ReplaceProgram, serverVars, handoverVars, clientVars, stopVars
<1>3. CASE TimerFires(p)
  BY <1>a, <1>3, StopSocket DEF TimerFires, serverVars, handoverVars, clientVars, stopVars
<1>4. CASE CloseServer(p)
  BY <1>a, <1>4, StopSocket DEF CloseServer, Live, serverVars, handoverVars, clientVars, stopVars
<1>5. CASE Wipe(p)
  BY <1>a, <1>5 DEF Wipe, Gone, Forgets, Live, serverVars, handoverVars, clientVars, stopVars
<1>6. CASE Crash(p)
  BY <1>a, <1>6 DEF Crash, Gone, Forgets, Live, serverVars, handoverVars, clientVars, stopVars
<1> QED BY <1>1, <1>2, <1>3, <1>4, <1>5, <1>6

LEMMA CallHandover ==
    ASSUME Typing, HandoverInv, NEW c \in Clients,
           \/ \E r \in Requests : Ask(c, r)
           \/ Call(c)
    PROVE  HandoverInv'
<1>a. NoProc \notin Procs
  BY ProcessAssumption
<1> USE DEF Typing, TypeOK, CallOK, HandoverInv, CommittedIsClosed, OnlyServingWorks, SuccessorStarted, OwnSuccessor, HandedOverInFull, HasSuccessor, InFlight
<1>1. CASE \E r \in Requests : Ask(c, r)
  BY <1>1 DEF Ask, serverVars, handoverVars, clientVars, stopVars
<1>2. CASE Dial(c)
  BY SMTT(30), <1>2 DEF Dial, GoesTo, Answered, Stop, Touch, Live, serverVars, handoverVars, clientVars, stopVars
<1>3. CASE Greet(c)
  BY SMTT(30), <1>a, <1>3, StopSocket DEF Greet, GoesTo, Answered, Live, serverVars, handoverVars, clientVars, stopVars
<1>4. CASE Read(c)
  BY <1>4 DEF Read, GoesTo, Answered, Stop, Touch, Live, serverVars, handoverVars, clientVars, stopVars
<1>5. CASE Broken(c)
  BY <1>5 DEF Broken, GoesTo, Answered, Stop, Touch, Live, serverVars, handoverVars, clientVars, stopVars
<1>6. CASE Answer(c)
  BY <1>6 DEF Answer, Carried, GoesTo, Answered, Stop, Touch, Live, serverVars, handoverVars, clientVars, stopVars
<1>7. CASE AnswerStopped(c)
  BY <1>7 DEF AnswerStopped, Carried, GoesTo, Answered, Stop, Touch, Live, serverVars, handoverVars, clientVars, stopVars
<1>8. CASE AnswerLock(c)
  BY <1>8 DEF AnswerLock, GoesTo, Answered, Stop, Touch, Live, serverVars, handoverVars, clientVars, stopVars
<1>9. CASE StopForLock(c)
  BY <1>a, <1>9, StopSocket DEF StopForLock, Carried, GoesTo, Answered, Live, serverVars, handoverVars, clientVars, stopVars
<1>10. CASE Reply(c)
  BY <1>10 DEF Reply, GoesTo, Answered, Stop, Touch, Live, serverVars, handoverVars, clientVars, stopVars
<1>11. CASE Retry(c)
  BY <1>11 DEF Retry, GoesTo, Answered, Stop, Touch, Live, serverVars, handoverVars, clientVars, stopVars
<1>12. CASE GiveUp(c)
  BY <1>a, <1>12, StopSocket DEF GiveUp, GoesTo, Answered, Live, serverVars, handoverVars, clientVars, stopVars
<1>13. CASE Leave(c)
  <2>1. UNCHANGED <<phase, socket, handover, handingOver, successor, held, allowed, locksAt>>
    BY <1>13 DEF Leave, serverVars, handoverVars, stopVars
  <2>2. \A d \in Clients : pc'[d] # "idle" => UNCHANGED <<pc[d], conn[d]>>
    BY <1>13 DEF Leave, Answered
  <2> QED BY <2>1, <2>2
<1> QED
  BY <1>1, <1>2, <1>3, <1>4, <1>5, <1>6, <1>7, <1>8, <1>9, <1>10, <1>11, <1>12, <1>13 DEF Call

LEMMA HandoverHandover ==
    ASSUME Typing, HandoverInv, NEW p \in Procs,
           Claim(p) \/ ServeHandover(p) \/ AwaitHandover(p)
    PROVE  HandoverInv'
<1>a. NoProc \notin Procs
  BY ProcessAssumption
<1> USE DEF Typing, TypeOK, CallOK, HandoverInv, CommittedIsClosed, OnlyServingWorks, SuccessorStarted, OwnSuccessor, HandedOverInFull, HasSuccessor, InFlight
<1>1. CASE Claim(p)
  BY <1>1 DEF Claim, HandoverStep, Fails, Stop, Gone, Live, serverVars, handoverVars, clientVars, stopVars
<1>2. CASE Prepare(p)
  BY SMTT(30), <1>2 DEF Prepare, HandoverStep, Fails, Stop, Gone, Live, serverVars, handoverVars, clientVars, stopVars
<1>3. CASE Prepared(p)
  BY <1>3 DEF Prepared, HandoverStep, Fails, Stop, Gone, Live, serverVars, handoverVars, clientVars, stopVars
<1>4. CASE PreparedLock(p)
  BY <1>a, <1>4, StopSocket DEF PreparedLock, HandoverStep, Fails, Live, serverVars, handoverVars, clientVars, stopVars
<1>5. CASE PrepareFails(p)
  BY <1>5 DEF PrepareFails, HandoverStep, Fails, Stop, Gone, Live, serverVars, handoverVars, clientVars, stopVars
<1>6. CASE Commit(p)
  BY SMTT(30), <1>6 DEF Commit, HandoverStep, Fails, Stop, Gone, Live, serverVars, handoverVars, clientVars, stopVars
<1>7. CASE \E q \in Procs : Snapshot(p, q)
  <2> PICK q \in Procs : Snapshot(p, q)
    BY <1>7
  <2>1. /\ handover' = [handover EXCEPT ![p] = "starting"]
        /\ successor' = [successor EXCEPT ![p] = q]
        /\ phase' = [phase EXCEPT ![q] = "started"]
        /\ held' = [held EXCEPT ![q] = held[p]]
        /\ allowed' = [allowed EXCEPT ![q] = allowed[p]]
        /\ locksAt' = [locksAt EXCEPT ![q] = locksAt[p]]
        /\ UNCHANGED <<handingOver, socket, pc, conn>>
    BY DEF Snapshot, HandoverStep, stopVars, clientVars
  <2>2. phase[q] = "absent" /\ handover[p] = "draining" /\ InFlight(p) = {}
    BY DEF Snapshot
  <2>3. handover[q] = "none" /\ p # q /\ socket # q
    BY <1>a, <2>2
  <2>4. \A r \in Procs : HasSuccessor(r) => successor[r] # q /\ r # p /\ r # q
    BY <2>2, <2>3
  <2>5. \A c \in Clients : pc[c] \in {"greeted", "read", "locking", "answered"} => conn[c] # q
    BY <2>2
  <2>6. CommittedIsClosed' /\ OnlyServingWorks'
    BY <2>1, <2>2, <2>3, <2>5
  <2>7. SuccessorStarted' /\ OwnSuccessor'
    BY <2>1, <2>3, <2>4, <1>a
  <2>8. HandedOverInFull'
    BY <2>1, <2>2, <2>3, <2>4
  <2> QED BY <2>6, <2>7, <2>8
<1>8. CASE CommitFails(p)
  BY <1>8 DEF CommitFails, HandoverStep, Fails, Stop, Gone, Live, serverVars, handoverVars, clientVars, stopVars
<1>9. CASE SuccessorReady(p)
  BY <1>9 DEF SuccessorReady, HandoverStep, Fails, Stop, Gone, Live, serverVars, handoverVars, clientVars, stopVars
<1>10. CASE Swap(p)
  BY <1>10 DEF Swap, HandoverStep, Fails, Stop, Gone, Live, serverVars, handoverVars, clientVars, stopVars
<1>11. CASE SwapFails(p)
  BY <1>11 DEF SwapFails, HandoverStep, Fails, Stop, Gone, Live, serverVars, handoverVars, clientVars, stopVars
<1>12. CASE HandoverEnds(p)
  BY <1>a, <1>12, StopSocket DEF HandoverEnds, HandoverStep, Fails, Live, serverVars, handoverVars, clientVars, stopVars
<1>13. CASE TakeOver(p)
  BY <1>13 DEF TakeOver, HandoverStep, Fails, Stop, Gone, Live, serverVars, handoverVars, clientVars, stopVars
<1>14. CASE AwaitFails(p)
  BY <1>14 DEF AwaitFails, HandoverStep, Fails, Stop, Gone, Live, serverVars, handoverVars, clientVars, stopVars
<1> QED
  BY <1>1, <1>2, <1>3, <1>4, <1>5, <1>6, <1>7, <1>8, <1>9, <1>10, <1>11, <1>12, <1>13, <1>14
     DEF ServeHandover, AwaitHandover

LEMMA NextHandover == Typing /\ HandoverInv /\ [Next]_vars => HandoverInv'
<1> SUFFICES ASSUME Typing, HandoverInv, [Next]_vars PROVE HandoverInv'
  OBVIOUS
<1>1. CASE UNCHANGED vars
  BY <1>1 DEF vars, HandoverInv, CommittedIsClosed, OnlyServingWorks, SuccessorStarted,
              OwnSuccessor, HandedOverInFull, HasSuccessor, InFlight,
              serverVars, handoverVars, clientVars, stopVars
<1>2. CASE Tick \/ ReplaceProgram
  BY <1>2, ServerHandover, ProcessAssumption
<1>3. ASSUME NEW p \in Procs,
             \/ TimerFires(p) \/ CloseServer(p) \/ Wipe(p) \/ Crash(p)
             \/ Claim(p) \/ ServeHandover(p) \/ AwaitHandover(p)
      PROVE  HandoverInv'
  BY <1>3, ServerHandover, HandoverHandover
<1>4. ASSUME NEW c \in Clients,
             \/ \E r \in Requests : Ask(c, r)
             \/ Call(c)
      PROVE  HandoverInv'
  BY <1>4, CallHandover
<1> QED BY <1>1, <1>2, <1>3, <1>4 DEF Next

(* The facts a handover rests on hold at every step: what was committed     *)
(* stays closed to requests, and every handover has a successor of its own  *)
(* that is not at the path before the swap.                                 *)
THEOREM HandoverKept == Spec => []HandoverInv
BY InitTyping, NextTyping, InitHandover, NextHandover, PTL DEF Spec

(* Whatever is asked while an update hands the vault over, and wherever a   *)
(* process dies, the snapshot a successor starts from is complete: its      *)
(* predecessor has answered every request it read, reads no other one, and  *)
(* holds exactly what it handed over.                                       *)
THEOREM HandoverSafe == Spec => []HandedOverInFull
<1>1. HandoverInv => HandedOverInFull
  BY DEF HandoverInv
<1> QED BY <1>1, HandoverKept, PTL

---------------------------------------------------------------------------
(* When a process locks: a timer runs, no process keeps secrets nobody can  *)
(* reach, and no handover extends an unlock.                                *)

LEMMA InitArmed == Init => ArmedTimer
BY DEF Init, ArmedTimer

LEMMA ServerArmed ==
    ASSUME Typing, ArmedTimer, NEW p \in Procs,
           \/ Tick \/ ReplaceProgram \/ TimerFires(p) \/ CloseServer(p) \/ Wipe(p) \/ Crash(p)
    PROVE  ArmedTimer'
<1> USE DEF Typing, TypeOK, ArmedTimer
<1>1. CASE Tick
  BY <1>1 DEF Tick, handoverVars, stopVars
<1>2. CASE ReplaceProgram
  BY <1>2 DEF ReplaceProgram, handoverVars, stopVars
<1>3. CASE TimerFires(p)
  BY <1>3 DEF TimerFires, Stop, handoverVars, stopVars
<1>4. CASE CloseServer(p)
  BY <1>4 DEF CloseServer, Stop, handoverVars, stopVars
<1>5. CASE Wipe(p)
  BY <1>5 DEF Wipe, Gone, handoverVars
<1>6. CASE Crash(p)
  BY <1>6 DEF Crash, Gone
<1> QED BY <1>1, <1>2, <1>3, <1>4, <1>5, <1>6

LEMMA CallArmed ==
    ASSUME Typing, ArmedTimer, NEW c \in Clients,
           \/ \E r \in Requests : Ask(c, r)
           \/ Call(c)
    PROVE  ArmedTimer'
<1> USE DEF Typing, TypeOK, CallOK, ArmedTimer, handoverVars, stopVars
<1>1. CASE \E r \in Requests : Ask(c, r)
  BY <1>1 DEF Ask
<1>2. CASE Dial(c) \/ Read(c) \/ Broken(c) \/ Leave(c) \/ AnswerStopped(c) \/ AnswerLock(c) \/ Reply(c) \/ Retry(c)
  BY <1>2 DEF Dial, Read, Broken, Leave, AnswerStopped, AnswerLock, Reply, Retry
<1>3. CASE Greet(c)
  BY <1>3 DEF Greet, Stop
<1>4. CASE Answer(c)
  BY <1>4 DEF Answer, Touch
<1>5. CASE StopForLock(c)
  BY <1>5 DEF StopForLock, Stop
<1>6. CASE GiveUp(c)
  BY <1>6 DEF GiveUp, Stop
<1> QED BY <1>1, <1>2, <1>3, <1>4, <1>5, <1>6 DEF Call

(* What was committed never comes back to a step that needs the timer: each *)
(* way on ends in "failing" or "swapped", and those in a stop.              *)
LEMMA HandoverArmed ==
    ASSUME Typing, HandoverInv, ArmedTimer, NEW p \in Procs,
           Claim(p) \/ ServeHandover(p) \/ AwaitHandover(p)
    PROVE  ArmedTimer'
<1> USE DEF Typing, TypeOK, ArmedTimer, handoverVars, stopVars, HandoverStep
<1>1. CASE Claim(p)
  BY <1>1 DEF Claim
<1>2. CASE Prepare(p)
  BY <1>2 DEF Prepare, Fails
<1>3. CASE Prepared(p)
  BY <1>3 DEF Prepared
<1>4. CASE PreparedLock(p)
  BY <1>4 DEF PreparedLock, Stop
<1>5. CASE PrepareFails(p) \/ CommitFails(p)
  BY <1>5 DEF PrepareFails, CommitFails, Fails
<1>6. CASE Commit(p)
  BY <1>6 DEF Commit, Fails
<1>7. CASE \E q \in Procs : Snapshot(p, q)
  BY <1>7 DEF Snapshot
<1>8. CASE SuccessorReady(p)
  BY <1>8 DEF SuccessorReady
<1>9. CASE Swap(p)
  BY <1>9 DEF Swap
<1>10. CASE SwapFails(p)
  BY <1>10 DEF SwapFails, Gone, Fails
<1>11. CASE HandoverEnds(p)
  BY <1>11 DEF HandoverEnds, Stop
<1>12. CASE TakeOver(p)
  BY <1>12 DEF TakeOver
<1>13. CASE AwaitFails(p)
  BY <1>13 DEF AwaitFails, Stop
<1> QED
  BY <1>1, <1>2, <1>3, <1>4, <1>5, <1>6, <1>7, <1>8, <1>9, <1>10, <1>11, <1>12, <1>13
     DEF ServeHandover, AwaitHandover

LEMMA NextArmed == Typing /\ HandoverInv /\ ArmedTimer /\ [Next]_vars => ArmedTimer'
<1> SUFFICES ASSUME Typing, HandoverInv, ArmedTimer, [Next]_vars PROVE ArmedTimer'
  OBVIOUS
<1>1. CASE UNCHANGED vars
  BY <1>1 DEF vars, ArmedTimer, handoverVars, stopVars
<1>2. CASE Tick \/ ReplaceProgram
  BY <1>2, ServerArmed, ProcessAssumption
<1>3. ASSUME NEW p \in Procs,
             \/ TimerFires(p) \/ CloseServer(p) \/ Wipe(p) \/ Crash(p)
             \/ Claim(p) \/ ServeHandover(p) \/ AwaitHandover(p)
      PROVE  ArmedTimer'
  BY <1>3, ServerArmed, HandoverArmed
<1>4. ASSUME NEW c \in Clients,
             \/ \E r \in Requests : Ask(c, r)
             \/ Call(c)
      PROVE  ArmedTimer'
  BY <1>4, CallArmed
<1> QED BY <1>1, <1>2, <1>3, <1>4 DEF Next

(* A serving process that takes requests always has its timer running: no   *)
(* path through a handover, however it fails, leaves the vault unlocked     *)
(* with nothing to lock it.                                                 *)
THEOREM TimerArmed == Spec => []ArmedTimer
BY InitTyping, NextTyping, InitHandover, NextHandover, InitArmed, NextArmed, PTL DEF Spec

---------------------------------------------------------------------------
(* Nobody is left with secrets out of reach *)

LEMMA InitReachable == Init => NoStrandedSecrets
BY DEF Init, NoStrandedSecrets, Live

(* Stopping strands nobody: who stops is on its way out, and the path of    *)
(* everyone else is left alone.                                             *)
LEMMA StopStrandsNobody ==
    ASSUME Typing, NoStrandedSecrets, NEW p \in Procs, Stop(p),
           UNCHANGED phase,
           \A r \in Procs \ {p} : UNCHANGED <<handover[r], handingOver[r]>>
    PROVE  NoStrandedSecrets'
<1> SUFFICES ASSUME NEW r \in Procs, Live(r)', socket' # r, ~stopped'[r], phase'[r] # "started"
             PROVE  handover'[r] = "swapped" /\ handingOver'[r]
  BY DEF NoStrandedSecrets
<1>1. stopped'[p] /\ r # p /\ ~stopped[r]
  BY DEF Stop, stopVars, Typing, TypeOK
<1>2. socket # r
  BY <1>1, ProcessAssumption DEF Stop, stopVars
<1> QED BY <1>1, <1>2 DEF NoStrandedSecrets, Live

LEMMA ServerReachable ==
    ASSUME Typing, NoStrandedSecrets, NEW p \in Procs,
           \/ Tick \/ ReplaceProgram \/ TimerFires(p) \/ CloseServer(p) \/ Wipe(p) \/ Crash(p)
    PROVE  NoStrandedSecrets'
<1>1. CASE Tick \/ ReplaceProgram
  BY <1>1 DEF Tick, ReplaceProgram, NoStrandedSecrets, Live, handoverVars, stopVars
<1>2. CASE TimerFires(p) \/ CloseServer(p)
  BY <1>2, StopStrandsNobody DEF TimerFires, CloseServer, handoverVars
<1>3. CASE Wipe(p) \/ Crash(p)
  BY <1>3 DEF Wipe, Crash, Gone, Forgets, NoStrandedSecrets, Live, handoverVars, Typing, TypeOK
<1> QED BY <1>1, <1>2, <1>3

LEMMA CallReachable ==
    ASSUME Typing, NoStrandedSecrets, NEW c \in Clients,
           \/ \E r \in Requests : Ask(c, r)
           \/ Call(c)
    PROVE  NoStrandedSecrets'
<1>1. CASE /\ UNCHANGED <<phase, socket, stopped, handover, handingOver>>
  BY <1>1 DEF NoStrandedSecrets, Live
<1>2. CASE \E p \in Procs : Stop(p) /\ UNCHANGED <<phase, handover, handingOver>>
  BY <1>2, StopStrandsNobody
<1>3. \/ UNCHANGED <<phase, socket, stopped, handover, handingOver>>
      \/ \E p \in Procs : Stop(p) /\ UNCHANGED <<phase, handover, handingOver>>
  <2> USE DEF handoverVars, stopVars
  <2>1. CASE \E r \in Requests : Ask(c, r)
    BY <2>1 DEF Ask
  <2>2. CASE Dial(c) \/ Read(c) \/ Broken(c) \/ Leave(c) \/ Answer(c) \/ AnswerStopped(c) \/ AnswerLock(c)
             \/ Reply(c) \/ Retry(c)
    BY <2>2 DEF Dial, Read, Broken, Leave, Answer, AnswerStopped, AnswerLock, Reply, Retry
  <2>3. CASE Greet(c)
    BY <2>3 DEF Greet, Typing, CallOK
  <2>4. CASE StopForLock(c)
    BY <2>4 DEF StopForLock, Typing, CallOK
  <2>5. CASE GiveUp(c)
    BY <2>5 DEF GiveUp, Typing, CallOK
  <2> QED BY <2>1, <2>2, <2>3, <2>4, <2>5 DEF Call
<1> QED BY <1>1, <1>2, <1>3

LEMMA HandoverReachable ==
    ASSUME Typing, HandoverInv, NoStrandedSecrets, NEW p \in Procs,
           Claim(p) \/ ServeHandover(p) \/ AwaitHandover(p)
    PROVE  NoStrandedSecrets'
<1> USE DEF Typing, TypeOK, Live, HandoverStep, handoverVars, stopVars
<1>1. CASE Claim(p)
  BY <1>1 DEF Claim, NoStrandedSecrets
<1>2. CASE Prepare(p)
  BY <1>2 DEF Prepare, Fails, NoStrandedSecrets
<1>3. CASE Prepared(p)
  BY <1>3 DEF Prepared, NoStrandedSecrets
<1>4. CASE PreparedLock(p)
  BY <1>4, StopStrandsNobody DEF PreparedLock
<1>5. CASE PrepareFails(p) \/ CommitFails(p)
  BY <1>5 DEF PrepareFails, CommitFails, Fails, NoStrandedSecrets
<1>6. CASE Commit(p)
  BY <1>6 DEF Commit, Fails, NoStrandedSecrets
<1>7. CASE \E q \in Procs : Snapshot(p, q)
  BY <1>7 DEF Snapshot, NoStrandedSecrets
<1>8. CASE SuccessorReady(p)
  BY <1>8 DEF SuccessorReady, NoStrandedSecrets
<1>9. CASE Swap(p)
  <2>1. phase[p] = "serving" /\ handingOver[p]
    BY <1>9 DEF Swap, HandoverInv, OnlyServingWorks, CommittedIsClosed
  <2>2. socket = p
    BY <1>9, <2>1 DEF Swap, NoStrandedSecrets
  <2> QED BY <1>9, <2>1, <2>2 DEF Swap, NoStrandedSecrets
<1>10. CASE SwapFails(p)
  BY <1>10 DEF SwapFails, Gone, Fails, NoStrandedSecrets
<1>11. CASE HandoverEnds(p)
  BY <1>11, StopStrandsNobody DEF HandoverEnds
<1>12. CASE TakeOver(p)
  BY <1>12 DEF TakeOver, NoStrandedSecrets
<1>13. CASE AwaitFails(p)
  BY <1>13, StopStrandsNobody DEF AwaitFails
<1> QED
  BY <1>1, <1>2, <1>3, <1>4, <1>5, <1>6, <1>7, <1>8, <1>9, <1>10, <1>11, <1>12, <1>13
     DEF ServeHandover, AwaitHandover

LEMMA NextReachable ==
    Typing /\ HandoverInv /\ NoStrandedSecrets /\ [Next]_vars => NoStrandedSecrets'
<1> SUFFICES ASSUME Typing, HandoverInv, NoStrandedSecrets, [Next]_vars PROVE NoStrandedSecrets'
  OBVIOUS
<1>1. CASE UNCHANGED vars
  BY <1>1 DEF vars, NoStrandedSecrets, Live, handoverVars, stopVars
<1>2. CASE Tick \/ ReplaceProgram
  BY <1>2, ServerReachable, ProcessAssumption
<1>3. ASSUME NEW p \in Procs,
             \/ TimerFires(p) \/ CloseServer(p) \/ Wipe(p) \/ Crash(p)
             \/ Claim(p) \/ ServeHandover(p) \/ AwaitHandover(p)
      PROVE  NoStrandedSecrets'
  BY <1>3, ServerReachable, HandoverReachable
<1>4. ASSUME NEW c \in Clients,
             \/ \E r \in Requests : Ask(c, r)
             \/ Call(c)
      PROVE  NoStrandedSecrets'
  BY <1>4, CallReachable
<1> QED BY <1>1, <1>2, <1>3, <1>4 DEF Next

(* A process that holds secrets nobody can reach at the path is stopping,   *)
(* waits to take over, or has just handed over: no crash and no failed      *)
(* handover leaves an unlocked process that the path does not lead to.      *)
THEOREM NoneStranded == Spec => []NoStrandedSecrets
BY InitTyping, NextTyping, InitHandover, NextHandover, InitReachable, NextReachable, PTL DEF Spec

---------------------------------------------------------------------------
(* No handover extends an unlock *)

(* What keeps UnlockNeverExtended: the last get is not in the future, and   *)
(* the process that was unlocked is never started again.                    *)
DeadlineInv ==
    /\ lastGet <= now
    /\ phase[First] # "absent"
    /\ UnlockNeverExtended

Numbers ==
    /\ now \in Nat /\ lastGet \in Nat /\ Idle \in Nat
    /\ \A p \in Procs : locksAt[p] \in Nat /\ unlockedAt[p] \in Nat /\ maxUnlock[p] \in Nat

LEMMA TypedNumbers == Typing => Numbers
<1> SUFFICES ASSUME Typing PROVE Numbers
  OBVIOUS
<1>1. Idle \in Nat /\ MaxTime \in Nat /\ \A m \in Limits \cup {0} : m \in Nat
  BY ProcessAssumption
<1>2. \A p \in Procs : locksAt[p] \in 0..(MaxTime + Idle) /\ unlockedAt[p] \in 0..MaxTime
                        /\ maxUnlock[p] \in Limits \cup {0}
  BY DEF Typing, TypeOK
<1>3. now \in 0..MaxTime /\ lastGet \in 0..MaxTime
  BY DEF Typing, TypeOK
<1> QED BY <1>1, <1>2, <1>3 DEF Numbers

LEMMA TypedNumbersNext == Typing' => Numbers'
BY TypedNumbers, PTL

LEMMA InitDeadline == Init => DeadlineInv
<1> SUFFICES ASSUME Init PROVE DeadlineInv
  OBVIOUS
<1>1. Numbers /\ Typing /\ First \in Procs
  BY InitTyping, TypedNumbers, ProcessAssumption
<1>2. \A p \in Procs : Live(p) => p = First
  BY DEF Init, Live
<1>3. locksAt[First] = IF maxUnlock[First] = 0 THEN Idle ELSE Earlier(Idle, maxUnlock[First])
  BY <1>1 DEF Init
<1>4. lastGet = 0 /\ now = 0 /\ unlockedAt[First] = 0 /\ phase[First] = "serving"
  BY <1>1 DEF Init
<1>5. /\ locksAt[First] <= Idle
      /\ maxUnlock[First] # 0 => locksAt[First] <= maxUnlock[First]
  BY <1>1, <1>3 DEF Earlier, Numbers
<1> QED BY <1>1, <1>2, <1>4, <1>5 DEF DeadlineInv, UnlockNeverExtended, Numbers

(* A step that leaves the deadlines of every process that lives on keeps    *)
(* them, whatever else it does.                                             *)
LEMMA DeadlinesLeft ==
    ASSUME Typing, Numbers', DeadlineInv,
           now <= now', UNCHANGED <<lastGet, maxUnlock, unlockedAt>>,
           phase'[First] # "absent",
           \A p \in Procs : Live(p)' => UNCHANGED <<phase[p], locksAt[p]>>
    PROVE  DeadlineInv'
<1>1. Numbers /\ First \in Procs
  BY TypedNumbers, ProcessAssumption
<1>2. lastGet' <= now'
  BY <1>1 DEF DeadlineInv, Numbers
<1>3. UnlockNeverExtended'
  BY <1>1 DEF DeadlineInv, UnlockNeverExtended, Live
<1> QED BY <1>2, <1>3 DEF DeadlineInv

LEMMA ServerDeadline ==
    ASSUME Typing, Typing', DeadlineInv, NEW p \in Procs,
           \/ Tick \/ ReplaceProgram \/ TimerFires(p) \/ CloseServer(p) \/ Wipe(p) \/ Crash(p)
    PROVE  DeadlineInv'
<1>1. Numbers /\ Numbers'
  BY TypedNumbers, TypedNumbersNext
<1>2. UNCHANGED <<lastGet, maxUnlock, unlockedAt>>
  BY DEF Tick, ReplaceProgram, TimerFires, CloseServer, Wipe, Crash, serverVars
<1>3. now <= now'
  BY <1>1 DEF Numbers, Tick, ReplaceProgram, TimerFires, CloseServer, Wipe, Crash
<1>4. \/ UNCHANGED <<phase, locksAt>>
      \/ phase' = [phase EXCEPT ![p] = "ended"] /\ locksAt' = [locksAt EXCEPT ![p] = 0]
  <2>1. CASE Tick \/ ReplaceProgram \/ TimerFires(p) \/ CloseServer(p)
    BY <2>1 DEF Tick, ReplaceProgram, TimerFires, CloseServer, serverVars
  <2>2. CASE Wipe(p) \/ Crash(p)
    BY <2>2 DEF Wipe, Crash, Gone
  <2> QED BY <2>1, <2>2
<1>5. phase'[First] # "absent"
  BY <1>4, ProcessAssumption DEF DeadlineInv, Typing, TypeOK
<1>6. \A q \in Procs : Live(q)' => UNCHANGED <<phase[q], locksAt[q]>>
  BY <1>4 DEF Live, Typing, TypeOK
<1> QED BY <1>1, <1>2, <1>3, <1>5, <1>6, DeadlinesLeft

LEMMA CallDeadline ==
    ASSUME Typing, Typing', DeadlineInv, NEW c \in Clients,
           \/ \E r \in Requests : Ask(c, r)
           \/ Call(c)
    PROVE  DeadlineInv'
<1>1. Numbers /\ Numbers'
  BY TypedNumbers, TypedNumbersNext
<1>2. UNCHANGED <<now, phase, maxUnlock, unlockedAt>>
  BY DEF Call, Ask, Dial, Greet, Read, Broken, Leave, Answer, AnswerStopped, AnswerLock, StopForLock,
         Reply, Retry, GiveUp, serverVars
<1>3. CASE UNCHANGED <<locksAt, lastGet>>
  BY <1>1, <1>2, <1>3, DeadlinesLeft DEF DeadlineInv, Numbers
<1>4. ASSUME NEW p \in Procs, Touch(p) PROVE DeadlineInv'
  <2>1. lastGet' = now /\ lastGet <= now /\ locksAt' = [locksAt EXCEPT ![p] = NextLocksAt(p)]
    BY <1>4 DEF Touch, DeadlineInv
  <2>2. /\ NextLocksAt(p) <= now + Idle
        /\ maxUnlock[p] # 0 => NextLocksAt(p) <= unlockedAt[p] + maxUnlock[p]
    BY NextLocksAtType DEF Typing
  <2>3. UnlockNeverExtended'
    <3> SUFFICES ASSUME NEW q \in Procs, Live(q)'
                 PROVE  /\ locksAt'[q] <= lastGet' + Idle
                        /\ phase'[q] = "serving" /\ maxUnlock'[q] # 0
                              => locksAt'[q] <= unlockedAt'[q] + maxUnlock'[q]
                        /\ maxUnlock'[First] # 0 =>
                              /\ maxUnlock'[q] # 0
                              /\ unlockedAt'[q] + maxUnlock'[q] <= unlockedAt'[First] + maxUnlock'[First]
      BY DEF UnlockNeverExtended
    <3>1. /\ locksAt[q] <= lastGet + Idle
          /\ phase[q] = "serving" /\ maxUnlock[q] # 0 => locksAt[q] <= unlockedAt[q] + maxUnlock[q]
          /\ maxUnlock[First] # 0 =>
                /\ maxUnlock[q] # 0
                /\ unlockedAt[q] + maxUnlock[q] <= unlockedAt[First] + maxUnlock[First]
      BY <1>2 DEF DeadlineInv, UnlockNeverExtended, Live
    <3>2. CASE q = p
      BY <1>2, <2>1, <2>2, <3>1, <3>2 DEF Typing, TypeOK
    <3>3. CASE q # p
      BY <1>1, <1>2, <2>1, <3>1, <3>3 DEF Numbers, Typing, TypeOK
    <3> QED BY <3>2, <3>3
  <2> QED BY <1>1, <1>2, <2>1, <2>3 DEF DeadlineInv, Numbers
<1>5. UNCHANGED <<locksAt, lastGet>> \/ \E p \in Procs : Touch(p)
  BY DEF Call, Ask, Dial, Greet, Read, Broken, Leave, Answer, AnswerStopped, AnswerLock, StopForLock,
         Reply, Retry, GiveUp, serverVars, Typing, CallOK
<1> QED BY <1>3, <1>4, <1>5

LEMMA HandoverDeadline ==
    ASSUME Typing, Typing', DeadlineInv, NEW p \in Procs,
           Claim(p) \/ ServeHandover(p) \/ AwaitHandover(p)
    PROVE  DeadlineInv'
<1>1. Numbers /\ Numbers' /\ First \in Procs
  BY TypedNumbers, TypedNumbersNext, ProcessAssumption
<1>2. CASE UNCHANGED <<now, lastGet, phase, locksAt, maxUnlock, unlockedAt>>
  BY <1>1, <1>2, DeadlinesLeft DEF DeadlineInv, Numbers
<1>3. CASE \E q \in Procs : Snapshot(p, q)
  <2> PICK q \in Procs : Snapshot(p, q)
    BY <1>3
  <2>1. Live(p) /\ phase[q] = "absent" /\ q # First /\ UNCHANGED <<now, lastGet>>
    BY DEF Snapshot, DeadlineInv
  <2> PICK own \in Limits : maxUnlock' = [maxUnlock EXCEPT ![q] = ShorterLimit(maxUnlock[p], own)]
    BY DEF Snapshot
  <2>2. \A r \in Procs \ {q} : UNCHANGED <<phase[r], locksAt[r], maxUnlock[r], unlockedAt[r]>>
    BY DEF Snapshot, Typing, TypeOK
  <2>3. /\ phase'[q] = "started" /\ locksAt'[q] = locksAt[p] /\ unlockedAt'[q] = unlockedAt[p]
        /\ maxUnlock'[q] = ShorterLimit(maxUnlock[p], own)
    BY DEF Snapshot, Typing, TypeOK
  <2>4. maxUnlock[p] # 0 => maxUnlock'[q] # 0 /\ maxUnlock'[q] <= maxUnlock[p]
    BY <2>3, ShorterLimitType DEF Typing, TypeOK
  <2>5. /\ locksAt[p] <= lastGet + Idle
        /\ maxUnlock[First] # 0 =>
              /\ maxUnlock[p] # 0
              /\ unlockedAt[p] + maxUnlock[p] <= unlockedAt[First] + maxUnlock[First]
    BY <2>1 DEF DeadlineInv, UnlockNeverExtended
  <2>6. ASSUME NEW r \in Procs, Live(r)'
        PROVE  /\ locksAt'[r] <= lastGet' + Idle
               /\ phase'[r] = "serving" /\ maxUnlock'[r] # 0
                     => locksAt'[r] <= unlockedAt'[r] + maxUnlock'[r]
               /\ maxUnlock'[First] # 0 =>
                     /\ maxUnlock'[r] # 0
                     /\ unlockedAt'[r] + maxUnlock'[r] <= unlockedAt'[First] + maxUnlock'[First]
    <3>1. CASE r = q
      BY <1>1, <2>1, <2>2, <2>3, <2>4, <2>5, <3>1 DEF Numbers
    <3>2. CASE r # q
      BY <1>1, <2>1, <2>2, <2>6, <3>2 DEF DeadlineInv, UnlockNeverExtended, Live
    <3> QED BY <3>1, <3>2
  <2> QED BY <1>1, <2>1, <2>2, <2>6 DEF DeadlineInv, UnlockNeverExtended
<1>4. CASE SwapFails(p)
  <2>1. /\ phase' = [phase EXCEPT ![successor[p]] = "ended"]
        /\ locksAt' = [locksAt EXCEPT ![successor[p]] = 0]
        /\ UNCHANGED <<now, lastGet, maxUnlock, unlockedAt>>
    BY <1>4 DEF SwapFails, Gone
  <2>2. phase'[First] # "absent"
    BY <1>1, <2>1 DEF DeadlineInv, Typing, TypeOK
  <2>3. \A q \in Procs : Live(q)' => UNCHANGED <<phase[q], locksAt[q]>>
    BY <2>1 DEF Live, Typing, TypeOK
  <2> QED BY <1>1, <2>1, <2>2, <2>3, DeadlinesLeft DEF Numbers
<1>5. CASE TakeOver(p)
  <2>1. /\ phase[p] = "started" /\ phase' = [phase EXCEPT ![p] = "serving"]
        /\ locksAt' = [locksAt EXCEPT ![p] = Earlier(NextLocksAt(p), locksAt[p])]
        /\ UNCHANGED <<now, lastGet, maxUnlock, unlockedAt>>
    BY <1>5 DEF TakeOver
  <2>2. /\ Earlier(NextLocksAt(p), locksAt[p]) <= locksAt[p]
        /\ maxUnlock[p] # 0 => Earlier(NextLocksAt(p), locksAt[p]) <= unlockedAt[p] + maxUnlock[p]
        /\ Earlier(NextLocksAt(p), locksAt[p]) \in Nat
    <3>1. NextLocksAt(p) \in 0..(MaxTime + Idle) /\ MaxTime \in Nat
      BY NextLocksAtType, ProcessAssumption DEF Typing
    <3>2. maxUnlock[p] # 0 => NextLocksAt(p) <= unlockedAt[p] + maxUnlock[p]
      BY NextLocksAtType DEF Typing
    <3> QED BY <1>1, <3>1, <3>2 DEF Numbers, Earlier
  <2>3. ASSUME NEW r \in Procs, Live(r)'
        PROVE  /\ locksAt'[r] <= lastGet' + Idle
               /\ phase'[r] = "serving" /\ maxUnlock'[r] # 0
                     => locksAt'[r] <= unlockedAt'[r] + maxUnlock'[r]
               /\ maxUnlock'[First] # 0 =>
                     /\ maxUnlock'[r] # 0
                     /\ unlockedAt'[r] + maxUnlock'[r] <= unlockedAt'[First] + maxUnlock'[First]
    <3>1. CASE r = p
      <4>1. /\ locksAt[p] <= lastGet + Idle
            /\ maxUnlock[First] # 0 =>
                  /\ maxUnlock[p] # 0
                  /\ unlockedAt[p] + maxUnlock[p] <= unlockedAt[First] + maxUnlock[First]
        BY <2>1 DEF DeadlineInv, UnlockNeverExtended, Live
      <4>2. locksAt'[p] = Earlier(NextLocksAt(p), locksAt[p])
        BY <2>1 DEF Typing, TypeOK
      <4> QED BY <1>1, <2>1, <2>2, <3>1, <4>1, <4>2 DEF Numbers
    <3>2. CASE r # p
      BY <2>1, <2>3, <3>2 DEF DeadlineInv, UnlockNeverExtended, Live, Typing, TypeOK
    <3> QED BY <3>1, <3>2
  <2> QED BY <1>1, <2>1, <2>3 DEF DeadlineInv, UnlockNeverExtended, Typing, TypeOK
<1> QED
  BY <1>2, <1>3, <1>4, <1>5
     DEF ServeHandover, AwaitHandover, Claim, Prepare, Prepared, PreparedLock, PrepareFails, Commit,
         CommitFails, SuccessorReady, Swap, HandoverEnds, AwaitFails, serverVars

LEMMA NextDeadline ==
    Typing /\ Typing' /\ DeadlineInv /\ [Next]_vars => DeadlineInv'
<1> SUFFICES ASSUME Typing, Typing', DeadlineInv, [Next]_vars PROVE DeadlineInv'
  OBVIOUS
<1>1. CASE UNCHANGED vars
  BY <1>1 DEF vars, DeadlineInv, UnlockNeverExtended, Live, serverVars
<1>2. CASE Tick \/ ReplaceProgram
  BY <1>2, ServerDeadline, ProcessAssumption
<1>3. ASSUME NEW p \in Procs,
             \/ TimerFires(p) \/ CloseServer(p) \/ Wipe(p) \/ Crash(p)
             \/ Claim(p) \/ ServeHandover(p) \/ AwaitHandover(p)
      PROVE  DeadlineInv'
  BY <1>3, ServerDeadline, HandoverDeadline
<1>4. ASSUME NEW c \in Clients,
             \/ \E r \in Requests : Ask(c, r)
             \/ Call(c)
      PROVE  DeadlineInv'
  BY <1>4, CallDeadline
<1> QED BY <1>1, <1>2, <1>3, <1>4 DEF Next

(* No process locks later than the idle time after the last get, nor past   *)
(* its maximum, and no successor has a maximum that ends later than that of *)
(* the process the vault was unlocked with: for every clock and every       *)
(* setting, a handover never extends an unlock.                             *)
THEOREM NeverExtended == Spec => []UnlockNeverExtended
<1>1. DeadlineInv => UnlockNeverExtended
  BY DEF DeadlineInv
<1> QED BY <1>1, InitTyping, NextTyping, InitDeadline, NextDeadline, PTL DEF Spec
=============================================================================
