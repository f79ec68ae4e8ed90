----------------------- MODULE VaultProcess_refines -----------------------
(***************************************************************************)
(* The vault processes implement one unlocked vault: VaultProcess refines  *)
(* UnlockedVault, for every number of processes, clients and credentials.  *)
(***************************************************************************)
EXTENDS VaultProcess_proofs

(* The secrets and approvals the refinement maps to. *)
OpenHeld == IF VaultOpen THEN held[socket] ELSE NothingHeld
OpenAllowed == IF VaultOpen THEN allowed[socket] ELSE {}

---------------------------------------------------------------------------
(* Who may be at the path, and who has no answer yet *)

(* The path belongs to a serving process until it swapped: nobody else puts *)
(* a socket there.                                                          *)
PathOwner ==
    \A p \in Procs :
        phase[p] = "serving" /\ (~handingOver[p] \/ handover[p] \notin {"none", "swapped"})
        => socket \in {p, NoProc}

(* A call has no answer before the last of its steps, and only a lock waits *)
(* for the server to stop.  A call that is not over either has not returned *)
(* or returned without an answer, with its request sent; one that is over   *)
(* returned something.                                                      *)
NotAnswered ==
    \A c \in Clients :
        /\ pc[c] \notin {"idle", "answered"} => resp[c] = "none"
        /\ pc[c] = "answered" => resp[c] # "none"
        /\ pc[c] = "locking" => req[c].op = "lock"
        /\ pc[c] \in {"dialing", "dialed", "replaced"} => got[c] = "none"
        /\ pc[c] # "idle" => got[c] \in {"none", "broken"}
        /\ pc[c] = "idle" => req[c] = NoRequest \/ got[c] # "none"

(* A process that still works on a request is at the path, or nobody is.    *)
WorkerAtPath ==
    \A c \in Clients :
        pc[c] \in {"read", "locking"} /\ Live(conn[c]) => socket \in {conn[c], NoProc}

PathInv ==
    /\ Typing /\ HandoverInv /\ NoStrandedSecrets
    /\ PathOwner /\ NotAnswered /\ WorkerAtPath

LEMMA NoneIsNoAnswer == "none" \notin Answers /\ "refused" \notin Answers /\ "ok" \in Answers
BY RequestsAssumption DEF Answers

LEMMA InitPath == Init => PathInv
BY InitTyping, InitHandover, InitReachable DEF Init, PathInv, PathOwner, NotAnswered, WorkerAtPath

LEMMA ServerPath ==
    ASSUME PathInv, NEW p \in Procs,
           \/ Tick \/ ReplaceProgram \/ TimerFires(p) \/ CloseServer(p) \/ Wipe(p) \/ Crash(p)
    PROVE  PathOwner' /\ NotAnswered'
<1> USE DEF PathInv, PathOwner
<1>1. NotAnswered'
  BY DEF NotAnswered, Tick, ReplaceProgram, TimerFires, CloseServer, Wipe, Crash, clientVars
<1>2. CASE Tick \/ ReplaceProgram
  BY <1>1, <1>2 DEF Tick, ReplaceProgram, handoverVars, stopVars
<1>3. CASE TimerFires(p) \/ CloseServer(p)
  BY <1>1, <1>3, StopSocket DEF TimerFires, CloseServer, handoverVars
<1>4. CASE Wipe(p) \/ Crash(p)
  BY <1>1, <1>4 DEF Wipe, Crash, Gone, Forgets, handoverVars, Typing, TypeOK
<1> QED BY <1>2, <1>3, <1>4

LEMMA CallPath ==
    ASSUME PathInv, NEW c \in Clients,
           \/ \E r \in Requests : Ask(c, r)
           \/ Call(c)
    PROVE  PathOwner' /\ NotAnswered'
<1> USE DEF PathInv
<1>1. UNCHANGED <<phase, handingOver, handover>>
  BY DEF Call, Ask, Dial, Greet, Read, Broken, Leave, Answer, AnswerStopped, AnswerLock, StopForLock,
         Reply, Retry, GiveUp, handoverVars
<1>2. socket' \in {socket, NoProc}
  <2>1. CASE Greet(c) \/ StopForLock(c) \/ GiveUp(c)
    BY <2>1, StopSocket DEF Greet, StopForLock, GiveUp, Typing, CallOK, stopVars
  <2>2. CASE \/ \E r \in Requests : Ask(c, r)
             \/ Dial(c) \/ Read(c) \/ Broken(c) \/ Leave(c) \/ Answer(c) \/ AnswerStopped(c)
             \/ AnswerLock(c) \/ Reply(c) \/ Retry(c)
    BY <2>2 DEF Ask, Dial, Read, Broken, Leave, Answer, AnswerStopped, AnswerLock, Reply, Retry, stopVars
  <2> QED BY <2>1, <2>2 DEF Call
<1>3. PathOwner'
  BY <1>1, <1>2 DEF PathOwner
<1>4. NotAnswered'
  <2> USE DEF NotAnswered, Typing, TypeOK, Answered, Returned, GoesTo, Carried
  <2>1. CASE \E r \in Requests : Ask(c, r)
    BY <2>1 DEF Ask
  <2>2. CASE Dial(c) \/ Retry(c)
    BY <2>2 DEF Dial, Retry
  <2>3. CASE Greet(c)
    BY <2>3 DEF Greet
  <2>4. CASE Answer(c)
    <3>1. AnswerTo(req[c], held[conn[c]], allowed[conn[c]]) # "none"
      BY <2>4, AnswerTypes, NoneIsNoAnswer DEF Answer, CallOK
    <3> QED BY <2>4, <3>1 DEF Answer
  <2>5. CASE AnswerStopped(c) \/ AnswerLock(c) \/ StopForLock(c)
    BY <2>5 DEF AnswerStopped, AnswerLock, StopForLock
  <2>6. CASE GiveUp(c)
    BY <2>6 DEF GiveUp
  <2>7. CASE Read(c)
    BY <2>7 DEF Read
  <2>8. CASE Broken(c)
    BY <2>8 DEF Broken
  <2>9. CASE Leave(c)
    BY <2>9 DEF Leave
  <2>10. CASE Reply(c)
    BY <2>10 DEF Reply
  <2> QED BY <2>1, <2>2, <2>3, <2>4, <2>5, <2>6, <2>7, <2>8, <2>9, <2>10 DEF Call
<1> QED BY <1>3, <1>4

LEMMA HandoverPath ==
    ASSUME PathInv, NEW p \in Procs,
           Claim(p) \/ ServeHandover(p) \/ AwaitHandover(p)
    PROVE  PathOwner' /\ NotAnswered'
<1> USE DEF PathInv, PathOwner, Typing, TypeOK, HandoverStep, handoverVars, stopVars
<1>a. NotAnswered'
  BY DEF NotAnswered, ServeHandover, AwaitHandover, Claim, Prepare, Prepared, PreparedLock,
         PrepareFails, Commit, Snapshot, CommitFails, SuccessorReady, Swap, SwapFails,
         HandoverEnds, TakeOver, AwaitFails, clientVars
<1>b. phase[p] = "serving" \/ handover[p] = "none"
  BY DEF HandoverInv, OnlyServingWorks
<1>1. CASE Claim(p)
  BY <1>a, <1>1 DEF Claim
<1>2. CASE Prepare(p) \/ Prepared(p) \/ SuccessorReady(p)
  BY <1>a, <1>2 DEF Prepare, Prepared, SuccessorReady, Fails
<1>3. CASE PreparedLock(p)
  BY <1>a, <1>3, StopSocket DEF PreparedLock
<1>4. CASE PrepareFails(p) \/ CommitFails(p)
  BY <1>a, <1>4 DEF PrepareFails, CommitFails, Fails
<1>5. CASE Commit(p)
  BY <1>a, <1>5 DEF Commit, Fails
<1>6. CASE \E q \in Procs : Snapshot(p, q)
  BY <1>a, <1>6 DEF Snapshot
<1>7. CASE Swap(p)
  <2>1. socket = p /\ handingOver[p] /\ phase[p] = "serving"
    BY <1>7 DEF Swap, Live, NoStrandedSecrets, HandoverInv, OnlyServingWorks, CommittedIsClosed
  <2>2. \A r \in Procs \ {p} : ~(phase[r] = "serving"
                                   /\ (~handingOver[r] \/ handover[r] \notin {"none", "swapped"}))
    BY <2>1, ProcessAssumption
  <2> QED BY <1>a, <1>7, <2>1, <2>2 DEF Swap
<1>8. CASE SwapFails(p)
  BY <1>a, <1>b, <1>8 DEF SwapFails, Gone, Fails
<1>9. CASE HandoverEnds(p)
  BY <1>a, <1>9, StopSocket DEF HandoverEnds
<1>10. CASE TakeOver(p)
  BY <1>a, <1>10 DEF TakeOver
<1>11. CASE AwaitFails(p)
  BY <1>a, <1>11, StopSocket DEF AwaitFails
<1> QED
  BY <1>1, <1>2, <1>3, <1>4, <1>5, <1>6, <1>7, <1>8, <1>9, <1>10, <1>11
     DEF ServeHandover, AwaitHandover

LEMMA WorkersKept ==
    ASSUME PathInv, UNCHANGED <<pc, conn>>, socket' \in {socket, NoProc},
           \A p \in Procs : phase[p] # "absent" /\ Live(p)' => Live(p)
    PROVE  WorkerAtPath'
BY DEF PathInv, WorkerAtPath, HandoverInv, OnlyServingWorks, Typing, CallOK, Live

LEMMA NextWorkers == PathInv /\ [Next]_vars => WorkerAtPath'
<1> SUFFICES ASSUME PathInv, [Next]_vars PROVE WorkerAtPath'
  OBVIOUS
<1>1. CASE Tick \/ ReplaceProgram \/ UNCHANGED vars
  BY <1>1, WorkersKept DEF Tick, ReplaceProgram, vars, clientVars, stopVars, Live
<1>2. ASSUME NEW p \in Procs, TimerFires(p) \/ CloseServer(p) \/ Wipe(p) \/ Crash(p)
      PROVE  WorkerAtPath'
  <2>1. UNCHANGED <<pc, conn>> /\ socket' \in {socket, NoProc}
    BY <1>2, StopSocket DEF TimerFires, CloseServer, Wipe, Crash, Gone, clientVars
  <2>2. \A q \in Procs : Live(q)' => Live(q)
    BY <1>2 DEF TimerFires, CloseServer, Wipe, Crash, Gone, Live, PathInv, Typing, TypeOK
  <2> QED BY <2>1, <2>2, WorkersKept
<1>3. ASSUME NEW p \in Procs, Claim(p) \/ ServeHandover(p) \/ AwaitHandover(p)
      PROVE  WorkerAtPath'
  <2>1. UNCHANGED <<pc, conn>>
    BY <1>3 DEF ServeHandover, AwaitHandover, Claim, Prepare, Prepared, PreparedLock,
                PrepareFails, Commit, Snapshot, CommitFails, SuccessorReady, Swap, SwapFails,
                HandoverEnds, TakeOver, AwaitFails, clientVars
  <2>2. \A q \in Procs : phase[q] # "absent" /\ Live(q)' => Live(q)
    BY <1>3 DEF ServeHandover, AwaitHandover, Claim, Prepare, Prepared, PreparedLock,
                PrepareFails, Commit, Snapshot, CommitFails, SuccessorReady, Swap, SwapFails,
                HandoverEnds, TakeOver, AwaitFails, Gone, Live, PathInv, Typing, TypeOK
  <2>3. CASE Swap(p)
    <3>1. socket = p /\ InFlight(p) = {}
      BY <2>3 DEF Swap, Live, PathInv, NoStrandedSecrets, HandoverInv, OnlyServingWorks,
                  HandedOverInFull, HasSuccessor
    <3>2. \A c \in Clients : ~(pc[c] \in {"read", "locking"} /\ Live(conn[c]))
      BY <3>1, ProcessAssumption DEF PathInv, WorkerAtPath, InFlight
    <3> QED BY <2>1, <2>3, <3>2 DEF Swap, WorkerAtPath, Live
  <2>4. CASE ~Swap(p)
    <3>1. socket' \in {socket, NoProc}
      <4>1. CASE PreparedLock(p) \/ HandoverEnds(p) \/ AwaitFails(p)
        BY <4>1, StopSocket DEF PreparedLock, HandoverEnds, AwaitFails
      <4>2. CASE ~(PreparedLock(p) \/ HandoverEnds(p) \/ AwaitFails(p))
        BY <1>3, <2>4, <4>2 DEF ServeHandover, AwaitHandover, Claim, Prepare, Prepared,
                PrepareFails, Commit, Snapshot, CommitFails, SuccessorReady, SwapFails,
                TakeOver, Gone, stopVars
      <4> QED BY <4>1, <4>2
    <3> QED BY <2>1, <2>2, <3>1, WorkersKept
  <2> QED BY <2>3, <2>4
<1>4. ASSUME NEW c \in Clients,
             \/ \E r \in Requests : Ask(c, r)
             \/ Call(c)
      PROVE  WorkerAtPath'
  <2>1. UNCHANGED phase
    BY <1>4 DEF Call, Ask, Dial, Greet, Read, Broken, Leave, Answer, AnswerStopped, AnswerLock,
                StopForLock, Reply, Retry, GiveUp
  <2>2. socket' \in {socket, NoProc}
    <3>1. CASE Greet(c) \/ StopForLock(c) \/ GiveUp(c)
      BY <3>1, StopSocket DEF Greet, StopForLock, GiveUp, PathInv, Typing, CallOK, stopVars
    <3>2. CASE ~(Greet(c) \/ StopForLock(c) \/ GiveUp(c))
      BY <1>4, <3>2 DEF Call, Ask, Dial, Read, Broken, Leave, Answer, AnswerStopped, AnswerLock, Reply,
                        Retry, stopVars
    <3> QED BY <3>1, <3>2
  <2>3. \A d \in Clients \ {c} : UNCHANGED <<pc[d], conn[d]>>
    BY <1>4 DEF Call, Ask, Dial, Greet, Read, Broken, Leave, Answer, AnswerStopped, AnswerLock,
                StopForLock, Reply, Retry, GiveUp, Answered, GoesTo, Carried, PathInv, Typing, TypeOK
  <2>4. CASE Read(c)
    <3>1. /\ UNCHANGED socket /\ pc[c] = "greeted" /\ Live(conn[c])
          /\ pc'[c] = "read" => ~handingOver[conn[c]] /\ UNCHANGED conn
      BY <2>4 DEF Read, GoesTo, Answered, stopVars, PathInv, Typing, TypeOK
    <3>2. conn[c] \in Procs /\ phase[conn[c]] = "serving"
      BY <3>1 DEF PathInv, Typing, CallOK, HandoverInv, OnlyServingWorks, Live
    <3>3. pc'[c] \in {"read", "replaced", "idle"}
      BY <2>4 DEF Read, GoesTo, Answered, PathInv, Typing, TypeOK
    <3> QED BY <2>1, <2>3, <3>1, <3>2, <3>3 DEF PathInv, PathOwner, WorkerAtPath, Live
  <2>5. CASE ~Read(c)
    <3>1. pc'[c] \in {"read", "locking"} => pc[c] \in {"read", "locking"} /\ conn'[c] = conn[c]
      BY <1>4, <2>5 DEF Call, Ask, Dial, Greet, Broken, Leave, Answer, AnswerStopped, AnswerLock,
                StopForLock, Reply, Retry, GiveUp, Answered, GoesTo, Carried, PathInv, Typing, TypeOK
    <3> QED BY <2>1, <2>2, <2>3, <3>1 DEF PathInv, WorkerAtPath, Live
  <2> QED BY <2>4, <2>5
<1> QED BY <1>1, <1>2, <1>3, <1>4 DEF Next

LEMMA NextPath == PathInv /\ [Next]_vars => PathInv'
<1> SUFFICES ASSUME PathInv, [Next]_vars PROVE PathInv'
  OBVIOUS
<1>1. Typing' /\ HandoverInv' /\ NoStrandedSecrets' /\ WorkerAtPath'
  BY NextTyping, NextHandover, NextReachable, NextWorkers DEF PathInv
<1>2. CASE UNCHANGED vars
  BY <1>1, <1>2 DEF vars, PathInv, PathOwner, NotAnswered, handoverVars, stopVars, clientVars
<1>3. CASE Tick \/ ReplaceProgram
  BY <1>1, <1>3, ServerPath, ProcessAssumption DEF PathInv
<1>4. ASSUME NEW p \in Procs,
             \/ TimerFires(p) \/ CloseServer(p) \/ Wipe(p) \/ Crash(p)
             \/ Claim(p) \/ ServeHandover(p) \/ AwaitHandover(p)
      PROVE  PathInv'
  BY <1>1, <1>4, ServerPath, HandoverPath DEF PathInv
<1>5. ASSUME NEW c \in Clients,
             \/ \E r \in Requests : Ask(c, r)
             \/ Call(c)
      PROVE  PathInv'
  BY <1>1, <1>5, CallPath DEF PathInv
<1> QED BY <1>2, <1>3, <1>4, <1>5 DEF Next

---------------------------------------------------------------------------
(* What a step does to the unlocked vault *)

View == <<VaultOpen, OpenHeld, OpenAllowed>>

(* The vault stays as it is where the process at the path does. *)
LEMMA ViewKept ==
    ASSUME UNCHANGED socket,
           \A p \in Procs : socket = p =>
               /\ (Live(p) /\ ~stopped[p])' <=> (Live(p) /\ ~stopped[p])
               /\ Live(p) => UNCHANGED <<held[p], allowed[p]>>
    PROVE  UNCHANGED View
<1>1. VaultOpen' = VaultOpen
  BY DEF VaultOpen, Open
<1>2. VaultOpen => socket \in Procs /\ Live(socket)
  BY DEF VaultOpen, Open
<1>3. OpenHeld' = OpenHeld /\ OpenAllowed' = OpenAllowed
  BY <1>1, <1>2 DEF OpenHeld, OpenAllowed
<1> QED BY <1>1, <1>3 DEF View

LEMMA OpenPath ==
    /\ VaultOpen <=> socket \in Procs /\ Live(socket) /\ ~stopped[socket]
    /\ VaultOpen \in BOOLEAN
BY DEF VaultOpen, Open

LEMMA OpenOrNot == VaultOpen \in BOOLEAN /\ VaultOpen' \in BOOLEAN
BY DEF VaultOpen

(* Nothing is open where the process at the path stops or is gone. *)
LEMMA ViewLocked ==
    ASSUME ~VaultOpen'
    PROVE  Service!Locked
BY OpenOrNot DEF Service!Locked, Service!NothingHeld, NothingHeld

(* Where a process stops, the vault locks if it was at the path, and stays  *)
(* as it is if it was not.                                                  *)
LEMMA ViewStop ==
    ASSUME Typing, NEW p \in Procs, Stop(p), UNCHANGED <<phase, held, allowed>>
    PROVE  /\ UNCHANGED View \/ (VaultOpen /\ ~VaultOpen')
           /\ socket \in {p, NoProc} => ~VaultOpen'
<1>1. CASE stopped[p]
  <2>1. UNCHANGED stopVars
    BY <1>1 DEF Stop
  <2>2. UNCHANGED View
    BY <2>1, ViewKept DEF stopVars, Live
  <2> QED BY <1>1, <2>1, <2>2, ProcessAssumption DEF stopVars, View, VaultOpen, Open
<1>2. CASE ~stopped[p]
  <2>1. /\ stopped' = [stopped EXCEPT ![p] = TRUE]
        /\ socket' \in {socket, NoProc}
        /\ socket # p => socket' = socket
    BY <1>2 DEF Stop
  <2>2. CASE socket \in {p, NoProc}
    <3>1. ~VaultOpen'
      BY <2>1, <2>2, ProcessAssumption DEF VaultOpen, Open, Typing, TypeOK
    <3>2. CASE VaultOpen
      BY <3>1, <3>2
    <3>3. CASE ~VaultOpen
      BY <3>1, <3>3, OpenOrNot DEF View, OpenHeld, OpenAllowed
    <3> QED BY <3>1, <3>2, <3>3
  <2>3. CASE socket \notin {p, NoProc}
    <3>1. UNCHANGED socket
      BY <2>1, <2>3
    <3>2. \A r \in Procs : socket = r => UNCHANGED stopped[r]
      BY <2>1, <2>3 DEF Typing, TypeOK
    <3>3. UNCHANGED View
      BY <3>1, <3>2, ViewKept DEF Live
    <3> QED BY <2>3, <3>3
  <2> QED BY <2>2, <2>3
<1> QED BY <1>1, <1>2

(* Where a process is gone, likewise. *)
LEMMA ViewGone ==
    ASSUME Typing, NEW p \in Procs, Gone(p)
    PROVE  UNCHANGED View \/ (VaultOpen /\ ~VaultOpen')
<1>1. CASE socket = p
  <2>1. ~VaultOpen'
    BY <1>1 DEF Gone, VaultOpen, Open, Live, Typing, TypeOK
  <2> QED BY <2>1, OpenOrNot DEF View, OpenHeld, OpenAllowed
<1>2. CASE socket # p
  <2>1. /\ UNCHANGED socket
        /\ \A r \in Procs : socket = r => UNCHANGED <<phase[r], stopped[r], held[r], allowed[r]>>
    BY <1>2 DEF Gone, Typing, TypeOK
  <2> QED BY <2>1, ViewKept DEF Live
<1> QED BY <1>1, <1>2

---------------------------------------------------------------------------
(* The refinement *)

Steps == Service!Next \/ UNCHANGED Service!vars

LEMMA Stutters ==
    ASSUME UNCHANGED View, UNCHANGED <<req, CarriedOut, got>>
    PROVE  Steps
BY DEF Steps, View, OpenHeld, OpenAllowed, Service!vars

LEMMA Expires ==
    ASSUME UNCHANGED View \/ (VaultOpen /\ ~VaultOpen'),
           UNCHANGED <<req, CarriedOut, got>>
    PROVE  Steps
<1>1. CASE UNCHANGED View
  BY <1>1, Stutters
<1>2. CASE VaultOpen /\ ~VaultOpen'
  BY <1>2, ViewLocked DEF Steps, Service!Next, Service!Expire
<1> QED BY <1>1, <1>2

LEMMA InitRefines == Init => Service!Init
<1> SUFFICES ASSUME Init PROVE Service!Init
  OBVIOUS
<1>1. Typing /\ VaultOpen
  BY InitTyping, ProcessAssumption DEF Init, VaultOpen, Open, Live
<1>2. socket \in Procs
  BY ProcessAssumption DEF Init
<1>3. held[socket] \in HeldType /\ allowed[socket] \in AllowedType
  BY <1>1, <1>2 DEF Typing, TypeOK
<1>4. CarriedOut = [c \in Clients |-> "none"]
  BY NoneIsNoAnswer DEF Init, CarriedOut
<1> QED BY <1>1, <1>3, <1>4 DEF Init, Service!Init, Service!HeldType, Service!AllowedType, HeldType, AllowedType

LEMMA ServerRefines ==
    ASSUME PathInv, NEW p \in Procs,
           \/ Tick \/ ReplaceProgram \/ TimerFires(p) \/ CloseServer(p) \/ Wipe(p) \/ Crash(p)
    PROVE  Steps
<1>1. UNCHANGED <<req, CarriedOut, got>>
  BY DEF Tick, ReplaceProgram, TimerFires, CloseServer, Wipe, Crash, clientVars, CarriedOut
<1>2. CASE Tick \/ ReplaceProgram
  <2>1. UNCHANGED <<phase, held, allowed, socket, stopped>>
    BY <1>2 DEF Tick, ReplaceProgram, serverVars, stopVars
  <2>2. UNCHANGED View
    BY <2>1, ViewKept DEF Live
  <2> QED BY <1>1, <2>2, Stutters
<1>3. CASE TimerFires(p) \/ CloseServer(p)
  <2>1. Stop(p) /\ UNCHANGED <<phase, held, allowed>>
    BY <1>3 DEF TimerFires, CloseServer, serverVars
  <2> QED BY <1>1, <2>1, ViewStop, Expires DEF PathInv
<1>4. CASE Wipe(p) \/ Crash(p)
  <2>1. Gone(p)
    BY <1>4 DEF Wipe, Crash
  <2> QED BY <1>1, <2>1, ViewGone, Expires DEF PathInv
<1> QED BY <1>2, <1>3, <1>4

LEMMA HandoverRefines ==
    ASSUME PathInv, NEW p \in Procs,
           Claim(p) \/ ServeHandover(p) \/ AwaitHandover(p)
    PROVE  Steps
<1>1. UNCHANGED <<req, CarriedOut, got>>
  BY DEF CarriedOut, ServeHandover, AwaitHandover, Claim, Prepare, Prepared, PreparedLock,
         PrepareFails, Commit, Snapshot, CommitFails, SuccessorReady, Swap, SwapFails,
         HandoverEnds, TakeOver, AwaitFails, clientVars
<1>2. CASE Claim(p) \/ Prepare(p) \/ Prepared(p) \/ PrepareFails(p) \/ Commit(p)
           \/ CommitFails(p) \/ SuccessorReady(p)
  <2>1. UNCHANGED <<phase, held, allowed, socket, stopped>>
    BY <1>2 DEF Claim, Prepare, Prepared, PrepareFails, Commit, CommitFails, SuccessorReady,
                serverVars, stopVars
  <2>2. UNCHANGED View
    BY <2>1, ViewKept DEF Live
  <2> QED BY <1>1, <2>2, Stutters
<1>3. CASE PreparedLock(p) \/ HandoverEnds(p) \/ AwaitFails(p)
  <2>1. Stop(p) /\ UNCHANGED <<phase, held, allowed>>
    BY <1>3 DEF PreparedLock, HandoverEnds, AwaitFails, serverVars
  <2> QED BY <1>1, <2>1, ViewStop, Expires DEF PathInv
<1>4. CASE \E q \in Procs : Snapshot(p, q)
  <2> PICK q \in Procs : Snapshot(p, q)
    BY <1>4
  <2>1. phase[q] = "absent" /\ socket # q
    BY ProcessAssumption DEF Snapshot, PathInv, HandoverInv, SuccessorStarted
  <2>2. UNCHANGED <<socket, stopped>>
    BY DEF Snapshot, stopVars
  <2>3. \A r \in Procs : socket = r => UNCHANGED <<phase[r], held[r], allowed[r]>>
    BY <2>1 DEF Snapshot, PathInv, Typing, TypeOK
  <2>4. UNCHANGED View
    BY <2>2, <2>3, ViewKept DEF Live
  <2> QED BY <1>1, <2>4, Stutters
<1>5. CASE Swap(p)
  <2> DEFINE q == successor[p]
  <2>1. /\ socket = p /\ Live(p) /\ ~stopped[p] /\ socket' = q
        /\ UNCHANGED <<phase, stopped, held, allowed>>
    <3>1. phase[p] = "serving"
      BY <1>5 DEF Swap, PathInv, HandoverInv, OnlyServingWorks
    <3> QED BY <1>5, <3>1 DEF Swap, PathInv, NoStrandedSecrets, serverVars
  <2>2. /\ q \in Procs
        /\ phase[q] \in {"started", "ended"}
        /\ phase[q] = "started" => held[q] = held[p] /\ allowed[q] = allowed[p]
    BY <1>5 DEF Swap, PathInv, HandoverInv, SuccessorStarted, HandedOverInFull, HasSuccessor,
                Typing, TypeOK, Phases
  <2>3. VaultOpen
    BY <2>1, OpenPath
  <2>4. VaultOpen' <=> Live(q) /\ ~stopped[q]
    BY <2>1, <2>2 DEF VaultOpen, Open, Live
  <2>5. CASE Live(q) /\ ~stopped[q]
    <3>1. VaultOpen' = VaultOpen
      BY <2>3, <2>4, <2>5, OpenOrNot
    <3>2. OpenHeld' = OpenHeld /\ OpenAllowed' = OpenAllowed
      BY <2>1, <2>2, <2>5, <3>1, <2>3 DEF OpenHeld, OpenAllowed, Live
    <3>3. UNCHANGED View
      BY <3>1, <3>2 DEF View
    <3> QED BY <1>1, <3>3, Stutters
  <2>6. CASE ~(Live(q) /\ ~stopped[q])
    BY <1>1, <2>3, <2>4, <2>6, Expires
  <2> QED BY <2>5, <2>6
<1>6. CASE SwapFails(p)
  <2>1. successor[p] \in Procs /\ Gone(successor[p])
    BY <1>6 DEF SwapFails, PathInv, HandoverInv, SuccessorStarted, HasSuccessor
  <2> QED BY <1>1, <2>1, ViewGone, Expires DEF PathInv
<1>7. CASE TakeOver(p)
  <2>1. /\ UNCHANGED <<socket, stopped, held, allowed>>
        /\ Live(p) /\ Live(p)'
        /\ \A r \in Procs \ {p} : UNCHANGED phase[r]
    BY <1>7 DEF TakeOver, Live, PathInv, Typing, TypeOK
  <2>2. UNCHANGED View
    BY <2>1, ViewKept DEF Live
  <2> QED BY <1>1, <2>2, Stutters
<1> QED
  BY <1>2, <1>3, <1>4, <1>5, <1>6, <1>7 DEF ServeHandover, AwaitHandover

(* A request neither carried out nor returned, ending refused, with what    *)
(* refused it may have locked the vault; and the other ends of a call.      *)
LEMMA DoneKept ==
    ASSUME PathInv, NEW c \in Clients, NEW a,
           Answered(c, a) \/ GoesTo(c, a) \/ UNCHANGED resp \/ (Carried(c, "refused") /\ pc[c] = "read")
    PROVE  UNCHANGED CarriedOut
<1> USE DEF PathInv, Typing, TypeOK
<1>1. CASE UNCHANGED resp \/ GoesTo(c, a)
  BY <1>1 DEF CarriedOut, GoesTo
<1>2. CASE Answered(c, a)
  <2>1. resp' = [resp EXCEPT ![c] = IF resp[c] = "refused" THEN "none" ELSE resp[c]]
    BY <1>2 DEF Answered
  <2> QED BY <2>1, NoneIsNoAnswer DEF CarriedOut
<1>3. CASE Carried(c, "refused") /\ pc[c] = "read"
  <2>1. resp' = [resp EXCEPT ![c] = "refused"] /\ resp[c] = "none"
    BY <1>3 DEF Carried, NotAnswered
  <2> QED BY <2>1, NoneIsNoAnswer DEF CarriedOut
<1> QED BY <1>1, <1>2, <1>3

LEMMA Refuses ==
    ASSUME PathInv, NEW c \in Clients, pc[c] # "idle", got[c] = "none",
           resp[c] \notin Answers,
           NEW a \in {"refused", "signalled"}, Answered(c, a), UNCHANGED req,
           UNCHANGED View \/ (VaultOpen /\ ~VaultOpen')
    PROVE  Steps
<1>1. req[c] # NoRequest /\ CarriedOut[c] = "none"
  BY ProcessAssumption DEF PathInv, Typing, CallOK, CarriedOut
<1>2. UNCHANGED <<VaultOpen, OpenHeld, OpenAllowed>> \/ Service!Locked
  BY ViewLocked DEF View
<1>3. got' = [got EXCEPT ![c] = a] /\ UNCHANGED CarriedOut
  BY DoneKept DEF Answered, Returned
<1>4. Service!Refuse(c)
  BY <1>1, <1>2, <1>3 DEF Service!Refuse, OpenHeld, OpenAllowed
<1> QED BY <1>4 DEF Steps, Service!Next

LEMMA Breaks ==
    ASSUME PathInv, NEW c \in Clients, pc[c] # "idle", got[c] = "none",
           got' = [got EXCEPT ![c] = "broken"], UNCHANGED <<req, CarriedOut>>, UNCHANGED View
    PROVE  Steps
<1>1. req[c] # NoRequest
  BY ProcessAssumption DEF PathInv, Typing, CallOK
<1>2. Service!Break(c)
  BY <1>1 DEF Service!Break, View, OpenHeld, OpenAllowed
<1> QED BY <1>2 DEF Steps, Service!Next

(* The end of a handler whose client left.                                  *)
LEMMA EndsAlone ==
    ASSUME PathInv, NEW c \in Clients, got[c] # "none", NEW a, Answered(c, a),
           UNCHANGED req, UNCHANGED View
    PROVE  Steps
<1>1. UNCHANGED got
  BY DEF Answered, Returned, PathInv, Typing, TypeOK
<1> QED BY <1>1, DoneKept, Stutters

LEMMA CallRefines ==
    ASSUME PathInv, NEW c \in Clients,
           \/ \E r \in Requests : Ask(c, r)
           \/ Call(c)
    PROVE  Steps
<1> USE DEF PathInv
<1>a. ASSUME UNCHANGED <<phase, held, allowed, socket, stopped>> PROVE UNCHANGED View
  BY <1>a, ViewKept DEF Live
<1>1. ASSUME NEW r \in Requests, Ask(c, r) PROVE Steps
  <2>1. UNCHANGED View
    BY <1>1, <1>a DEF Ask, serverVars, stopVars
  <2>2. r \in Service!Requests
    BY DEF Requests, Service!Requests, AllowedType, Service!AllowedType
  <2>3. CarriedOut' = [CarriedOut EXCEPT ![c] = "none"]
    BY <1>1, NoneIsNoAnswer DEF Ask, CarriedOut, Typing, TypeOK
  <2>4. req[c] = NoRequest \/ got[c] # "none"
    BY <1>1 DEF Ask, NotAnswered
  <2>5. Service!Ask(c, r)
    BY <1>1, <2>1, <2>3, <2>4 DEF Ask, Service!Ask, View, OpenHeld, OpenAllowed
  <2> QED BY <2>2, <2>5 DEF Steps, Service!Next
<1>2. CASE AnswerLock(c) \/ Retry(c)
  <2>1. UNCHANGED View /\ UNCHANGED <<req, resp, got>>
    BY <1>2, <1>a DEF AnswerLock, Retry, GoesTo, serverVars, stopVars
  <2> QED BY <2>1, Stutters DEF CarriedOut
<1>3. CASE Read(c)
  <2>1. UNCHANGED View /\ UNCHANGED req
    BY <1>3, <1>a DEF Read, serverVars, stopVars
  <2>2. \/ UNCHANGED <<resp, got>>
        \/ got[c] # "none" /\ Answered(c, "broken")
    BY <1>3 DEF Read, GoesTo
  <2> QED BY <2>1, <2>2, Stutters, EndsAlone DEF CarriedOut
<1>4. CASE Dial(c)
  <2>1. UNCHANGED View /\ pc[c] = "dialing" /\ UNCHANGED req
    BY <1>4, <1>a DEF Dial, serverVars, stopVars
  <2>2. UNCHANGED <<resp, got>> \/ Answered(c, "refused")
    BY <1>4 DEF Dial
  <2>3. got[c] = "none" /\ resp[c] \notin Answers
    BY <2>1, NoneIsNoAnswer DEF NotAnswered
  <2> QED BY <2>1, <2>2, <2>3, Stutters, Refuses DEF CarriedOut
<1>5. CASE Greet(c)
  <2> DEFINE p == conn[c]
  <2>1. pc[c] = "dialed" /\ p \in Procs /\ UNCHANGED <<phase, held, allowed, req>>
    BY <1>5 DEF Greet, Typing, CallOK, serverVars
  <2>2. \/ UNCHANGED <<socket, stopped>> /\ UNCHANGED <<resp, got>>
        \/ UNCHANGED <<socket, stopped>> /\ Answered(c, "refused")
        \/ Stop(p) /\ Answered(c, "refused")
    BY <1>5 DEF Greet, GoesTo, stopVars
  <2>3. got[c] = "none" /\ resp[c] \notin Answers
    BY <2>1, NoneIsNoAnswer DEF NotAnswered
  <2>4. CASE UNCHANGED <<socket, stopped>>
    <3>1. UNCHANGED View
      BY <2>1, <2>4, <1>a
    <3> QED BY <2>1, <2>2, <2>3, <3>1, ViewStop, Stutters, Refuses DEF CarriedOut
  <2>5. CASE Stop(p) /\ Answered(c, "refused")
    BY <2>1, <2>3, <2>5, ViewStop, Refuses
  <2> QED BY <2>2, <2>4, <2>5
<1>6. CASE Broken(c)
  <2>1. UNCHANGED View /\ pc[c] # "idle" /\ UNCHANGED req
    BY <1>6, <1>a DEF Broken, serverVars, stopVars
  <2>2. CASE got[c] # "none"
    <3>1. \E a \in CallResults : Answered(c, a)
      BY <1>6 DEF Broken, CallResults
    <3> QED BY <2>1, <2>2, <3>1, EndsAlone
  <2>3. CASE got[c] = "none" /\ pc[c] = "dialed"
    <3>1. Answered(c, "refused") /\ resp[c] \notin Answers
      BY <1>6, <2>3, NoneIsNoAnswer DEF Broken, NotAnswered
    <3> QED BY <2>1, <2>3, <3>1, Refuses
  <2>4. CASE got[c] = "none" /\ pc[c] # "dialed"
    <3>1. Answered(c, "broken")
      BY <1>6, <2>4 DEF Broken
    <3>2. got' = [got EXCEPT ![c] = "broken"] /\ UNCHANGED CarriedOut
      BY <2>4, <3>1, DoneKept DEF Answered, Returned
    <3> QED BY <2>1, <2>4, <3>2, Breaks
  <2> QED BY <2>2, <2>3, <2>4
<1>7. CASE AnswerStopped(c)
  <2>1. UNCHANGED View /\ pc[c] = "read" /\ UNCHANGED <<req, got>> /\ Carried(c, "refused")
    BY <1>7, <1>a DEF AnswerStopped, Carried, serverVars, stopVars
  <2> QED BY <2>1, DoneKept, Stutters
<1>8. CASE GiveUp(c)
  <2>1. pc[c] = "replaced" /\ conn[c] \in Procs /\ UNCHANGED <<phase, held, allowed, req>>
    BY <1>8 DEF GiveUp, Typing, CallOK, serverVars
  <2>2. \/ Stop(conn[c]) /\ Answered(c, "signalled")
        \/ UNCHANGED <<socket, stopped>> /\ Answered(c, "refused")
    BY <1>8 DEF GiveUp, stopVars
  <2>3. got[c] = "none" /\ resp[c] \notin Answers
    BY <2>1, NoneIsNoAnswer DEF NotAnswered
  <2> QED BY <2>1, <2>2, <2>3, <1>a, ViewStop, Refuses
<1>9. CASE StopForLock(c)
  <2>1. /\ pc[c] = "locking" /\ conn[c] \in Procs /\ Live(conn[c]) /\ Stop(conn[c])
        /\ resp' = [resp EXCEPT ![c] = "ok"] /\ UNCHANGED <<phase, held, allowed, req, got>>
    BY <1>9 DEF StopForLock, Carried, Typing, CallOK, serverVars
  <2>2. ~VaultOpen'
    BY <2>1, ViewStop DEF WorkerAtPath
  <2>3. Service!Pending(c)
    BY <2>1, ProcessAssumption, NoneIsNoAnswer
       DEF Service!Pending, Typing, CallOK, NotAnswered, CarriedOut
  <2>4. req[c].op = "lock"
    BY <2>1 DEF NotAnswered
  <2>5. CarriedOut' = [CarriedOut EXCEPT ![c] = "ok"]
    BY <2>1, NoneIsNoAnswer DEF CarriedOut, Typing, TypeOK
  <2>6. Service!Lock(c)
    BY <2>1, <2>2, <2>3, <2>4, <2>5, ViewLocked DEF Service!Lock
  <2> QED BY <2>6 DEF Steps, Service!Next
<1>10. CASE Answer(c)
  <2> DEFINE p == conn[c]
  <2>1. /\ pc[c] = "read" /\ p \in Procs /\ Live(p) /\ ~stopped[p] /\ req[c].op # "lock"
        /\ req[c] \in Requests
        /\ resp' = [resp EXCEPT ![c] = AnswerTo(req[c], held[p], allowed[p])]
        /\ held' = [held EXCEPT ![p] = HeldAfter(req[c], held[p])]
        /\ allowed' = [allowed EXCEPT ![p] = AllowedAfter(req[c], allowed[p])]
        /\ UNCHANGED <<phase, stopped, socket, req, got>>
    BY <1>10 DEF Answer, Carried, Typing, CallOK
  <2>2. socket = p
    <3>1. phase[p] = "serving"
      BY <2>1 DEF HandoverInv, OnlyServingWorks, Live
    <3>2. c \in InFlight(p)
      BY <2>1 DEF InFlight
    <3>3. handover[p] # "swapped"
      BY <2>1, <3>2 DEF HandoverInv, HandedOverInFull, HasSuccessor
    <3> QED BY <2>1, <3>1, <3>3 DEF NoStrandedSecrets
  <2>3. VaultOpen /\ VaultOpen'
    BY <2>1, <2>2 DEF VaultOpen, Open, Live
  <2>4. /\ held'[socket'] = HeldAfter(req[c], held[socket])
        /\ allowed'[socket'] = AllowedAfter(req[c], allowed[socket])
    BY <2>1, <2>2 DEF Typing, TypeOK
  <2>5. Service!Pending(c)
    BY <2>1, ProcessAssumption, NoneIsNoAnswer DEF Service!Pending, NotAnswered, CarriedOut
  <2>6. /\ Service!AnswerTo(req[c], held[p], allowed[p]) = AnswerTo(req[c], held[p], allowed[p])
        /\ Service!HeldAfter(req[c], held[p]) = HeldAfter(req[c], held[p])
        /\ Service!AllowedAfter(req[c], allowed[p]) = AllowedAfter(req[c], allowed[p])
    BY DEF AnswerTo, HeldAfter, AllowedAfter,
           Service!AnswerTo, Service!HeldAfter, Service!AllowedAfter
  <2>7. CarriedOut' = [CarriedOut EXCEPT ![c] = AnswerTo(req[c], held[p], allowed[p])]
    <3>1. AnswerTo(req[c], held[p], allowed[p]) \in Answers
      BY <2>1, AnswerTypes DEF Typing, TypeOK
    <3> QED BY <2>1, <3>1 DEF CarriedOut, Typing, TypeOK
  <2>8. Service!Serve(c)
    BY <2>1, <2>2, <2>3, <2>4, <2>5, <2>6, <2>7, OpenOrNot DEF Service!Serve
  <2> QED BY <2>8 DEF Steps, Service!Next
<1>11. CASE Leave(c)
  <2>1. UNCHANGED View /\ pc[c] # "idle" /\ UNCHANGED req /\ got[c] = "none"
    BY <1>11, <1>a DEF Leave, serverVars, stopVars
  <2>2. CASE pc[c] \in {"dialing", "dialed"} /\ Answered(c, "refused")
    <3>1. resp[c] \notin Answers
      BY <2>2, NoneIsNoAnswer DEF NotAnswered
    <3> QED BY <2>1, <2>2, <3>1, Refuses
  <2>3. CASE got' = [got EXCEPT ![c] = "broken"] /\ UNCHANGED resp
    BY <2>1, <2>3, Breaks DEF CarriedOut
  <2> QED BY <1>11, <2>2, <2>3 DEF Leave
<1>12. CASE Reply(c)
  <2>1. /\ UNCHANGED View /\ pc[c] = "answered" /\ UNCHANGED req /\ Answered(c, resp[c])
        /\ resp[c] \in Answers \cup {"refused"} /\ UNCHANGED CarriedOut
    BY <1>12, <1>a, DoneKept DEF Reply, NotAnswered, Typing, TypeOK, serverVars, stopVars
  <2>2. CASE got[c] # "none"
    BY <2>1, <2>2, EndsAlone
  <2>3. CASE got[c] = "none" /\ resp[c] \notin Answers
    BY <2>1, <2>3, Refuses
  <2>4. CASE got[c] = "none" /\ resp[c] \in Answers
    <3>1. got' = [got EXCEPT ![c] = CarriedOut[c]] /\ CarriedOut[c] # "none"
      BY <2>1, <2>4, NoneIsNoAnswer DEF Answered, Returned, CarriedOut
    <3>2. Service!Return(c)
      BY <2>1, <2>4, <3>1 DEF Service!Return, View, OpenHeld, OpenAllowed
    <3> QED BY <3>2 DEF Steps, Service!Next
  <2> QED BY <2>2, <2>3, <2>4
<1> QED
  BY <1>1, <1>2, <1>3, <1>4, <1>5, <1>6, <1>7, <1>8, <1>9, <1>10, <1>11, <1>12 DEF Call

LEMMA NextRefines == PathInv /\ [Next]_vars => Steps
<1> SUFFICES ASSUME PathInv, [Next]_vars PROVE Steps
  OBVIOUS
<1>1. CASE UNCHANGED vars
  <2>1. UNCHANGED View /\ UNCHANGED <<req, resp, got>>
    BY <1>1, ViewKept DEF vars, serverVars, stopVars, clientVars, Live
  <2> QED BY <2>1, Stutters DEF CarriedOut
<1>2. CASE Tick \/ ReplaceProgram
  BY <1>2, ServerRefines, ProcessAssumption
<1>3. ASSUME NEW p \in Procs,
             \/ TimerFires(p) \/ CloseServer(p) \/ Wipe(p) \/ Crash(p)
             \/ Claim(p) \/ ServeHandover(p) \/ AwaitHandover(p)
      PROVE  Steps
  BY <1>3, ServerRefines, HandoverRefines
<1>4. ASSUME NEW c \in Clients,
             \/ \E r \in Requests : Ask(c, r)
             \/ Call(c)
      PROVE  Steps
  BY <1>4, CallRefines
<1> QED BY <1>1, <1>2, <1>3, <1>4 DEF Next

(* However many processes hold the vault one after another, and wherever    *)
(* they crash, stop or hand over, their clients see one vault: a request    *)
(* takes effect at most once, before its answer, on what every one before   *)
(* left, and never if it was refused; a client that left or lost its        *)
(* connection cannot tell; and nothing takes effect after a lock did.       *)
THEOREM OneVault == Spec => ServiceSpec
<1>1. PathInv /\ [Next]_vars => [Service!Next]_(Service!vars)
  BY NextRefines DEF Steps
<1> QED BY <1>1, InitPath, InitRefines, NextPath, PTL DEF Spec, ServiceSpec, Service!Spec
=============================================================================
