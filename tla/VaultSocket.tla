---------------------------- MODULE VaultSocket ----------------------------
(***************************************************************************)
(* The socket of a vault and the lock file beside it, as files: how a      *)
(* vault process comes to own the path, hands it to a successor and leaves *)
(* it (internal/vaultproc/listen_unix.go, the swap in handover.go, and     *)
(* watchSocket in internal/cli/vaultproc_unix.go).                         *)
(*                                                                         *)
(* Every step is one system call.  Each process creates at most one socket *)
(* and one lock file, so an inode is named by the process that made it; a  *)
(* path holds the inode linked there.  A flock belongs to the inode, not   *)
(* to the path, and goes with the process.  What the processes answer is   *)
(* VaultProcess's; the socket of an earlier release is left out.           *)
(***************************************************************************)
EXTENDS Naturals, FiniteSets

CONSTANTS Procs,
          None,     \* no process, or no file at a path
          Crashes   \* whether processes die at any step in this instance

ASSUME SocketAssumption ==
    /\ None \notin Procs
    /\ Crashes \in BOOLEAN

Paths == {"socket", "next"}

LockBeside == [path \in Paths |-> IF path = "socket" THEN "socket.lock" ELSE "next.lock"]

VARIABLES
    files,         \* the inode at each path
    flock,         \* the process that holds the lock on each lock file
    pc,            \* what each process does next
    path,          \* lockedListener.path: where its socket is
    fd,            \* lockedListener.lock: the lock file it opened
    own,           \* lockedListener.own: the socket it takes for its own
    handedOver,    \* lockedListener.handedOver
    watched,       \* the socket watchSocket looks for, once it looked
    swap,          \* the handover: none, starting, ready, moving, clearing, clearingLock
    successor,     \* the process it started
    breached       \* history: a lock was taken that proves nothing (see Unproven)

vars == <<files, flock, pc, path, fd, own, handedOver, watched, swap, successor, breached>>

Steps == {"off", "opening", "locking", "inspecting", "removing", "binding", "owning", "waiting",
          "serving", "unlinking", "unlistening", "unlocking", "closed", "ended"}

MaybeProc == Procs \cup {None}

TypeOK ==
    /\ files \in [Paths \cup {"socket.lock", "next.lock"} -> MaybeProc]
    /\ flock \in [Procs -> MaybeProc]
    /\ pc \in [Procs -> Steps]
    /\ path \in [Procs -> Paths]
    /\ fd \in [Procs -> MaybeProc]
    /\ own \in [Procs -> MaybeProc]
    /\ handedOver \in [Procs -> BOOLEAN]
    /\ watched \in [Procs -> MaybeProc]
    /\ swap \in [Procs -> {"none", "starting", "ready", "moving", "clearing", "clearingLock"}]
    /\ successor \in [Procs -> MaybeProc]
    /\ breached \in BOOLEAN

Init ==
    /\ files = [f \in Paths \cup {"socket.lock", "next.lock"} |-> None]
    /\ flock = [p \in Procs |-> None]
    /\ pc = [p \in Procs |-> "off"]
    /\ path = [p \in Procs |-> "socket"]
    /\ fd = [p \in Procs |-> None]
    /\ own = [p \in Procs |-> None]
    /\ handedOver = [p \in Procs |-> FALSE]
    /\ watched = [p \in Procs |-> None]
    /\ swap = [p \in Procs |-> "none"]
    /\ successor = [p \in Procs |-> None]
    /\ breached = FALSE

Live(p) == pc[p] \notin {"off", "ended"}

(* A connection to its socket is accepted, or waits to be. *)
Listening(p) == pc[p] \in {"owning", "waiting", "serving", "unlinking", "unlistening"}

(* It listens at the vault's path, as far as it knows. *)
Serves(p) == Listening(p) /\ path[p] = "socket" /\ ~handedOver[p]

(* From the lock on until it stops listening. *)
Works(p) == pc[p] \in {"inspecting", "removing", "binding"} \/ Listening(p)

(* It works at the path, or its socket lies there. *)
Claims(p, x) ==
    /\ Works(p)
    /\ path[p] = x \/ files[x] = p
    /\ ~handedOver[p]

Lock(p) == LockBeside[path[p]]

Goes(p, step) == pc' = [pc EXCEPT ![p] = step]

(* The process is gone, and its locks with it. *)
Dead(p) ==
    /\ Goes(p, "ended")
    /\ flock' = [i \in Procs |-> IF flock[i] = p THEN None ELSE flock[i]]

---------------------------------------------------------------------------
(* Listen: at the vault's path, or beside it for a successor *)

Unlock(p) ==
    /\ pc[p] = "off"
    /\ Goes(p, "opening")
    /\ UNCHANGED <<files, flock, path, fd, own, handedOver, watched, swap, successor, breached>>

(* A slip: the lock is taken for the path's, not for the open file's. *)
OpenLockByPath(p) ==
    /\ pc[p] = "opening"
    /\ files' = [files EXCEPT ![Lock(p)] = IF @ = None THEN p ELSE @]
    /\ fd' = [fd EXCEPT ![p] = Lock(p)]
    /\ Goes(p, "locking")
    /\ UNCHANGED <<flock, path, own, handedOver, watched, swap, successor, breached>>

OpenLock(p) ==
    /\ pc[p] = "opening"
    /\ files' = [files EXCEPT ![Lock(p)] = IF @ = None THEN p ELSE @]
    /\ fd' = [fd EXCEPT ![p] = files'[Lock(p)]]
    /\ Goes(p, "locking")
    /\ UNCHANGED <<flock, path, own, handedOver, watched, swap, successor, breached>>

(* A lock that proves nothing of the socket at its path: the file was moved *)
(* away from there since it was opened; or a process at work there holds    *)
(* another one, since a handover moves or clears the lock file and the      *)
(* socket in two steps, and its processes may die in between.               *)
Unproven(p) ==
    \/ files[Lock(p)] # fd[p]
    \/ \E q \in Procs : Claims(q, path[p]) /\ fd[q] # fd[p]

(* A slip: the lock is not waited for. *)
LockUnchecked(p) ==
    /\ pc[p] = "locking"
    /\ flock' = [flock EXCEPT ![fd[p]] = p]
    /\ breached' = (breached \/ Unproven(p))
    /\ Goes(p, "inspecting")
    /\ UNCHANGED <<files, path, fd, own, handedOver, watched, swap, successor>>

TakeLock(p) ==
    /\ pc[p] = "locking"
    /\ flock[fd[p]] = None
    /\ flock' = [flock EXCEPT ![fd[p]] = p]
    /\ breached' = (breached \/ Unproven(p))
    /\ Goes(p, "inspecting")
    /\ UNCHANGED <<files, path, fd, own, handedOver, watched, swap, successor>>

(* ErrRunning: the lock is held and a socket is there, or releaseWait ended. *)
Running(p) ==
    /\ pc[p] = "locking"
    /\ flock[fd[p]] # None
    /\ Dead(p)
    /\ UNCHANGED <<files, path, fd, own, handedOver, watched, swap, successor, breached>>

Inspect(p) ==
    /\ pc[p] = "inspecting"
    /\ Goes(p, IF files[path[p]] = None THEN "binding" ELSE "removing")
    /\ UNCHANGED <<files, flock, path, fd, own, handedOver, watched, swap, successor, breached>>

(* The socket found is removed; if it is gone by then, that is a failure.   *)
RemoveDead(p) ==
    /\ pc[p] = "removing"
    /\ IF files[path[p]] = None
       THEN Dead(p) /\ UNCHANGED files
       ELSE /\ files' = [files EXCEPT ![path[p]] = None]
            /\ Goes(p, "binding")
            /\ UNCHANGED flock
    /\ UNCHANGED <<path, fd, own, handedOver, watched, swap, successor, breached>>

Bind(p) ==
    /\ pc[p] = "binding"
    /\ IF files[path[p]] # None
       THEN Dead(p) /\ UNCHANGED files
       ELSE /\ files' = [files EXCEPT ![path[p]] = p]
            /\ Goes(p, "owning")
            /\ UNCHANGED flock
    /\ UNCHANGED <<path, fd, own, handedOver, watched, swap, successor, breached>>

(* The mode is set and the socket at the path is remembered as its own.  A  *)
(* successor then waits for its handover; any other process serves.         *)
Own(p) ==
    /\ pc[p] = "owning"
    /\ IF files[path[p]] = None
       THEN Dead(p) /\ UNCHANGED own
       ELSE /\ own' = [own EXCEPT ![p] = files[path[p]]]
            /\ Goes(p, IF path[p] = "next" THEN "waiting" ELSE "serving")
            /\ UNCHANGED flock
    /\ UNCHANGED <<files, path, fd, handedOver, watched, swap, successor, breached>>

(* AwaitHandover found the socket at the vault's path. *)
TakeOver(p) ==
    /\ pc[p] = "waiting"
    /\ files["socket"] = own[p]
    /\ path' = [path EXCEPT ![p] = "socket"]
    /\ Goes(p, "serving")
    /\ UNCHANGED <<files, flock, fd, own, handedOver, watched, swap, successor, breached>>

---------------------------------------------------------------------------
(* lockedListener.Close *)

(* A slip of the next: any socket at the path is taken for its own. *)
CloseAny(p) ==
    /\ pc[p] \in {"waiting", "serving"}
    /\ swap[p] # "moving"
    /\ Goes(p, IF files[path[p]] # None THEN "unlinking" ELSE "unlistening")
    /\ UNCHANGED <<files, flock, path, fd, own, handedOver, watched, swap, successor, breached>>

(* The server stops: a lock, a deadline, a signal, the end of a handover.   *)
(* Its own socket, unless it was handed over, is removed by name after it   *)
(* was looked at; stop and handOver hold the same lock, so neither comes    *)
(* between the other's steps.                                               *)
Close(p) ==
    /\ pc[p] \in {"waiting", "serving"}
    /\ swap[p] # "moving"
    /\ Goes(p, IF ~handedOver[p] /\ files[path[p]] = own[p] THEN "unlinking" ELSE "unlistening")
    /\ UNCHANGED <<files, flock, path, fd, own, handedOver, watched, swap, successor, breached>>

(* A successor's wait for its handover ends (HandoverTimeout, a signal).  A  *)
(* slip of it: it waits on while its socket lies beside.                    *)
AwaitWhileBeside(p) == pc[p] = "waiting" /\ files["next"] = None /\ Close(p)

AwaitFails(p) == pc[p] = "waiting" /\ Close(p)

(* watchSocket: what lies at the path once the process serves is what it    *)
(* keeps looking for; once it is gone or another one, the process closes.   *)
Watch(p) ==
    /\ pc[p] = "serving"
    /\ watched[p] = None
    /\ files["socket"] # None
    /\ watched' = [watched EXCEPT ![p] = files["socket"]]
    /\ UNCHANGED <<files, flock, pc, path, fd, own, handedOver, swap, successor, breached>>

(* A slip: only a missing socket counts. *)
WatchMissing(p) ==
    /\ files["socket"] = None
    /\ pc[p] = "serving"
    /\ Close(p)

SocketGone(p) ==
    /\ pc[p] = "serving"
    /\ \/ files["socket"] = None
       \/ watched[p] # None /\ files["socket"] # watched[p]
    /\ Close(p)

Unlink(p) ==
    /\ pc[p] = "unlinking"
    /\ files' = [files EXCEPT ![path[p]] = None]
    /\ Goes(p, "unlistening")
    /\ UNCHANGED <<flock, path, fd, own, handedOver, watched, swap, successor, breached>>

Unlisten(p) ==
    /\ pc[p] = "unlistening"
    /\ Goes(p, "unlocking")
    /\ UNCHANGED <<files, flock, path, fd, own, handedOver, watched, swap, successor, breached>>

ReleaseLock(p) ==
    /\ pc[p] = "unlocking"
    /\ flock' = [flock EXCEPT ![fd[p]] = IF @ = p THEN None ELSE @]
    /\ Goes(p, "closed")
    /\ UNCHANGED <<files, path, fd, own, handedOver, watched, swap, successor, breached>>

(* Serve waits for the handler that runs a handover. *)
End(p) ==
    /\ pc[p] = "closed"
    /\ swap[p] = "none"
    /\ Dead(p)
    /\ UNCHANGED <<files, path, fd, own, handedOver, watched, swap, successor, breached>>

Crash(p) ==
    /\ Crashes
    /\ Live(p)
    /\ Dead(p)
    /\ swap' = [swap EXCEPT ![p] = "none"]
    /\ UNCHANGED <<files, path, fd, own, handedOver, watched, successor, breached>>

---------------------------------------------------------------------------
(* The swap of a handover *)

SwapStep(p, step) == swap' = [swap EXCEPT ![p] = step]

StartSuccessor(p, q) ==
    /\ pc[p] = "serving"
    /\ swap[p] = "none" /\ successor[p] = None
    /\ pc[q] = "off"
    /\ SwapStep(p, "starting")
    /\ successor' = [successor EXCEPT ![p] = q]
    /\ path' = [path EXCEPT ![q] = "next"]
    /\ Goes(q, "opening")
    /\ UNCHANGED <<files, flock, fd, own, handedOver, watched, breached>>

(* The successor reported ready. *)
SuccessorReady(p) ==
    /\ Live(p)
    /\ swap[p] = "starting"
    /\ pc[successor[p]] = "waiting"
    /\ SwapStep(p, "ready")
    /\ UNCHANGED <<files, flock, pc, path, fd, own, handedOver, watched, successor, breached>>

(* handOver, unless the server is stopping: the lock is moved first. *)
MoveLock(p) ==
    /\ pc[p] = "serving"
    /\ swap[p] = "ready"
    /\ files["next"] # None /\ files["next.lock"] # None
    /\ files' = [files EXCEPT !["socket.lock"] = files["next.lock"], !["next.lock"] = None]
    /\ SwapStep(p, "moving")
    /\ UNCHANGED <<flock, pc, path, fd, own, handedOver, watched, successor, breached>>

MoveSocket(p) ==
    /\ Live(p)
    /\ swap[p] = "moving"
    /\ files["next"] # None
    /\ files' = [files EXCEPT !["socket"] = files["next"], !["next"] = None]
    /\ handedOver' = [handedOver EXCEPT ![p] = TRUE]
    /\ SwapStep(p, "none")
    /\ UNCHANGED <<flock, pc, path, fd, own, watched, successor, breached>>

(* The start failed or was cancelled, the server is stopping, or a rename   *)
(* failed: the successor is killed, and what it left beside is removed.     *)
SwapFails(p) ==
    /\ Live(p)
    /\ \/ swap[p] \in {"starting", "ready"}
       \/ swap[p] = "moving" /\ files["next"] = None
    /\ Dead(successor[p])
    /\ SwapStep(p, "clearing")
    /\ UNCHANGED <<files, path, fd, own, handedOver, watched, successor, breached>>

RemoveNext(p) ==
    /\ Live(p)
    /\ \/ /\ swap[p] = "clearing"
          /\ files' = [files EXCEPT !["next"] = None]
          /\ SwapStep(p, "clearingLock")
       \/ /\ swap[p] = "clearingLock"
          /\ files' = [files EXCEPT !["next.lock"] = None]
          /\ SwapStep(p, "none")
    /\ UNCHANGED <<flock, pc, path, fd, own, handedOver, watched, successor, breached>>

(* A handover ends in the server's stop, whether it was done or failed. *)
HandoverEnds(p) ==
    /\ successor[p] # None
    /\ swap[p] = "none"
    /\ Close(p)

---------------------------------------------------------------------------
Listen(p) ==
    \/ OpenLock(p) \/ TakeLock(p) \/ Running(p)
    \/ Inspect(p) \/ RemoveDead(p) \/ Bind(p) \/ Own(p)

(* The steps a process takes by itself. *)
Runs(p) ==
    \/ Listen(p)
    \/ TakeOver(p) \/ AwaitFails(p)
    \/ SocketGone(p) \/ Watch(p)
    \/ Unlink(p) \/ Unlisten(p) \/ ReleaseLock(p) \/ End(p)

Handover(p) ==
    \/ SuccessorReady(p) \/ MoveLock(p) \/ MoveSocket(p)
    \/ SwapFails(p) \/ RemoveNext(p) \/ HandoverEnds(p)

Next == \E p \in Procs :
    \/ Unlock(p) \/ Runs(p) \/ Close(p) \/ Crash(p)
    \/ \E q \in Procs : StartSuccessor(p, q)
    \/ Handover(p)

(* A process goes on by itself; nobody has to unlock, update or stop.  The  *)
(* watch's ticker fires however often it did before.                        *)
Fairness == \A p \in Procs : WF_vars(Runs(p)) /\ WF_vars(Handover(p))

Spec == Init /\ [][Next]_vars
FairSpec == Spec /\ Fairness

---------------------------------------------------------------------------
(* One process serves the vault's path (Listen, Close, handOver): no two of *)
(* them take it for theirs, whatever starts, handovers and crashes come,    *)
(* until a lock was taken that proves nothing.                              *)
Exclusive ==
    ~breached => \A p, q \in Procs : Serves(p) /\ Serves(q) => p = q

(* "so a successor never finds its own fresh socket removed"                *)
(* (lockedListener): what a closing process removes by name is its own.     *)
RemovesOwnOnly ==
    ~breached => \A p \in Procs : pc[p] = "unlinking" => files[path[p]] \in {p, None}

(* Even then no process keeps secrets nobody can reach: one that saw its    *)
(* socket at the path and lost it ends (watchSocket's SameFile).  One that  *)
(* lost it before watchSocket first looked keeps watching the other's.      *)
OrphanEnds ==
    \A p \in Procs :
        (pc[p] = "serving" /\ watched[p] = p /\ files["socket"] # p) ~> (pc[p] = "ended")

(* A successor serves the path or ends: it never waits on with the secrets, *)
(* whatever became of its predecessor (AwaitHandover's timeout).            *)
WaiterDecides ==
    \A p \in Procs : (pc[p] = "waiting") ~> (pc[p] = "ended" \/ files["socket"] = p)

(* "from the first rename on, no other process can take the vault socket"   *)
(* (handOver), and "Holding it also proves that a socket left at the path   *)
(* is dead: its server would still hold the lock" (Listen): no process that *)
(* starts is about to remove the socket of a successor that listens there.  *)
SuccessorKeepsSocket ==
    \A p, q, r \in Procs :
        pc[p] = "removing" /\ files[path[p]] = q => ~(successor[r] = q /\ handedOver[r] /\ Listening(q))
=============================================================================
