------------------------- MODULE VaultSocket_proofs -------------------------
(***************************************************************************)
(* Theorems of VaultSocket, for any number of processes.  SocketInv is     *)
(* inductive: whoever works at a path holds the lock it took (HoldsLock)   *)
(* and, while no lock was taken that proves nothing, works there alone     *)
(* (OneClaim), so that the socket at its path is its own or gone.          *)
(***************************************************************************)
EXTENDS VaultSocket, TLAPS

Early == {"off", "opening", "locking", "inspecting", "removing", "binding"}

HoldsLock ==
    \A p \in Procs :
       /\ pc[p] \in {"locking", "unlocking"} \/ Works(p) => fd[p] \in Procs
       /\ pc[p] = "unlocking" \/ Works(p) => flock[fd[p]] = p

OneClaim ==
    ~breached => \A x \in Paths : \A p, q \in Procs : Claims(p, x) /\ Claims(q, x) => p = q

NoOther ==
    ~breached => \A p \in Procs : Listening(p) /\ ~handedOver[p] => files[path[p]] \in {p, None}

KnowsOwn ==
    ~breached => \A p \in Procs : pc[p] \in {"waiting", "serving"} => own[p] = p

(* The order of things: what a process did not come to, it did not do. *)
Order(p) ==
    /\ pc[p] \in Early => files["socket"] # p /\ files["next"] # p
    /\ pc[p] = "serving" => path[p] = "socket"
    /\ swap[p] = "moving" => pc[p] \in {"serving", "ended"}
    /\ swap[p] # "none" => successor[p] # None
    /\ handedOver[p] => /\ pc[p] \notin Early \cup {"owning", "waiting", "unlinking"}
                        /\ swap[p] = "none"
                        /\ successor[p] # None

SocketInv ==
    /\ TypeOK
    /\ HoldsLock
    /\ OneClaim
    /\ NoOther
    /\ KnowsOwn
    /\ \A p \in Procs : Order(p)

---------------------------------------------------------------------------
(* One lemma per action: it keeps SocketInv. *)

(* A process starts. *)
LEMMA UnlockKeeps ==
    ASSUME SocketInv, NEW p \in Procs, Unlock(p)
    PROVE  SocketInv'
<1>1. TypeOK'
  BY SocketAssumption DEF SocketInv, TypeOK, MaybeProc, Steps, Paths, Unlock, Goes
<1>2. HoldsLock'
  BY <1>1, SocketAssumption DEF SocketInv, TypeOK, MaybeProc, HoldsLock, Works, Listening, Unlock, Goes
<1>3. OneClaim'
  BY <1>1, SocketAssumption
     DEF SocketInv, TypeOK, MaybeProc, OneClaim, Claims, Works, Listening, Unlock, Goes
<1>4. NoOther'
  BY <1>1, SocketAssumption
     DEF SocketInv, TypeOK, Paths, OneClaim, NoOther, Claims, Works, Listening, Unlock, Goes
<1>5. KnowsOwn'
  BY <1>1, SocketAssumption DEF SocketInv, TypeOK, NoOther, KnowsOwn, Listening, Unlock, Goes
<1>6. \A r \in Procs : Order(r)'
  BY <1>1, SocketAssumption DEF SocketInv, TypeOK, MaybeProc, Paths, Order, Early, Unlock, Goes
<1> QED BY <1>1, <1>2, <1>3, <1>4, <1>5, <1>6 DEF SocketInv

(* It opens the lock file, or makes it. *)
LEMMA OpenLockKeeps ==
    ASSUME SocketInv, NEW p \in Procs, OpenLock(p)
    PROVE  SocketInv'
<1>1. TypeOK'
  BY SocketAssumption DEF SocketInv, TypeOK, MaybeProc, Steps, Paths, OpenLock, Goes, Lock, LockBeside
<1>2. HoldsLock'
  BY <1>1, SocketAssumption
     DEF SocketInv, TypeOK, MaybeProc, HoldsLock, Works, Listening, OpenLock, Goes, Lock, LockBeside
<1>3. OneClaim'
  BY <1>1, SocketAssumption
     DEF SocketInv, TypeOK, MaybeProc, OneClaim, Claims, Works, Listening, Order, Early, OpenLock,
         Goes, Lock, LockBeside
<1>4. NoOther'
  BY <1>1, SocketAssumption
     DEF SocketInv, TypeOK, Paths, OneClaim, NoOther, Claims, Works, Listening, Order, Early,
         OpenLock, Goes, Lock, LockBeside
<1>5. KnowsOwn'
  BY <1>1, SocketAssumption
     DEF SocketInv, TypeOK, NoOther, KnowsOwn, Listening, Order, Early, OpenLock, Goes, Lock,
         LockBeside
<1>6. \A r \in Procs : Order(r)'
  BY <1>1, SocketAssumption
     DEF SocketInv, TypeOK, MaybeProc, Paths, Order, Early, OpenLock, Goes, Lock, LockBeside
<1> QED BY <1>1, <1>2, <1>3, <1>4, <1>5, <1>6 DEF SocketInv

(* It takes the lock.  Whoever works at the path holds the lock of the same *)
(* file, unless the lock proves nothing.                                   *)
LEMMA TakeLockKeeps ==
    ASSUME SocketInv, NEW p \in Procs, TakeLock(p)
    PROVE  SocketInv'
<1>1. TypeOK'
  BY SocketAssumption DEF SocketInv, TypeOK, MaybeProc, Steps, Paths, TakeLock, Goes
<1>2. HoldsLock'
  BY <1>1, SocketAssumption
     DEF SocketInv, TypeOK, MaybeProc, HoldsLock, Works, Listening, TakeLock, Goes
<1>3. OneClaim'
  <2> SUFFICES ASSUME ~breached', NEW x \in Paths, NEW a \in Procs, NEW b \in Procs,
                      Claims(a, x)', Claims(b, x)', a = p \/ Claims(a, x), b = p \/ Claims(b, x)
               PROVE  a = b
    BY SocketAssumption DEF SocketInv, TypeOK, OneClaim, Claims, Works, Listening, TakeLock, Goes
  <2>1. ~breached /\ ~Unproven(p)
    BY DEF TakeLock, SocketInv, TypeOK
  <2>2. ASSUME Claims(p, x)'
        PROVE  x = path[p]
    BY <2>2 DEF SocketInv, Order, Early, Paths, Claims, Works, TakeLock, Goes
  <2>3. ASSUME NEW c \in Procs, Claims(c, path[p]) PROVE FALSE
    <3>1. fd[c] = fd[p]
      BY <2>1, <2>3 DEF Unproven
    <3>2. flock[fd[c]] = c
      BY <2>3 DEF SocketInv, HoldsLock, Claims, Works
    <3> QED BY <3>1, <3>2, SocketAssumption DEF TakeLock
  <2> QED BY <2>1, <2>2, <2>3 DEF SocketInv, OneClaim
<1>4. NoOther'
  BY <1>1, SocketAssumption
     DEF SocketInv, TypeOK, Paths, OneClaim, NoOther, Claims, Works, Listening, Order, Early,
         TakeLock, Goes
<1>5. KnowsOwn'
  BY <1>1, SocketAssumption
     DEF SocketInv, TypeOK, NoOther, KnowsOwn, Listening, Order, Early, TakeLock, Goes
<1>6. \A r \in Procs : Order(r)'
  BY <1>1, SocketAssumption DEF SocketInv, TypeOK, MaybeProc, Paths, Order, Early, TakeLock, Goes
<1> QED BY <1>1, <1>2, <1>3, <1>4, <1>5, <1>6 DEF SocketInv

(* The lock is held. *)
LEMMA RunningKeeps ==
    ASSUME SocketInv, NEW p \in Procs, Running(p)
    PROVE  SocketInv'
<1>1. TypeOK'
  BY SocketAssumption DEF SocketInv, TypeOK, MaybeProc, Steps, Paths, Running, Goes, Dead
<1>2. HoldsLock'
  BY <1>1, SocketAssumption
     DEF SocketInv, TypeOK, MaybeProc, HoldsLock, Works, Listening, Running, Goes, Dead
<1>3. OneClaim'
  BY <1>1, SocketAssumption
     DEF SocketInv, TypeOK, MaybeProc, OneClaim, Claims, Works, Listening, Running, Goes, Dead
<1>4. NoOther'
  BY <1>1, SocketAssumption
     DEF SocketInv, TypeOK, Paths, OneClaim, NoOther, Claims, Works, Listening, Running, Goes, Dead
<1>5. KnowsOwn'
  BY <1>1, SocketAssumption DEF SocketInv, TypeOK, NoOther, KnowsOwn, Listening, Running, Goes, Dead
<1>6. \A r \in Procs : Order(r)'
  BY <1>1, SocketAssumption DEF SocketInv, TypeOK, MaybeProc, Paths, Order, Early, Running, Goes, Dead
<1> QED BY <1>1, <1>2, <1>3, <1>4, <1>5, <1>6 DEF SocketInv

(* It looks at the path. *)
LEMMA InspectKeeps ==
    ASSUME SocketInv, NEW p \in Procs, Inspect(p)
    PROVE  SocketInv'
<1>1. TypeOK'
  BY SocketAssumption DEF SocketInv, TypeOK, MaybeProc, Steps, Paths, Inspect, Goes
<1>2. HoldsLock'
  BY <1>1, SocketAssumption DEF SocketInv, TypeOK, MaybeProc, HoldsLock, Works, Listening, Inspect, Goes
<1>3. OneClaim'
  BY <1>1, SocketAssumption
     DEF SocketInv, TypeOK, MaybeProc, OneClaim, Claims, Works, Listening, Inspect, Goes
<1>4. NoOther'
  BY <1>1, SocketAssumption
     DEF SocketInv, TypeOK, Paths, OneClaim, NoOther, Claims, Works, Listening, Inspect, Goes
<1>5. KnowsOwn'
  BY <1>1, SocketAssumption DEF SocketInv, TypeOK, NoOther, KnowsOwn, Listening, Inspect, Goes
<1>6. \A r \in Procs : Order(r)'
  BY <1>1, SocketAssumption DEF SocketInv, TypeOK, MaybeProc, Paths, Order, Early, Inspect, Goes
<1> QED BY <1>1, <1>2, <1>3, <1>4, <1>5, <1>6 DEF SocketInv

(* A dead socket is removed. *)
LEMMA RemoveDeadKeeps ==
    ASSUME SocketInv, NEW p \in Procs, RemoveDead(p)
    PROVE  SocketInv'
<1>1. TypeOK'
  BY SocketAssumption DEF SocketInv, TypeOK, MaybeProc, Steps, Paths, RemoveDead, Goes, Dead
<1>2. HoldsLock'
  BY <1>1, SocketAssumption
     DEF SocketInv, TypeOK, MaybeProc, HoldsLock, Works, Listening, RemoveDead, Goes, Dead
<1>3. OneClaim'
  BY <1>1, SocketAssumption
     DEF SocketInv, TypeOK, MaybeProc, OneClaim, Claims, Works, Listening, RemoveDead, Goes, Dead
<1>4. NoOther'
  BY <1>1, SocketAssumption
     DEF SocketInv, TypeOK, Paths, OneClaim, NoOther, Claims, Works, Listening, RemoveDead, Goes,
         Dead
<1>5. KnowsOwn'
  BY <1>1, SocketAssumption DEF SocketInv, TypeOK, NoOther, KnowsOwn, Listening, RemoveDead, Goes, Dead
<1>6. \A r \in Procs : Order(r)'
  BY <1>1, SocketAssumption
     DEF SocketInv, TypeOK, MaybeProc, Paths, Order, Early, RemoveDead, Goes, Dead
<1> QED BY <1>1, <1>2, <1>3, <1>4, <1>5, <1>6 DEF SocketInv

(* It binds its socket; nobody else works there. *)
LEMMA BindKeeps ==
    ASSUME SocketInv, NEW p \in Procs, Bind(p)
    PROVE  SocketInv'
<1>1. TypeOK'
  BY SocketAssumption DEF SocketInv, TypeOK, MaybeProc, Steps, Paths, Bind, Goes, Dead
<1>2. HoldsLock'
  BY <1>1, SocketAssumption
     DEF SocketInv, TypeOK, MaybeProc, HoldsLock, Works, Listening, Bind, Goes, Dead
<1>3. OneClaim'
  BY <1>1, SocketAssumption
     DEF SocketInv, TypeOK, MaybeProc, OneClaim, Claims, Works, Listening, Order, Early, Bind, Goes,
         Dead
<1>4. NoOther'
  BY <1>1, SocketAssumption
     DEF SocketInv, TypeOK, Paths, OneClaim, NoOther, Claims, Works, Listening, Order, Early, Bind,
         Goes, Dead
<1>5. KnowsOwn'
  BY <1>1, SocketAssumption
     DEF SocketInv, TypeOK, NoOther, KnowsOwn, Listening, Order, Early, Bind, Goes, Dead
<1>6. \A r \in Procs : Order(r)'
  BY <1>1, SocketAssumption DEF SocketInv, TypeOK, MaybeProc, Paths, Order, Early, Bind, Goes, Dead
<1> QED BY <1>1, <1>2, <1>3, <1>4, <1>5, <1>6 DEF SocketInv

(* The socket at the path is its own. *)
LEMMA OwnKeeps ==
    ASSUME SocketInv, NEW p \in Procs, Own(p)
    PROVE  SocketInv'
<1>1. TypeOK'
  BY SocketAssumption DEF SocketInv, TypeOK, MaybeProc, Steps, Paths, Own, Goes, Dead
<1>2. HoldsLock'
  BY <1>1, SocketAssumption
     DEF SocketInv, TypeOK, MaybeProc, HoldsLock, Works, Listening, Own, Goes, Dead
<1>3. OneClaim'
  BY <1>1, SocketAssumption
     DEF SocketInv, TypeOK, MaybeProc, OneClaim, Claims, Works, Listening, Order, Early, Own, Goes,
         Dead
<1>4. NoOther'
  BY <1>1, SocketAssumption
     DEF SocketInv, TypeOK, Paths, OneClaim, NoOther, Claims, Works, Listening, Order, Early, Own,
         Goes, Dead
<1>5. KnowsOwn'
  BY <1>1, SocketAssumption
     DEF SocketInv, TypeOK, NoOther, KnowsOwn, Listening, Order, Early, Own, Goes, Dead
<1>6. \A r \in Procs : Order(r)'
  BY <1>1, SocketAssumption DEF SocketInv, TypeOK, MaybeProc, Paths, Order, Early, Own, Goes, Dead
<1> QED BY <1>1, <1>2, <1>3, <1>4, <1>5, <1>6 DEF SocketInv

(* A successor's socket was moved to the vault's path, which it claims since. *)
LEMMA TakeOverKeeps ==
    ASSUME SocketInv, NEW p \in Procs, TakeOver(p)
    PROVE  SocketInv'
<1>1. TypeOK'
  BY SocketAssumption DEF SocketInv, TypeOK, MaybeProc, Steps, Paths, TakeOver, Goes
<1>2. HoldsLock'
  BY <1>1, SocketAssumption
     DEF SocketInv, TypeOK, MaybeProc, HoldsLock, Works, Listening, TakeOver, Goes
<1>3. OneClaim'
  BY <1>1, SocketAssumption
     DEF SocketInv, TypeOK, MaybeProc, OneClaim, Claims, Works, Listening, Order, Early, KnowsOwn,
         Paths, TakeOver, Goes
<1>4. NoOther'
  BY <1>1, SocketAssumption
     DEF SocketInv, TypeOK, Paths, OneClaim, NoOther, Claims, Works, Listening, Order, Early,
         KnowsOwn, Paths, TakeOver, Goes
<1>5. KnowsOwn'
  BY <1>1, SocketAssumption
     DEF SocketInv, TypeOK, NoOther, KnowsOwn, Listening, Order, Early, TakeOver, Goes
<1>6. \A r \in Procs : Order(r)'
  BY <1>1, SocketAssumption DEF SocketInv, TypeOK, MaybeProc, Paths, Order, Early, TakeOver, Goes
<1> QED BY <1>1, <1>2, <1>3, <1>4, <1>5, <1>6 DEF SocketInv

(* A server stops. *)
LEMMA CloseKeeps ==
    ASSUME SocketInv, NEW p \in Procs, Close(p)
    PROVE  SocketInv'
<1>1. TypeOK'
  BY SocketAssumption DEF SocketInv, TypeOK, MaybeProc, Steps, Paths, Close, Goes
<1>2. HoldsLock'
  BY <1>1, SocketAssumption DEF SocketInv, TypeOK, MaybeProc, HoldsLock, Works, Listening, Close, Goes
<1>3. OneClaim'
  BY <1>1, SocketAssumption
     DEF SocketInv, TypeOK, MaybeProc, OneClaim, Claims, Works, Listening, Order, Early, Close, Goes
<1>4. NoOther'
  BY <1>1, SocketAssumption
     DEF SocketInv, TypeOK, Paths, OneClaim, NoOther, Claims, Works, Listening, Order, Early, Close,
         Goes
<1>5. KnowsOwn'
  BY <1>1, SocketAssumption
     DEF SocketInv, TypeOK, NoOther, KnowsOwn, Listening, Order, Early, Close, Goes
<1>6. \A r \in Procs : Order(r)'
  BY <1>1, SocketAssumption DEF SocketInv, TypeOK, MaybeProc, Paths, Order, Early, Close, Goes
<1> QED BY <1>1, <1>2, <1>3, <1>4, <1>5, <1>6 DEF SocketInv

(* A server looks for its socket. *)
LEMMA WatchKeeps ==
    ASSUME SocketInv, NEW p \in Procs, Watch(p)
    PROVE  SocketInv'
<1>1. TypeOK'
  BY SocketAssumption DEF SocketInv, TypeOK, MaybeProc, Steps, Paths, Watch
<1>2. HoldsLock'
  BY <1>1, SocketAssumption DEF SocketInv, TypeOK, MaybeProc, HoldsLock, Works, Listening, Watch
<1>3. OneClaim'
  BY <1>1, SocketAssumption DEF SocketInv, TypeOK, MaybeProc, OneClaim, Claims, Works, Listening, Watch
<1>4. NoOther'
  BY <1>1, SocketAssumption
     DEF SocketInv, TypeOK, Paths, OneClaim, NoOther, Claims, Works, Listening, Watch
<1>5. KnowsOwn'
  BY <1>1, SocketAssumption DEF SocketInv, TypeOK, NoOther, KnowsOwn, Listening, Watch
<1>6. \A r \in Procs : Order(r)'
  BY <1>1, SocketAssumption DEF SocketInv, TypeOK, MaybeProc, Paths, Order, Early, Watch
<1> QED BY <1>1, <1>2, <1>3, <1>4, <1>5, <1>6 DEF SocketInv

(* It removes its socket. *)
LEMMA UnlinkKeeps ==
    ASSUME SocketInv, NEW p \in Procs, Unlink(p)
    PROVE  SocketInv'
<1>1. TypeOK'
  BY SocketAssumption DEF SocketInv, TypeOK, MaybeProc, Steps, Paths, Unlink, Goes
<1>2. HoldsLock'
  BY <1>1, SocketAssumption DEF SocketInv, TypeOK, MaybeProc, HoldsLock, Works, Listening, Unlink, Goes
<1>3. OneClaim'
  BY <1>1, SocketAssumption
     DEF SocketInv, TypeOK, MaybeProc, OneClaim, Claims, Works, Listening, Unlink, Goes
<1>4. NoOther'
  BY <1>1, SocketAssumption
     DEF SocketInv, TypeOK, Paths, OneClaim, NoOther, Claims, Works, Listening, Unlink, Goes
<1>5. KnowsOwn'
  BY <1>1, SocketAssumption DEF SocketInv, TypeOK, NoOther, KnowsOwn, Listening, Unlink, Goes
<1>6. \A r \in Procs : Order(r)'
  BY <1>1, SocketAssumption DEF SocketInv, TypeOK, MaybeProc, Paths, Order, Early, Unlink, Goes
<1> QED BY <1>1, <1>2, <1>3, <1>4, <1>5, <1>6 DEF SocketInv

(* It stops listening. *)
LEMMA UnlistenKeeps ==
    ASSUME SocketInv, NEW p \in Procs, Unlisten(p)
    PROVE  SocketInv'
<1>1. TypeOK'
  BY SocketAssumption DEF SocketInv, TypeOK, MaybeProc, Steps, Paths, Unlisten, Goes
<1>2. HoldsLock'
  BY <1>1, SocketAssumption
     DEF SocketInv, TypeOK, MaybeProc, HoldsLock, Works, Listening, Unlisten, Goes
<1>3. OneClaim'
  BY <1>1, SocketAssumption
     DEF SocketInv, TypeOK, MaybeProc, OneClaim, Claims, Works, Listening, Unlisten, Goes
<1>4. NoOther'
  BY <1>1, SocketAssumption
     DEF SocketInv, TypeOK, Paths, OneClaim, NoOther, Claims, Works, Listening, Unlisten, Goes
<1>5. KnowsOwn'
  BY <1>1, SocketAssumption DEF SocketInv, TypeOK, NoOther, KnowsOwn, Listening, Unlisten, Goes
<1>6. \A r \in Procs : Order(r)'
  BY <1>1, SocketAssumption DEF SocketInv, TypeOK, MaybeProc, Paths, Order, Early, Unlisten, Goes
<1> QED BY <1>1, <1>2, <1>3, <1>4, <1>5, <1>6 DEF SocketInv

(* It lets go of the lock. *)
LEMMA ReleaseLockKeeps ==
    ASSUME SocketInv, NEW p \in Procs, ReleaseLock(p)
    PROVE  SocketInv'
<1>1. TypeOK'
  BY SocketAssumption DEF SocketInv, TypeOK, MaybeProc, Steps, Paths, ReleaseLock, Goes
<1>2. HoldsLock'
  BY <1>1, SocketAssumption
     DEF SocketInv, TypeOK, MaybeProc, HoldsLock, Works, Listening, ReleaseLock, Goes
<1>3. OneClaim'
  BY <1>1, SocketAssumption
     DEF SocketInv, TypeOK, MaybeProc, OneClaim, Claims, Works, Listening, ReleaseLock, Goes
<1>4. NoOther'
  BY <1>1, SocketAssumption
     DEF SocketInv, TypeOK, Paths, OneClaim, NoOther, Claims, Works, Listening, ReleaseLock, Goes
<1>5. KnowsOwn'
  BY <1>1, SocketAssumption DEF SocketInv, TypeOK, NoOther, KnowsOwn, Listening, ReleaseLock, Goes
<1>6. \A r \in Procs : Order(r)'
  BY <1>1, SocketAssumption DEF SocketInv, TypeOK, MaybeProc, Paths, Order, Early, ReleaseLock, Goes
<1> QED BY <1>1, <1>2, <1>3, <1>4, <1>5, <1>6 DEF SocketInv

(* It ends. *)
LEMMA EndKeeps ==
    ASSUME SocketInv, NEW p \in Procs, End(p)
    PROVE  SocketInv'
<1>1. TypeOK'
  BY SocketAssumption DEF SocketInv, TypeOK, MaybeProc, Steps, Paths, End, Goes, Dead
<1>2. HoldsLock'
  BY <1>1, SocketAssumption
     DEF SocketInv, TypeOK, MaybeProc, HoldsLock, Works, Listening, End, Goes, Dead
<1>3. OneClaim'
  BY <1>1, SocketAssumption
     DEF SocketInv, TypeOK, MaybeProc, OneClaim, Claims, Works, Listening, End, Goes, Dead
<1>4. NoOther'
  BY <1>1, SocketAssumption
     DEF SocketInv, TypeOK, Paths, OneClaim, NoOther, Claims, Works, Listening, End, Goes, Dead
<1>5. KnowsOwn'
  BY <1>1, SocketAssumption DEF SocketInv, TypeOK, NoOther, KnowsOwn, Listening, End, Goes, Dead
<1>6. \A r \in Procs : Order(r)'
  BY <1>1, SocketAssumption DEF SocketInv, TypeOK, MaybeProc, Paths, Order, Early, End, Goes, Dead
<1> QED BY <1>1, <1>2, <1>3, <1>4, <1>5, <1>6 DEF SocketInv

(* It is killed. *)
LEMMA CrashKeeps ==
    ASSUME SocketInv, NEW p \in Procs, Crash(p)
    PROVE  SocketInv'
<1>1. TypeOK'
  BY SocketAssumption DEF SocketInv, TypeOK, MaybeProc, Steps, Paths, Crash, Goes, Dead, Live
<1>2. HoldsLock'
  BY <1>1, SocketAssumption
     DEF SocketInv, TypeOK, MaybeProc, HoldsLock, Works, Listening, Crash, Goes, Dead, Live
<1>3. OneClaim'
  BY <1>1, SocketAssumption
     DEF SocketInv, TypeOK, MaybeProc, OneClaim, Claims, Works, Listening, Order, Early, Crash,
         Goes, Dead, Live
<1>4. NoOther'
  BY <1>1, SocketAssumption
     DEF SocketInv, TypeOK, Paths, OneClaim, NoOther, Claims, Works, Listening, Order, Early, Crash,
         Goes, Dead, Live
<1>5. KnowsOwn'
  BY <1>1, SocketAssumption
     DEF SocketInv, TypeOK, NoOther, KnowsOwn, Listening, Order, Early, Crash, Goes, Dead, Live
<1>6. \A r \in Procs : Order(r)'
  BY <1>1, SocketAssumption
     DEF SocketInv, TypeOK, MaybeProc, Paths, Order, Early, Crash, Goes, Dead, Live
<1> QED BY <1>1, <1>2, <1>3, <1>4, <1>5, <1>6 DEF SocketInv

(* A successor is started. *)
LEMMA StartSuccessorKeeps ==
    ASSUME SocketInv, NEW p \in Procs, NEW q \in Procs, StartSuccessor(p, q)
    PROVE  SocketInv'
<1>1. TypeOK'
  BY SocketAssumption DEF SocketInv, TypeOK, MaybeProc, Steps, Paths, StartSuccessor, Goes, SwapStep
<1>2. HoldsLock'
  BY <1>1, SocketAssumption
     DEF SocketInv, TypeOK, MaybeProc, HoldsLock, Works, Listening, StartSuccessor, Goes, SwapStep
<1>3. OneClaim'
  BY <1>1, SocketAssumption
     DEF SocketInv, TypeOK, MaybeProc, OneClaim, Claims, Works, Listening, StartSuccessor, Goes,
         SwapStep
<1>4. NoOther'
  BY <1>1, SocketAssumption
     DEF SocketInv, TypeOK, Paths, OneClaim, NoOther, Claims, Works, Listening, StartSuccessor,
         Goes, SwapStep
<1>5. KnowsOwn'
  BY <1>1, SocketAssumption
     DEF SocketInv, TypeOK, NoOther, KnowsOwn, Listening, StartSuccessor, Goes, SwapStep
<1>6. \A r \in Procs : Order(r)'
  BY <1>1, SocketAssumption
     DEF SocketInv, TypeOK, MaybeProc, Paths, Order, Early, StartSuccessor, Goes, SwapStep
<1> QED BY <1>1, <1>2, <1>3, <1>4, <1>5, <1>6 DEF SocketInv

(* It is ready. *)
LEMMA SuccessorReadyKeeps ==
    ASSUME SocketInv, NEW p \in Procs, SuccessorReady(p)
    PROVE  SocketInv'
<1>1. TypeOK'
  BY SocketAssumption
     DEF SocketInv, TypeOK, MaybeProc, Steps, Paths, SuccessorReady, Goes, Live, SwapStep
<1>2. HoldsLock'
  BY <1>1, SocketAssumption
     DEF SocketInv, TypeOK, MaybeProc, HoldsLock, Works, Listening, SuccessorReady, Goes, Live,
         SwapStep
<1>3. OneClaim'
  BY <1>1, SocketAssumption
     DEF SocketInv, TypeOK, MaybeProc, OneClaim, Claims, Works, Listening, SuccessorReady, Goes,
         Live, SwapStep
<1>4. NoOther'
  BY <1>1, SocketAssumption
     DEF SocketInv, TypeOK, Paths, OneClaim, NoOther, Claims, Works, Listening, SuccessorReady,
         Goes, Live, SwapStep
<1>5. KnowsOwn'
  BY <1>1, SocketAssumption
     DEF SocketInv, TypeOK, NoOther, KnowsOwn, Listening, SuccessorReady, Goes, Live, SwapStep
<1>6. \A r \in Procs : Order(r)'
  BY <1>1, SocketAssumption
     DEF SocketInv, TypeOK, MaybeProc, Paths, Order, Early, SuccessorReady, Goes, Live, SwapStep
<1> QED BY <1>1, <1>2, <1>3, <1>4, <1>5, <1>6 DEF SocketInv

(* Its lock file is moved. *)
LEMMA MoveLockKeeps ==
    ASSUME SocketInv, NEW p \in Procs, MoveLock(p)
    PROVE  SocketInv'
<1>1. TypeOK'
  BY SocketAssumption DEF SocketInv, TypeOK, MaybeProc, Steps, Paths, MoveLock, Goes, SwapStep
<1>2. HoldsLock'
  BY <1>1, SocketAssumption
     DEF SocketInv, TypeOK, MaybeProc, HoldsLock, Works, Listening, MoveLock, Goes, SwapStep
<1>3. OneClaim'
  BY <1>1, SocketAssumption
     DEF SocketInv, TypeOK, MaybeProc, OneClaim, Claims, Works, Listening, Order, Early, Paths,
         MoveLock, Goes, SwapStep
<1>4. NoOther'
  BY <1>1, SocketAssumption
     DEF SocketInv, TypeOK, Paths, OneClaim, NoOther, Claims, Works, Listening, Order, Early,
         MoveLock, Goes, SwapStep
<1>5. KnowsOwn'
  BY <1>1, SocketAssumption
     DEF SocketInv, TypeOK, NoOther, KnowsOwn, Listening, Order, Early, MoveLock, Goes, SwapStep
<1>6. \A r \in Procs : Order(r)'
  BY <1>1, SocketAssumption
     DEF SocketInv, TypeOK, MaybeProc, Paths, Order, Early, MoveLock, Goes, SwapStep
<1> QED BY <1>1, <1>2, <1>3, <1>4, <1>5, <1>6 DEF SocketInv

(* Its socket is moved: the predecessor alone worked at the vault's path,   *)
(* and gives it up.                                                          *)
LEMMA MoveSocketKeeps ==
    ASSUME SocketInv, NEW p \in Procs, MoveSocket(p)
    PROVE  SocketInv'
<1>1. TypeOK'
  BY SocketAssumption DEF SocketInv, TypeOK, MaybeProc, Steps, Paths, MoveSocket, Goes, Live, SwapStep
<1>2. HoldsLock'
  BY <1>1, SocketAssumption
     DEF SocketInv, TypeOK, MaybeProc, HoldsLock, Works, Listening, MoveSocket, Goes, Live, SwapStep
<1>3. OneClaim'
  <2> SUFFICES ASSUME ~breached, NEW x \in Paths, NEW a \in Procs, NEW b \in Procs,
                      Claims(a, x)', Claims(b, x)'
               PROVE  a = b
    BY DEF OneClaim, MoveSocket
  <2>1. Claims(p, "socket")
    BY DEF SocketInv, Order, MoveSocket, Live, Claims, Works, Listening
  <2>2. ASSUME NEW c \in Procs, Claims(c, "socket")'
        PROVE  c = files["next"]
    <3>1. c # p /\ (c = files["next"] \/ Claims(c, "socket"))
      BY <2>2 DEF SocketInv, TypeOK, Paths, MoveSocket, Claims, Works, Listening
    <3> QED BY <2>1, <3>1 DEF SocketInv, OneClaim, Paths
  <2>3. ASSUME NEW c \in Procs, Claims(c, "next")'
        PROVE  Claims(c, "next")
    BY <2>3, SocketAssumption DEF SocketInv, TypeOK, Paths, MoveSocket, Claims, Works, Listening
  <2> QED BY <2>2, <2>3 DEF SocketInv, OneClaim, Paths
<1>4. NoOther'
  <2> SUFFICES ASSUME ~breached, NEW c \in Procs, Listening(c)', ~handedOver'[c]
               PROVE  files'[path[c]] \in {c, None}
    BY DEF NoOther, MoveSocket
  <2>1. Claims(p, "socket")
    BY DEF SocketInv, Order, MoveSocket, Live, Claims, Works, Listening
  <2>2. path[c] = "next"
    BY <2>1 DEF SocketInv, TypeOK, Paths, OneClaim, Claims, Works, Listening, MoveSocket
  <2> QED BY <2>2 DEF SocketInv, TypeOK, Paths, MoveSocket
<1>5. KnowsOwn'
  BY <1>1, SocketAssumption
     DEF SocketInv, TypeOK, NoOther, KnowsOwn, Listening, Order, Early, MoveSocket, Goes, Live,
         SwapStep
<1>6. \A r \in Procs : Order(r)'
  BY <1>1, SocketAssumption
     DEF SocketInv, TypeOK, MaybeProc, Paths, Order, Early, MoveSocket, Goes, Live, SwapStep
<1> QED BY <1>1, <1>2, <1>3, <1>4, <1>5, <1>6 DEF SocketInv

(* It is killed. *)
LEMMA SwapFailsKeeps ==
    ASSUME SocketInv, NEW p \in Procs, SwapFails(p)
    PROVE  SocketInv'
<1>1. TypeOK'
  BY SocketAssumption
     DEF SocketInv, TypeOK, MaybeProc, Steps, Paths, SwapFails, Goes, Dead, Live, SwapStep
<1>2. HoldsLock'
  BY <1>1, SocketAssumption
     DEF SocketInv, TypeOK, MaybeProc, HoldsLock, Works, Listening, SwapFails, Goes, Dead, Live,
         SwapStep
<1>3. OneClaim'
  BY <1>1, SocketAssumption
     DEF SocketInv, TypeOK, MaybeProc, OneClaim, Claims, Works, Listening, SwapFails, Goes, Dead,
         Live, SwapStep
<1>4. NoOther'
  BY <1>1, SocketAssumption
     DEF SocketInv, TypeOK, Paths, OneClaim, NoOther, Claims, Works, Listening, SwapFails, Goes,
         Dead, Live, SwapStep
<1>5. KnowsOwn'
  BY <1>1, SocketAssumption
     DEF SocketInv, TypeOK, NoOther, KnowsOwn, Listening, SwapFails, Goes, Dead, Live, SwapStep
<1>6. \A r \in Procs : Order(r)'
  BY <1>1, SocketAssumption
     DEF SocketInv, TypeOK, MaybeProc, Paths, Order, Early, SwapFails, Goes, Dead, Live, SwapStep
<1> QED BY <1>1, <1>2, <1>3, <1>4, <1>5, <1>6 DEF SocketInv

(* What it left is removed. *)
LEMMA RemoveNextKeeps ==
    ASSUME SocketInv, NEW p \in Procs, RemoveNext(p)
    PROVE  SocketInv'
<1>1. TypeOK'
  BY SocketAssumption DEF SocketInv, TypeOK, MaybeProc, Steps, Paths, RemoveNext, Goes, Live, SwapStep
<1>2. HoldsLock'
  BY <1>1, SocketAssumption
     DEF SocketInv, TypeOK, MaybeProc, HoldsLock, Works, Listening, RemoveNext, Goes, Live, SwapStep
<1>3. OneClaim'
  BY <1>1, SocketAssumption
     DEF SocketInv, TypeOK, MaybeProc, OneClaim, Claims, Works, Listening, RemoveNext, Goes, Live,
         SwapStep
<1>4. NoOther'
  BY <1>1, SocketAssumption
     DEF SocketInv, TypeOK, Paths, OneClaim, NoOther, Claims, Works, Listening, RemoveNext, Goes,
         Live, SwapStep
<1>5. KnowsOwn'
  BY <1>1, SocketAssumption
     DEF SocketInv, TypeOK, NoOther, KnowsOwn, Listening, RemoveNext, Goes, Live, SwapStep
<1>6. \A r \in Procs : Order(r)'
  BY <1>1, SocketAssumption
     DEF SocketInv, TypeOK, MaybeProc, Paths, Order, Early, RemoveNext, Goes, Live, SwapStep
<1> QED BY <1>1, <1>2, <1>3, <1>4, <1>5, <1>6 DEF SocketInv

---------------------------------------------------------------------------
(* It holds at first. *)
LEMMA InitSocket == Init => SocketInv
<1> SUFFICES ASSUME Init PROVE SocketInv
  OBVIOUS
<1>1. TypeOK
  BY DEF Init, TypeOK, MaybeProc, Steps, Paths
<1>2. HoldsLock /\ OneClaim /\ NoOther /\ KnowsOwn
  BY DEF Init, HoldsLock, OneClaim, Claims, Works, NoOther, Listening, KnowsOwn
<1>3. \A p \in Procs : Order(p)
  BY SocketAssumption DEF Init, Order, Early, Paths
<1> QED BY <1>1, <1>2, <1>3 DEF SocketInv

(* A step that changes nothing. *)
LEMMA StutterKeeps ==
    ASSUME SocketInv, UNCHANGED vars
    PROVE  SocketInv'
<1> USE DEF vars
<1>1. TypeOK' /\ HoldsLock' /\ KnowsOwn'
  BY DEF SocketInv, TypeOK, MaybeProc, HoldsLock, Works, KnowsOwn, Listening
<1>2. OneClaim' /\ NoOther'
  BY DEF SocketInv, OneClaim, Claims, Works, NoOther, Listening
<1>3. \A p \in Procs : Order(p)'
  BY DEF SocketInv, Order
<1> QED BY <1>1, <1>2, <1>3 DEF SocketInv

(* Every step of the system keeps it: SocketGone, AwaitFails and            *)
(* HandoverEnds are Close.                                                  *)
LEMMA StepKeeps ==
    ASSUME SocketInv, [Next]_vars
    PROVE  SocketInv'
<1>1. CASE UNCHANGED vars
  BY <1>1, StutterKeeps
<1>2. ASSUME NEW p \in Procs, Listen(p)
      PROVE  SocketInv'
  BY <1>2, OpenLockKeeps, TakeLockKeeps, RunningKeeps, InspectKeeps, RemoveDeadKeeps, BindKeeps, OwnKeeps
     DEF Listen
<1>3. ASSUME NEW p \in Procs, Runs(p)
      PROVE  SocketInv'
  BY <1>2, <1>3, TakeOverKeeps, CloseKeeps, WatchKeeps, UnlinkKeeps, UnlistenKeeps, ReleaseLockKeeps, EndKeeps
     DEF Runs, AwaitFails, SocketGone
<1>4. ASSUME NEW p \in Procs, Handover(p)
      PROVE  SocketInv'
  BY <1>4, SuccessorReadyKeeps, MoveLockKeeps, MoveSocketKeeps, SwapFailsKeeps, RemoveNextKeeps, CloseKeeps
     DEF Handover, HandoverEnds
<1>5. CASE Next
  BY <1>3, <1>4, <1>5, UnlockKeeps, CloseKeeps, CrashKeeps, StartSuccessorKeeps DEF Next
<1> QED BY <1>1, <1>5

LEMMA AlwaysSocketInv == Spec => []SocketInv
<1>1. Init => SocketInv
  BY InitSocket
<1>2. SocketInv /\ [Next]_vars => SocketInv'
  BY StepKeeps
<1> QED BY <1>1, <1>2, PTL DEF Spec

(* The state of the files and processes has the types stated. *)
THEOREM SocketTypeCorrect == Spec => []TypeOK
<1>1. SocketInv => TypeOK
  BY DEF SocketInv
<1> QED BY <1>1, AlwaysSocketInv, PTL

(* However many processes start, hand over and die, one of them serves the  *)
(* vault's path (Listen, Close, handOver), until a lock was taken that      *)
(* proves nothing.                                                          *)
THEOREM SocketExclusive == Spec => []Exclusive
<1>1. SocketInv => Exclusive
  BY DEF SocketInv, OneClaim, Claims, Works, Exclusive, Serves, Paths
<1> QED BY <1>1, AlwaysSocketInv, PTL

(* What a closing process removes by name is its own socket                 *)
(* (lockedListener.Close), under the same condition.                        *)
THEOREM SocketRemovesOwn == Spec => []RemovesOwnOnly
<1>1. SocketInv => RemovesOwnOnly
  BY DEF SocketInv, NoOther, Order, Listening, RemovesOwnOnly
<1> QED BY <1>1, AlwaysSocketInv, PTL
=============================================================================
