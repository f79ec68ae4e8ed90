------------------------ MODULE CredentialRename_proofs ------------------------
(***************************************************************************)
(* Theorems of CredentialRename.  RenameInv is inductive: VaultInv, which  *)
(* says what the files are while one program works on the vault and others *)
(* queue secrets, and PlanInv, which says what a plan rests on while it is *)
(* carried out.  One lemma per action; the value of a secret is followed   *)
(* in CredentialRename_secret.                                             *)
(***************************************************************************)
EXTENDS CredentialRename, TLAPS, WellFoundedInduction

(* Pending files have a last one, where there are any. *)
LEMMA Latest ==
    ASSUME NEW S \in SUBSET Ids, S # {}
    PROVE  \E i \in S : \A j \in S : j <= i
<1> DEFINE T == {MaxId - i : i \in S}
<1>1. T \in SUBSET Nat /\ T # {}
  <2>1. MaxId \in Nat
    BY FilesAssumption
  <2>2. \A i \in S : i \in 1..MaxId /\ MaxId - i \in Nat
    BY <2>1 DEF Ids
  <2> QED BY <2>2
<1>2. PICK t \in T : \A u \in T : ~(<<u, t>> \in OpToRel(<, Nat))
  BY <1>1, WFMin, NatLessThanWellFounded
<1>3. PICK i \in S : t = (MaxId - i)
  OBVIOUS
<1>4. ASSUME NEW j \in S
      PROVE  j <= i
  <2>1. (MaxId - j) \in T /\ (MaxId - j) \in Nat /\ (MaxId - i) \in Nat /\ i \in Nat /\ j \in Nat
    BY <1>1, FilesAssumption DEF Ids
  <2>2. ~(<<(MaxId - j), (MaxId - i)>> \in OpToRel(<, Nat))
    BY <1>2, <1>3, <2>1
  <2>3. ~((MaxId - j) < (MaxId - i))
    BY <2>1, <2>2 DEF OpToRel
  <2> QED
    BY FilesAssumption, <2>1, <2>3
<1> QED BY <1>4

(* What merge makes of a document is one. *)
LEMMA MergedTyped ==
    ASSUME NEW d \in Documents, NEW S \in SUBSET Ids,
           \A i \in S : pending[i] \in Payloads
    PROVE  MergedWith(d, S) \in Documents
<1> DEFINE Mine(n) == {i \in S : pending[i].name = n}
           Latest1(n) == CHOOSE i \in Mine(n) : \A j \in Mine(n) : j <= i
<1>1. ASSUME NEW n \in Names, Mine(n) # {}
      PROVE  pending[Latest1(n)].val \in Values
  <2>1. Mine(n) \in SUBSET Ids
    OBVIOUS
  <2>2. \E i \in Mine(n) : \A j \in Mine(n) : j <= i
    BY <1>1, <2>1, Latest
  <2>3. Latest1(n) \in Mine(n)
    BY <2>2
  <2> QED BY <2>3 DEF Payloads
<1>2. ASSUME NEW n \in Names
      PROVE  (IF Mine(n) = {} THEN d[n] ELSE [d[n] EXCEPT !.val = pending[Latest1(n)].val])
                \in [val : Roles, mark : BOOLEAN]
  BY SMTT(30), <1>1 DEF Documents, Roles
<1> QED BY <1>2 DEF MergedWith, Documents

---------------------------------------------------------------------------
(* The inductive invariant: what the files are while programs work.        *)

Locked == plain = NoFile /\ keyFile # NoFile
NotLocked == plain # NoFile \/ keyFile = NoFile

Opening == {"listing", "merging", "merged", "clearing"}
Removing == {"removeSecrets", "removeKey", "removeRecipient"}

Keyed == Opening \cup {"queueing", "writeKey", "writeSecrets", "removePlain"}

(* A vault, once created, never looks absent again. *)
Exists == plain # NoFile \/ keyFile # NoFile

(* A program that is at a step knows what the files were when it came to    *)
(* it, and nobody else has changed that.  What a program that queues read   *)
(* may be old.                                                              *)
StepOK(p) ==
    /\ step[p] = "idle" => job[p].op = "get"
    /\ key[p] # 0 => step[p] \in Keyed
    /\ step[p] = "queueing" => Exists /\ job[p].op = "set" /\ job[p].val \in Values
    /\ step[p] = "loaded" => plain # NoFile /\ unlocked[p] = 0 /\ job[p].op \in {"set", "delete"}
    /\ step[p] \in {"open"} \cup Opening =>
          /\ job[p].op \in {"get", "delete", "decrypt"}
          /\ Locked \/ (job[p].op = "decrypt" /\ unlocked[p] # 0 /\ plain # NoFile)
    /\ step[p] \in Opening => keyFile # NoFile /\ key[p] = keyFile
    /\ step[p] \in {"writeRecipient", "writeKey"} =>
          /\ unlocked[p] = 0
          /\ NotLocked
          /\ (job[p].op = "set" /\ plain = NoFile) \/ job[p].op = "encrypt"
    /\ step[p] = "writeKey" => recipient # NoFile /\ recipient = key[p]
    /\ step[p] = "writeSecrets" =>
          \/ unlocked[p] # 0 /\ job[p].op \in {"set", "delete"}
          \/ /\ unlocked[p] = 0
             /\ keyFile # NoFile /\ keyFile = key[p] /\ recipient = key[p]
             /\ (job[p].op = "set" /\ plain = NoFile) \/ job[p].op = "encrypt"
    /\ step[p] = "removePlain" =>
          /\ keyFile # NoFile /\ keyFile = key[p] /\ recipient = key[p]
          /\ secrets # NoFile /\ secrets.key = key[p]
          /\ job[p].op = "encrypt"
    /\ step[p] = "writePlain" =>
          \/ job[p].op = "decrypt" /\ Exists /\ unlocked[p] # 0
          \/ job[p].op = "set" /\ plain = NoFile /\ keyFile = NoFile /\ unlocked[p] = 0
    /\ step[p] \in Removing => plain # NoFile /\ job[p].op = "decrypt"

(* What a program holds open is open, but where its Decrypt failed. *)
HoldsOpen(p) ==
    unlocked[p] # 0 /\ plain = NoFile => keyFile = unlocked[p] /\ recipient = unlocked[p]

OnlyQueues(p) == p \in Queuers => unlocked[p] = 0 /\ step[p] \in {"idle", "queueing"}

FilesAgree ==
    /\ ~Exists => secrets = NoFile /\ Queued = {}
    /\ plain # NoFile => stranded \/ Queued = {}

VaultInv ==
    /\ TypeOK
    /\ Openable
    /\ FilesAgree
    /\ \A p \in Programs : StepOK(p) /\ HoldsOpen(p) /\ OnlyQueues(p)

(* A step of VaultFiles notes what it strands. *)
Noted == stranded' = (stranded \/ Strands({i \in Ids : pending[i] = NoFile /\ pending'[i] # NoFile}))

---------------------------------------------------------------------------
(* The operators *)

Worker == Programs \ Queuers

Ops5 == {"set", "delete", "get", "encrypt", "decrypt"}
Jobs == [op : Ops5, name : Names, val : Roles]

(* An empty document is one. *)
LEMMA NoEntriesTyped == NoEntries \in Documents
BY DEF NoEntries, Documents, NoEntry, Roles

(* A program that is idle has a typed job. *)
LEMMA NoJobTyped == NoJob \in Jobs /\ NoJob.op = "get" /\ NoJob.name \in Names
BY FilesAssumption DEF NoJob, Roles, Jobs, Ops5

(* A document in which one entry was set or deleted is one. *)
LEMMA WithTyped ==
    ASSUME NEW d \in Documents, NEW n \in Names, NEW v \in Roles
    PROVE  With(d, n, v) \in Documents
BY DEF With, Documents, NoEntry, Roles

(* What an operation makes of the document is one. *)
LEMMA ResultTyped ==
    ASSUME TypeOK, NEW p \in Programs
    PROVE  Result(p) \in Documents
<1>1. doc[p] \in Documents /\ job[p].name \in Names /\ job[p].val \in Roles
  BY DEF TypeOK
<1> QED BY <1>1, WithTyped DEF Result

(* What an operation that begins leaves. *)
LEMMA BeginTyped ==
    ASSUME TypeOK, NEW p \in Programs, NEW o \in Ops5, NEW v \in Roles, Begin(p, o, v)
    PROVE  job' \in [Programs -> Jobs] /\ last' \subseteq Roles /\ may' \subseteq Roles
BY DEF TypeOK, Begin, Jobs, Ops5

(* What an operation that is over leaves to its program and to the others. *)
LEMMA StopsTyped ==
    ASSUME TypeOK, NEW p \in Programs, Stops(p)
    PROVE  /\ step' \in [Programs -> StepNames] /\ job' \in [Programs -> Jobs]
           /\ step'[p] = "idle" /\ job'[p].op = "get"
           /\ \A q \in Programs \ {p} : step'[q] = step[q] /\ job'[q] = job[q]
BY NoJobTyped DEF TypeOK, Stops, Goes, StepNames, Jobs, Ops5

(* What is acknowledged is a role's value. *)
LEMMA ReturnsTyped ==
    ASSUME TypeOK, NEW p \in Programs, Returns(p)
    PROVE  last' \subseteq Roles /\ may' \subseteq Roles /\ Stops(p)
<1>1. job[p].val \in Roles /\ \A i \in Queued : pending[i].val \in Roles
  BY DEF TypeOK, Queued, Files, Payloads, Roles
<1> QED BY <1>1 DEF TypeOK, Returns, history

(* Whoever queues has found a vault. *)
LEMMA Queueing ==
    ASSUME VaultInv, NEW q \in Queuers, step[q] = "queueing"
    PROVE  Exists
BY RenameAssumption DEF VaultInv, StepOK

(* What a worker's step leaves to the others. *)
OthersSame(p) ==
    /\ \A q \in Programs \ {p} :
          /\ step'[q] = step[q] /\ job'[q] = job[q] /\ key'[q] = key[q]
          /\ unlocked'[q] = unlocked[q]
    /\ Exists => Exists'

(* A worker's step that keeps its own part keeps the whole. *)
LEMMA OthersKeep ==
    ASSUME VaultInv, NEW p \in Worker, OthersSame(p),
           TypeOK', Openable', FilesAgree', (StepOK(p) /\ HoldsOpen(p) /\ OnlyQueues(p))'
    PROVE  VaultInv'
<1>1. ASSUME NEW q \in Programs, q # p
      PROVE  (StepOK(q) /\ HoldsOpen(q) /\ OnlyQueues(q))'
  <2>1. q \in Queuers /\ q \in Programs \ {p}
    BY <1>1, RenameAssumption DEF Worker
  <2>2. unlocked[q] = 0 /\ step[q] \in {"idle", "queueing"} /\ StepOK(q)
    BY <2>1 DEF VaultInv, OnlyQueues
  <2>3. step'[q] = step[q] /\ job'[q] = job[q] /\ key'[q] = key[q] /\ unlocked'[q] = unlocked[q]
    BY <2>1 DEF OthersSame
  <2>4. step[q] = "queueing" => Exists'
    BY <2>1, Queueing DEF OthersSame
  <2>5. StepOK(q)'
    BY <2>2, <2>3, <2>4 DEF StepOK, Opening, Removing, Keyed
  <2> QED
    BY <2>2, <2>3, <2>5 DEF HoldsOpen, OnlyQueues
<1> QED BY <1>1 DEF VaultInv

(* A program that is done knows nothing any more. *)
LEMMA IdleOK ==
    ASSUME NEW p \in Programs, step'[p] = "idle", job'[p].op = "get", key'[p] = 0
    PROVE  StepOK(p)'
BY DEF StepOK, Opening, Removing, Keyed

(* What an operation that failed leaves. *)
LEMMA FailsTyped ==
    ASSUME TypeOK, NEW p \in Programs, Fails(p), UNCHANGED <<doc, files, configured>>
    PROVE  TypeOK'
<1>1. names' \in [Programs -> SUBSET Ids]
  BY DEF TypeOK, Fails
<1>2. key' \in [Programs -> 0..MaxKey] /\ unlocked' = unlocked /\ last' = last /\ may' = may
  BY FilesAssumption DEF TypeOK, Fails, history
<1>3. step' \in [Programs -> StepNames] /\ job' \in [Programs -> Jobs]
  BY StopsTyped DEF Fails
<1> QED BY <1>1, <1>2, <1>3 DEF TypeOK, files, Jobs, Ops5

---------------------------------------------------------------------------
(* The steps of the worker: what they leave typed, what the files are,     *)
(* what the worker knows after, and that the others are not disturbed.     *)

LEMMA SetKeeps ==
    ASSUME VaultInv, NEW p \in Worker, NEW v \in Values, Set(p, v), configured' = configured, Noted
    PROVE  VaultInv'
<1> /\ p \in Programs /\ p \notin Queuers /\ TypeOK /\ StepOK(p) /\ HoldsOpen(p) /\ OnlyQueues(p)
    /\ stranded => stranded'
  BY DEF VaultInv, Worker, Noted
<1>1. TypeOK'
  <2>1. With(NoEntries, configured, v) \in Documents /\ With(doc[p], configured, v) \in Documents
    BY WithTyped, NoEntriesTyped DEF TypeOK, Roles
  <2>2. doc' \in [Programs -> Documents] /\ step' \in [Programs -> StepNames]
    BY ZenonT(60), <2>1 DEF TypeOK, Set, State, Goes, StepNames, Files
  <2>3. job' \in [Programs -> Jobs] /\ last' \subseteq Roles /\ may' \subseteq Roles
    BY BeginTyped DEF Set, Ops5, Roles
  <2> QED
    BY <2>2, <2>3 DEF TypeOK, Set, Begin, files, Jobs, Ops5
<1>2. Openable' /\ FilesAgree'
  BY DEF VaultInv, Openable, FilesAgree, Exists, Queued, Set, Begin, files
<1>3. (StepOK(p) /\ HoldsOpen(p) /\ OnlyQueues(p))'
  <2>1. StepOK(p)'
    BY ZenonT(60), FilesAssumption DEF Keys, TypeOK, StepOK, Exists, HoldsOpen, Locked, NotLocked, Opening, Removing,
       Keyed, Queued, Set, Begin,
           Goes, State, files
  <2>2. HoldsOpen(p)' /\ OnlyQueues(p)'
    BY DEF TypeOK, StepOK, Exists, HoldsOpen, OnlyQueues, Removing, Set, Begin, Goes, State, files
  <2> QED BY <2>1, <2>2
<1>4. OthersSame(p)
  BY DEF TypeOK, OthersSame, Exists, Locked, Set, Begin, Goes, State, files
<1> QED BY <1>1, <1>2, <1>3, <1>4, OthersKeep

LEMMA DeleteKeeps ==
    ASSUME VaultInv, NEW p \in Worker, Delete(p), configured' = configured, Noted
    PROVE  VaultInv'
<1> /\ p \in Programs /\ p \notin Queuers /\ TypeOK /\ StepOK(p) /\ HoldsOpen(p) /\ OnlyQueues(p)
    /\ stranded => stranded'
  BY DEF VaultInv, Worker, Noted
<1>1. TypeOK'
  <2>1. With(doc[p], configured, NoValue) \in Documents
    BY WithTyped, NoEntriesTyped DEF TypeOK, Roles
  <2>2. doc' \in [Programs -> Documents] /\ step' \in [Programs -> StepNames]
    BY ZenonT(60), <2>1 DEF TypeOK, Delete, State, Goes, StepNames, Files
  <2>3. job' \in [Programs -> Jobs] /\ last' \subseteq Roles /\ may' \subseteq Roles
    BY BeginTyped DEF Delete, Ops5, Roles
  <2> QED
    BY <2>2, <2>3 DEF TypeOK, Delete, Begin, files, Jobs, Ops5
<1>2. Openable' /\ FilesAgree'
  BY DEF VaultInv, Openable, FilesAgree, Exists, Queued, Delete, Begin, files
<1>3. (StepOK(p) /\ HoldsOpen(p) /\ OnlyQueues(p))'
  <2>1. StepOK(p)'
    BY ZenonT(60), FilesAssumption DEF Keys, TypeOK, StepOK, Exists, HoldsOpen, Locked, NotLocked, Opening, Removing,
       Keyed, Queued, Delete, Begin,
           Goes, State, files
  <2>2. HoldsOpen(p)' /\ OnlyQueues(p)'
    BY DEF TypeOK, StepOK, Exists, HoldsOpen, OnlyQueues, Removing, Delete, Begin, Goes, State, files
  <2> QED BY <2>1, <2>2
<1>4. OthersSame(p)
  BY DEF TypeOK, OthersSame, Exists, Locked, Delete, Begin, Goes, State, files
<1> QED BY <1>1, <1>2, <1>3, <1>4, OthersKeep

LEMMA GetKeeps ==
    ASSUME VaultInv, NEW p \in Worker, Get(p), configured' = configured, Noted
    PROVE  VaultInv'
<1> /\ p \in Programs /\ p \notin Queuers /\ TypeOK /\ StepOK(p) /\ HoldsOpen(p) /\ OnlyQueues(p)
    /\ stranded => stranded'
  BY DEF VaultInv, Worker, Noted
<1>1. TypeOK'
  <2>1. NoEntries \in Documents
    BY WithTyped, NoEntriesTyped DEF TypeOK, Roles
  <2>2. doc' \in [Programs -> Documents] /\ step' \in [Programs -> StepNames]
    BY <2>1 DEF TypeOK, Get, State, Goes, StepNames, Files
  <2>3. job' \in [Programs -> Jobs] /\ last' \subseteq Roles /\ may' \subseteq Roles
    BY BeginTyped DEF Get, Ops5, Roles
  <2> QED
    BY <2>2, <2>3 DEF TypeOK, Get, Begin, files, Jobs, Ops5
<1>2. Openable' /\ FilesAgree'
  BY DEF VaultInv, Openable, FilesAgree, Exists, Queued, Get, Begin, files
<1>3. (StepOK(p) /\ HoldsOpen(p) /\ OnlyQueues(p))'
  <2>1. StepOK(p)'
    BY FilesAssumption DEF Keys, TypeOK, StepOK, Exists, HoldsOpen, Locked, NotLocked, Opening, Removing,
       Keyed, Queued, Get, Begin,
           Goes, State, files
  <2>2. HoldsOpen(p)' /\ OnlyQueues(p)'
    BY DEF TypeOK, StepOK, Exists, HoldsOpen, OnlyQueues, Removing, Get, Begin, Goes, State, files
  <2> QED BY <2>1, <2>2
<1>4. OthersSame(p)
  BY DEF TypeOK, OthersSame, Exists, Locked, Get, Begin, Goes, State, files
<1> QED BY <1>1, <1>2, <1>3, <1>4, OthersKeep

LEMMA EncryptKeeps ==
    ASSUME VaultInv, NEW p \in Worker, Encrypt(p), configured' = configured, Noted
    PROVE  VaultInv'
<1> /\ p \in Programs /\ p \notin Queuers /\ TypeOK /\ StepOK(p) /\ HoldsOpen(p) /\ OnlyQueues(p)
    /\ stranded => stranded'
  BY DEF VaultInv, Worker, Noted
<1>1. TypeOK'
  <2>1. NoEntries \in Documents
    BY WithTyped, NoEntriesTyped DEF TypeOK, Roles
  <2>2. doc' \in [Programs -> Documents] /\ step' \in [Programs -> StepNames]
    BY <2>1 DEF TypeOK, Encrypt, State, Goes, StepNames, Files
  <2>3. job' \in [Programs -> Jobs] /\ last' \subseteq Roles /\ may' \subseteq Roles
    BY BeginTyped DEF Encrypt, Ops5, Roles
  <2> QED
    BY <2>2, <2>3 DEF TypeOK, Encrypt, Begin, files, Jobs, Ops5
<1>2. Openable' /\ FilesAgree'
  BY DEF VaultInv, Openable, FilesAgree, Exists, Queued, Encrypt, Begin, files
<1>3. (StepOK(p) /\ HoldsOpen(p) /\ OnlyQueues(p))'
  <2>1. StepOK(p)'
    BY FilesAssumption DEF Keys, TypeOK, StepOK, Exists, HoldsOpen, Locked, NotLocked, Opening, Removing,
       Keyed, Queued, Encrypt, Begin,
           Goes, State, files
  <2>2. HoldsOpen(p)' /\ OnlyQueues(p)'
    BY DEF TypeOK, StepOK, Exists, HoldsOpen, OnlyQueues, Removing, Encrypt, Begin, Goes, State, files
  <2> QED BY <2>1, <2>2
<1>4. OthersSame(p)
  BY DEF TypeOK, OthersSame, Exists, Locked, Encrypt, Begin, Goes, State, files
<1> QED BY <1>1, <1>2, <1>3, <1>4, OthersKeep

LEMMA DecryptKeeps ==
    ASSUME VaultInv, NEW p \in Worker, Decrypt(p), configured' = configured, Noted
    PROVE  VaultInv'
<1> /\ p \in Programs /\ p \notin Queuers /\ TypeOK /\ StepOK(p) /\ HoldsOpen(p) /\ OnlyQueues(p)
    /\ stranded => stranded'
  BY DEF VaultInv, Worker, Noted
<1>1. TypeOK'
  <2>1. NoEntries \in Documents
    BY WithTyped, NoEntriesTyped DEF TypeOK, Roles
  <2>2. doc' \in [Programs -> Documents] /\ step' \in [Programs -> StepNames]
    BY <2>1 DEF TypeOK, Decrypt, State, Goes, StepNames, Files
  <2>3. job' \in [Programs -> Jobs] /\ last' \subseteq Roles /\ may' \subseteq Roles
    BY BeginTyped DEF Decrypt, Ops5, Roles
  <2> QED
    BY <2>2, <2>3 DEF TypeOK, Decrypt, Begin, files, Jobs, Ops5
<1>2. Openable' /\ FilesAgree'
  BY DEF VaultInv, Openable, FilesAgree, Exists, Queued, Decrypt, Begin, files
<1>3. (StepOK(p) /\ HoldsOpen(p) /\ OnlyQueues(p))'
  <2>1. StepOK(p)'
    BY FilesAssumption DEF Keys, TypeOK, StepOK, Exists, HoldsOpen, Locked, NotLocked, Opening, Removing,
       Keyed, Queued, Decrypt, Begin,
           Goes, State, files
  <2>2. HoldsOpen(p)' /\ OnlyQueues(p)'
    BY DEF TypeOK, StepOK, Exists, HoldsOpen, OnlyQueues, Removing, Decrypt, Begin, Goes, State, files
  <2> QED BY <2>1, <2>2
<1>4. OthersSame(p)
  BY DEF TypeOK, OthersSame, Exists, Locked, Decrypt, Begin, Goes, State, files
<1> QED BY <1>1, <1>2, <1>3, <1>4, OthersKeep

LEMMA WriteLoadedKeeps ==
    ASSUME VaultInv, NEW p \in Worker, WriteLoaded(p), configured' = configured, Noted
    PROVE  VaultInv'
<1> /\ p \in Programs /\ p \notin Queuers /\ TypeOK /\ StepOK(p) /\ HoldsOpen(p) /\ OnlyQueues(p)
    /\ stranded => stranded'
  BY DEF VaultInv, Worker, Noted
<1>1. TypeOK'
  <2>1. last' \subseteq Roles /\ may' \subseteq Roles /\ step' \in [Programs -> StepNames] /\ job' \in [Programs -> Jobs]
    BY ReturnsTyped, StopsTyped DEF WriteLoaded
  <2> QED BY <2>1, ResultTyped, NoEntriesTyped, FilesAssumption DEF TypeOK, WriteLoaded, Files,
     Jobs, Ops5, StepOK, Secrets, Keys
<1>2. Openable' /\ FilesAgree'
  BY ResultTyped, FilesAssumption DEF VaultInv, TypeOK, StepOK, Openable, FilesAgree, Exists, Queued,
     WriteLoaded, NotLocked, Locked, Removing
<1>3. (StepOK(p) /\ HoldsOpen(p) /\ OnlyQueues(p))'
  <2>1. step'[p] = "idle" /\ job'[p].op = "get" /\ key'[p] = 0
    BY ReturnsTyped, StopsTyped DEF TypeOK, StepOK, Keyed, Opening, WriteLoaded
  <2>2. HoldsOpen(p)'
    BY ReturnsTyped, StopsTyped, FilesAssumption DEF TypeOK, StepOK, Exists, HoldsOpen, Removing, Locked,
       WriteLoaded
  <2> QED BY <2>1, <2>2, IdleOK DEF OnlyQueues
<1>4. OthersSame(p)
  <2>1. plain' # NoFile /\ Stops(p) /\ UNCHANGED <<key, unlocked>>
    BY ReturnsTyped, ResultTyped, FilesAssumption DEF WriteLoaded
  <2> QED BY <2>1, StopsTyped DEF OthersSame, Exists
<1> QED BY <1>1, <1>2, <1>3, <1>4, OthersKeep

LEMMA RemovePlainKeeps ==
    ASSUME VaultInv, NEW p \in Worker, RemovePlain(p), configured' = configured, Noted
    PROVE  VaultInv'
<1> /\ p \in Programs /\ p \notin Queuers /\ TypeOK /\ StepOK(p) /\ HoldsOpen(p) /\ OnlyQueues(p)
    /\ stranded => stranded'
  BY DEF VaultInv, Worker, Noted
<1>1. TypeOK'
  <2>1. last' \subseteq Roles /\ may' \subseteq Roles /\ step' \in [Programs -> StepNames] /\ job' \in [Programs -> Jobs]
    BY ReturnsTyped, StopsTyped DEF RemovePlain
  <2> QED BY <2>1, ResultTyped, NoEntriesTyped, FilesAssumption DEF TypeOK, RemovePlain, Files,
     Jobs, Ops5, StepOK, Secrets, Keys
<1>2. Openable' /\ FilesAgree'
  BY ResultTyped, FilesAssumption DEF VaultInv, TypeOK, StepOK, Openable, FilesAgree, Exists, Queued,
     RemovePlain, NotLocked, Locked, Removing
<1>3. (StepOK(p) /\ HoldsOpen(p) /\ OnlyQueues(p))'
  <2>1. step'[p] = "idle" /\ job'[p].op = "get" /\ key'[p] = 0
    BY ReturnsTyped, StopsTyped DEF TypeOK, StepOK, Keyed, Opening, RemovePlain
  <2>2. HoldsOpen(p)'
    BY ReturnsTyped, StopsTyped, FilesAssumption DEF TypeOK, StepOK, Exists, HoldsOpen, Removing, Locked,
       RemovePlain
  <2> QED BY <2>1, <2>2, IdleOK DEF OnlyQueues
<1>4. OthersSame(p)
  BY ReturnsTyped, StopsTyped DEF TypeOK, OthersSame, Exists, StepOK, Locked, NotLocked, Removing,
     RemovePlain
<1> QED BY <1>1, <1>2, <1>3, <1>4, OthersKeep

LEMMA RemoveRecipientKeeps ==
    ASSUME VaultInv, NEW p \in Worker, RemoveRecipient(p), configured' = configured, Noted
    PROVE  VaultInv'
<1> /\ p \in Programs /\ p \notin Queuers /\ TypeOK /\ StepOK(p) /\ HoldsOpen(p) /\ OnlyQueues(p)
    /\ stranded => stranded'
  BY DEF VaultInv, Worker, Noted
<1>1. TypeOK'
  <2>1. last' \subseteq Roles /\ may' \subseteq Roles /\ step' \in [Programs -> StepNames] /\ job' \in [Programs -> Jobs]
    BY ReturnsTyped, StopsTyped DEF RemoveRecipient
  <2> QED BY <2>1, ResultTyped, NoEntriesTyped, FilesAssumption DEF TypeOK, RemoveRecipient, Files,
     Jobs, Ops5, StepOK, Secrets, Keys
<1>2. Openable' /\ FilesAgree'
  BY ResultTyped, FilesAssumption DEF VaultInv, TypeOK, StepOK, Openable, FilesAgree, Exists, Queued,
     RemoveRecipient, NotLocked, Locked, Removing
<1>3. (StepOK(p) /\ HoldsOpen(p) /\ OnlyQueues(p))'
  <2>1. step'[p] = "idle" /\ job'[p].op = "get" /\ key'[p] = 0
    BY ReturnsTyped, StopsTyped DEF TypeOK, StepOK, Keyed, Opening, RemoveRecipient
  <2>2. HoldsOpen(p)'
    BY ReturnsTyped, StopsTyped, FilesAssumption DEF TypeOK, StepOK, Exists, HoldsOpen, Removing, Locked,
       RemoveRecipient
  <2> QED BY <2>1, <2>2, IdleOK DEF OnlyQueues
<1>4. OthersSame(p)
  BY ReturnsTyped, StopsTyped DEF TypeOK, OthersSame, Exists, StepOK, Locked, NotLocked, Removing,
     RemoveRecipient
<1> QED BY <1>1, <1>2, <1>3, <1>4, OthersKeep

LEMMA ListKeeps ==
    ASSUME VaultInv, NEW p \in Worker, List(p), configured' = configured, Noted
    PROVE  VaultInv'
<1> /\ p \in Programs /\ p \notin Queuers /\ TypeOK /\ StepOK(p) /\ HoldsOpen(p) /\ OnlyQueues(p)
    /\ stranded => stranded'
  BY DEF VaultInv, Worker, Noted
<1>1. TypeOK'
  <2>1. names' \in [Programs -> SUBSET Ids]
    BY DEF TypeOK, List, Queued
  <2>2. step' \in [Programs -> StepNames]
    BY DEF TypeOK, List, Goes, StepNames
  <2> QED BY <2>1, <2>2 DEF TypeOK, List, files, history
<1>2. Openable' /\ FilesAgree'
  BY FilesAssumption DEF VaultInv, TypeOK, StepOK, Openable, FilesAgree, Exists, Queued, List, NotLocked,
     Locked, Opening, Removing, files
<1>3. (StepOK(p) /\ HoldsOpen(p) /\ OnlyQueues(p))'
  BY FilesAssumption DEF TypeOK, StepOK, Exists, HoldsOpen, OnlyQueues, Locked, NotLocked, Opening, Removing,
     Keyed, Queued, List, Goes, files, Keys
<1>4. OthersSame(p)
  BY DEF TypeOK, OthersSame, Exists, StepOK, Locked, NotLocked, Opening, Removing, List, Goes,
     files
<1> QED BY <1>1, <1>2, <1>3, <1>4, OthersKeep

LEMMA WriteMergedKeeps ==
    ASSUME VaultInv, NEW p \in Worker, WriteMerged(p), configured' = configured, Noted
    PROVE  VaultInv'
<1> /\ p \in Programs /\ p \notin Queuers /\ TypeOK /\ StepOK(p) /\ HoldsOpen(p) /\ OnlyQueues(p)
    /\ stranded => stranded'
  BY DEF VaultInv, Worker, Noted
<1>1. TypeOK'
  BY ResultTyped, NoEntriesTyped, FilesAssumption DEF TypeOK, WriteMerged, Goes, Files, StepNames,
     StepOK, Opening, Locked, Queued, Secrets, Keys, history
<1>2. Openable' /\ FilesAgree'
  BY FilesAssumption DEF VaultInv, TypeOK, StepOK, Openable, FilesAgree, Exists, Queued, WriteMerged,
     NotLocked, Locked, Opening, Removing, files
<1>3. (StepOK(p) /\ HoldsOpen(p) /\ OnlyQueues(p))'
  BY FilesAssumption DEF TypeOK, StepOK, Exists, HoldsOpen, OnlyQueues, Locked, NotLocked, Opening, Removing,
     Keyed, Queued, WriteMerged, Goes, files, Keys
<1>4. OthersSame(p)
  BY DEF TypeOK, OthersSame, Exists, StepOK, Locked, NotLocked, Opening, Removing, WriteMerged,
     Goes, files
<1> QED BY <1>1, <1>2, <1>3, <1>4, OthersKeep

LEMMA RemovePendingKeeps ==
    ASSUME VaultInv, NEW p \in Worker, RemovePending(p), configured' = configured, Noted
    PROVE  VaultInv'
<1> /\ p \in Programs /\ p \notin Queuers /\ TypeOK /\ StepOK(p) /\ HoldsOpen(p) /\ OnlyQueues(p)
    /\ stranded => stranded'
  BY DEF VaultInv, Worker, Noted
<1>1. TypeOK'
  BY ResultTyped, NoEntriesTyped, FilesAssumption DEF TypeOK, RemovePending, Goes, Files, StepNames,
     StepOK, Opening, Locked, Queued, Secrets, Keys, history
<1>2. Openable' /\ FilesAgree'
  BY FilesAssumption DEF VaultInv, TypeOK, StepOK, Openable, FilesAgree, Exists, Queued, RemovePending,
     NotLocked, Locked, Opening, Removing, files
<1>3. (StepOK(p) /\ HoldsOpen(p) /\ OnlyQueues(p))'
  BY FilesAssumption DEF TypeOK, StepOK, Exists, HoldsOpen, OnlyQueues, Locked, NotLocked, Opening, Removing,
     Keyed, Queued, RemovePending, Goes, files, Keys
<1>4. OthersSame(p)
  BY DEF TypeOK, OthersSame, Exists, StepOK, Locked, NotLocked, Opening, Removing, RemovePending,
     Goes, files
<1> QED BY <1>1, <1>2, <1>3, <1>4, OthersKeep

LEMMA WriteRecipientKeeps ==
    ASSUME VaultInv, NEW p \in Worker, WriteRecipient(p), configured' = configured, Noted
    PROVE  VaultInv'
<1> /\ p \in Programs /\ p \notin Queuers /\ TypeOK /\ StepOK(p) /\ HoldsOpen(p) /\ OnlyQueues(p)
    /\ stranded => stranded'
  BY DEF VaultInv, Worker, Noted
<1>1. TypeOK'
  BY ResultTyped, NoEntriesTyped, FilesAssumption DEF TypeOK, WriteRecipient, Goes, Files,
     StepNames, StepOK, Opening, Locked, Queued, Secrets, Keys, history
<1>2. Openable' /\ FilesAgree'
  BY FilesAssumption DEF VaultInv, TypeOK, StepOK, Openable, FilesAgree, Exists, Queued, WriteRecipient,
     NotLocked, Locked, Opening, Removing, files
<1>3. (StepOK(p) /\ HoldsOpen(p) /\ OnlyQueues(p))'
  BY FilesAssumption DEF TypeOK, StepOK, Exists, HoldsOpen, OnlyQueues, Locked, NotLocked, Opening, Removing,
     Keyed, Queued, WriteRecipient, Goes, files, Keys
<1>4. OthersSame(p)
  BY DEF TypeOK, OthersSame, Exists, StepOK, Locked, NotLocked, Opening, Removing, WriteRecipient,
     Goes, files
<1> QED BY <1>1, <1>2, <1>3, <1>4, OthersKeep

LEMMA WriteKeyKeeps ==
    ASSUME VaultInv, NEW p \in Worker, WriteKey(p), configured' = configured, Noted
    PROVE  VaultInv'
<1> /\ p \in Programs /\ p \notin Queuers /\ TypeOK /\ StepOK(p) /\ HoldsOpen(p) /\ OnlyQueues(p)
    /\ stranded => stranded'
  BY DEF VaultInv, Worker, Noted
<1>1. TypeOK'
  BY ResultTyped, NoEntriesTyped, FilesAssumption DEF TypeOK, WriteKey, Goes, Files, StepNames,
     StepOK, Opening, Locked, Queued, Secrets, Keys, history
<1>2. Openable' /\ FilesAgree'
  BY FilesAssumption DEF VaultInv, TypeOK, StepOK, Openable, FilesAgree, Exists, Queued, WriteKey,
     NotLocked, Locked, Opening, Removing, files
<1>3. (StepOK(p) /\ HoldsOpen(p) /\ OnlyQueues(p))'
  BY FilesAssumption DEF TypeOK, StepOK, Exists, HoldsOpen, OnlyQueues, Locked, NotLocked, Opening, Removing,
     Keyed, Queued, WriteKey, Goes, files, Keys
<1>4. OthersSame(p)
  BY DEF TypeOK, OthersSame, Exists, StepOK, Locked, NotLocked, Opening, Removing, WriteKey, Goes,
     files
<1> QED BY <1>1, <1>2, <1>3, <1>4, OthersKeep

LEMMA RemoveSecretsKeeps ==
    ASSUME VaultInv, NEW p \in Worker, RemoveSecrets(p), configured' = configured, Noted
    PROVE  VaultInv'
<1> /\ p \in Programs /\ p \notin Queuers /\ TypeOK /\ StepOK(p) /\ HoldsOpen(p) /\ OnlyQueues(p)
    /\ stranded => stranded'
  BY DEF VaultInv, Worker, Noted
<1>1. TypeOK'
  BY ResultTyped, NoEntriesTyped, FilesAssumption DEF TypeOK, RemoveSecrets, Goes, Files, StepNames,
     StepOK, Opening, Locked, Queued, Secrets, Keys, history
<1>2. Openable' /\ FilesAgree'
  BY FilesAssumption DEF VaultInv, TypeOK, StepOK, Openable, FilesAgree, Exists, Queued, RemoveSecrets,
     NotLocked, Locked, Opening, Removing, files
<1>3. (StepOK(p) /\ HoldsOpen(p) /\ OnlyQueues(p))'
  BY FilesAssumption DEF TypeOK, StepOK, Exists, HoldsOpen, OnlyQueues, Locked, NotLocked, Opening, Removing,
     Keyed, Queued, RemoveSecrets, Goes, files, Keys
<1>4. OthersSame(p)
  BY DEF TypeOK, OthersSame, Exists, StepOK, Locked, NotLocked, Opening, Removing, RemoveSecrets,
     Goes, files
<1> QED BY <1>1, <1>2, <1>3, <1>4, OthersKeep

LEMMA RemoveKeyKeeps ==
    ASSUME VaultInv, NEW p \in Worker, RemoveKey(p), configured' = configured, Noted
    PROVE  VaultInv'
<1> /\ p \in Programs /\ p \notin Queuers /\ TypeOK /\ StepOK(p) /\ HoldsOpen(p) /\ OnlyQueues(p)
    /\ stranded => stranded'
  BY DEF VaultInv, Worker, Noted
<1>1. TypeOK'
  BY ResultTyped, NoEntriesTyped, FilesAssumption DEF TypeOK, RemoveKey, Goes, Files, StepNames,
     StepOK, Opening, Locked, Queued, Secrets, Keys, history
<1>2. Openable' /\ FilesAgree'
  BY FilesAssumption DEF VaultInv, TypeOK, StepOK, Openable, FilesAgree, Exists, Queued, RemoveKey,
     NotLocked, Locked, Opening, Removing, files
<1>3. (StepOK(p) /\ HoldsOpen(p) /\ OnlyQueues(p))'
  BY FilesAssumption DEF TypeOK, StepOK, Exists, HoldsOpen, OnlyQueues, Locked, NotLocked, Opening, Removing,
     Keyed, Queued, RemoveKey, Goes, files, Keys
<1>4. OthersSame(p)
  BY DEF TypeOK, OthersSame, Exists, StepOK, Locked, NotLocked, Opening, Removing, RemoveKey, Goes,
     files
<1> QED BY <1>1, <1>2, <1>3, <1>4, OthersKeep

LEMMA OpenKeeps ==
    ASSUME VaultInv, NEW p \in Worker, Open(p), configured' = configured, Noted
    PROVE  VaultInv'
<1> /\ p \in Programs /\ p \notin Queuers /\ TypeOK /\ StepOK(p) /\ HoldsOpen(p) /\ OnlyQueues(p)
    /\ stranded => stranded'
  BY DEF VaultInv, Worker, Noted
<1>1. TypeOK'
  <2>1. CASE keyFile \in Keys /\ (secrets = NoFile \/ secrets \in Secrets)
             /\ key' = [key EXCEPT ![p] = keyFile] /\ Goes(p, "listing")
             /\ doc' = [doc EXCEPT ![p] = IF secrets = NoFile THEN NoEntries ELSE secrets.doc]
             /\ UNCHANGED <<job, names, history, unlocked, files>>
    BY <2>1, NoEntriesTyped DEF TypeOK, Goes, StepNames, Secrets, Keys, history, files
  <2>2. CASE Fails(p) /\ UNCHANGED <<doc, files>>
    BY <2>2, FailsTyped
  <2> QED BY <2>1, <2>2 DEF TypeOK, Open, Files
<1>2. Openable' /\ FilesAgree'
  BY DEF VaultInv, Openable, FilesAgree, Exists, Queued, Open, files
<1>3. (StepOK(p) /\ HoldsOpen(p) /\ OnlyQueues(p))'
  <2>1. CASE Fails(p)
    <3>1. step'[p] = "idle" /\ job'[p].op = "get" /\ key'[p] = 0 /\ unlocked' = unlocked
      BY <2>1, StopsTyped DEF TypeOK, Fails
    <3> QED
      BY <3>1, IdleOK DEF HoldsOpen, OnlyQueues, Removing, Open, files
  <2>2. CASE Goes(p, "listing") /\ key' = [key EXCEPT ![p] = keyFile] /\ UNCHANGED <<job, names, unlocked>>
    <3>1. /\ step[p] = "open" /\ step'[p] = "listing" /\ key'[p] = keyFile /\ UNCHANGED <<job, unlocked, plain, keyFile, recipient>>
      BY <2>2 DEF TypeOK, Open, Goes, files
    <3>2. keyFile # NoFile
      BY <2>2, StopsTyped, <3>1 DEF Open, Fails
    <3> QED
      BY <3>1, <3>2 DEF StepOK, Exists, HoldsOpen, OnlyQueues, Locked, Opening, Removing, Keyed
  <2> QED BY <2>1, <2>2 DEF Open
<1>4. OthersSame(p)
  BY StopsTyped DEF TypeOK, OthersSame, Exists, Locked, Open, Fails, Goes, files
<1> QED BY <1>1, <1>2, <1>3, <1>4, OthersKeep

LEMMA MergeKeeps ==
    ASSUME VaultInv, NEW p \in Worker, Merge(p), configured' = configured, Noted
    PROVE  VaultInv'
<1> /\ p \in Programs /\ p \notin Queuers /\ TypeOK /\ StepOK(p) /\ HoldsOpen(p) /\ OnlyQueues(p)
    /\ stranded => stranded'
  BY DEF VaultInv, Worker, Noted
<1>1. TypeOK'
  <2>1. MergedWith(doc[p], Queued) \in Documents
    BY MergedTyped DEF TypeOK, Queued, Files
  <2>2. CASE Fails(p) /\ UNCHANGED <<doc, files>>
    BY <2>2, FailsTyped
  <2>3. CASE /\ doc' = [doc EXCEPT ![p] = MergedWith(doc[p], Queued)]
             /\ Goes(p, IF Queued = {} THEN "clearing" ELSE "merged")
             /\ names' = [names EXCEPT ![p] = IF Queued = {} THEN {} ELSE @]
             /\ UNCHANGED <<history, unlocked, job, key, files>>
    <3>1. names' \in [Programs -> SUBSET Ids]
      BY <2>3 DEF TypeOK
    <3>2. step' \in [Programs -> StepNames] /\ doc' \in [Programs -> Documents]
      BY <2>1, <2>3 DEF TypeOK, Goes, StepNames
    <3> QED
      BY <2>3, <3>1, <3>2 DEF TypeOK, history, files
  <2> QED BY <2>2, <2>3 DEF Merge
<1>2. Openable' /\ FilesAgree'
  BY DEF VaultInv, Openable, FilesAgree, Exists, Queued, Merge, files
<1>3. (StepOK(p) /\ HoldsOpen(p) /\ OnlyQueues(p))'
  <2>1. CASE Fails(p)
    <3>1. step'[p] = "idle" /\ job'[p].op = "get" /\ key'[p] = 0 /\ unlocked' = unlocked
      BY <2>1, StopsTyped DEF TypeOK, Fails
    <3> QED
      BY <3>1, IdleOK DEF HoldsOpen, OnlyQueues, Removing, Merge, files
  <2>2. CASE ~Fails(p)
    <3>1. /\ step[p] = "merging" /\ job'[p] = job[p] /\ key'[p] = key[p] /\ unlocked'[p] = unlocked[p]
          /\ UNCHANGED <<plain, keyFile, recipient, pending>>
          /\ step'[p] \in {"merged", "clearing"}
          /\ names'[p] = names[p] \/ (Queued = {} /\ names'[p] = {})
      BY <2>2 DEF TypeOK, Merge, Goes, files
    <3>2. \A q \in Queuers : step'[q] = step[q]
      BY <2>2, RenameAssumption DEF TypeOK, Merge, Goes
    <3> QED
      BY <3>1, <3>2 DEF StepOK, Exists, HoldsOpen, OnlyQueues, Locked, Opening, Removing, Keyed, Queued
  <2> QED BY <2>1, <2>2
<1>4. OthersSame(p)
  BY StopsTyped DEF TypeOK, OthersSame, Exists, Locked, Merge, Fails, Goes, files
<1> QED BY <1>1, <1>2, <1>3, <1>4, OthersKeep

LEMMA OpenedKeeps ==
    ASSUME VaultInv, NEW p \in Worker, Opened(p), configured' = configured, Noted
    PROVE  VaultInv'
<1> /\ p \in Programs /\ p \notin Queuers /\ TypeOK /\ StepOK(p) /\ HoldsOpen(p) /\ OnlyQueues(p)
    /\ stranded => stranded'
  BY DEF VaultInv, Worker, Noted
<1>1. TypeOK'
  <2>1. step' \in [Programs -> StepNames] /\ job' \in [Programs -> Jobs] /\ UNCHANGED history
    BY StopsTyped DEF TypeOK, Opened, Goes, StepNames, Jobs, Ops5
  <2>2. doc' \in [Programs -> Documents] /\ unlocked' \in [Programs -> 0..MaxKey] /\ key' \in [Programs -> 0..MaxKey]
    BY ResultTyped, FilesAssumption DEF TypeOK, Opened
  <2> QED BY <2>1, <2>2 DEF TypeOK, Opened, files, history, Jobs, Ops5
<1>2. Openable' /\ FilesAgree'
  BY DEF VaultInv, Openable, FilesAgree, Exists, Queued, Opened, files
<1>3. (StepOK(p) /\ HoldsOpen(p) /\ OnlyQueues(p))'
  <2>1. /\ step[p] = "clearing" /\ names[p] = {} /\ key'[p] = 0 /\ unlocked'[p] = key[p]
        /\ UNCHANGED <<plain, keyFile, recipient, secrets, pending>>
        /\ key[p] = keyFile /\ keyFile \in Keys /\ Exists
        /\ plain # NoFile => job[p].op = "decrypt"
    BY FilesAssumption DEF TypeOK, StepOK, Exists, Opening, Locked, Opened, files, Files
  <2>2. plain = NoFile => recipient = keyFile
    BY <2>1 DEF VaultInv, Openable, Exists
  <2>3. CASE step'[p] = "idle" /\ job'[p].op = "get"
    BY <2>1, <2>2, <2>3, IdleOK DEF HoldsOpen, OnlyQueues, Locked, Removing
  <2>4. CASE step'[p] = "writeSecrets" /\ job' = job /\ job[p].op = "delete"
    BY <2>1, <2>2, <2>4 DEF StepOK, Exists, HoldsOpen, OnlyQueues, Locked, Opening, Removing, Keyed, Keys
  <2>5. CASE Goes(p, "writePlain") /\ job' = job /\ job[p].op = "decrypt"
    <3>1. step'[p] = "writePlain"
      BY <2>5 DEF TypeOK, Goes
    <3> QED
      BY <2>1, <2>2, <2>5, <3>1, FilesAssumption DEF Keys, StepOK, Exists, HoldsOpen, OnlyQueues, Locked, Opening, Removing, Keyed
  <2> QED BY <2>3, <2>4, <2>5, StopsTyped DEF TypeOK, Opened, Goes
<1>4. OthersSame(p)
  BY StopsTyped DEF TypeOK, OthersSame, Exists, Locked, Opened, Goes, files
<1> QED BY <1>1, <1>2, <1>3, <1>4, OthersKeep

LEMMA WriteSecretsKeeps ==
    ASSUME VaultInv, NEW p \in Worker, WriteSecrets(p), configured' = configured, Noted
    PROVE  VaultInv'
<1> /\ p \in Programs /\ p \notin Queuers /\ TypeOK /\ StepOK(p) /\ HoldsOpen(p) /\ OnlyQueues(p)
    /\ stranded => stranded'
  BY DEF VaultInv, Worker, Noted
<1>1. TypeOK'
  <2>1. step' \in [Programs -> StepNames] /\ job' \in [Programs -> Jobs] /\ last' \subseteq Roles /\ may' \subseteq Roles
    BY ReturnsTyped, StopsTyped DEF TypeOK, WriteSecrets, Goes, StepNames, Jobs, Ops5, history
  <2>2. secrets' \in Secrets /\ unlocked' \in [Programs -> 0..MaxKey] /\ key' \in [Programs -> 0..MaxKey]
    BY FilesAssumption DEF TypeOK, WriteSecrets, StepOK, Secrets, Keys, Files
  <2> QED BY <2>1, <2>2 DEF TypeOK, WriteSecrets, Files, Jobs, Ops5
<1>2. Openable' /\ FilesAgree'
  BY FilesAssumption DEF VaultInv, TypeOK, Openable, FilesAgree, Exists, Queued, WriteSecrets, Secrets,
     StepOK, HoldsOpen, Removing, Keys, NotLocked
<1>3. (StepOK(p) /\ HoldsOpen(p) /\ OnlyQueues(p))'
  <2>1. CASE job[p].op = "encrypt"
    <3>1. /\ step[p] = "writeSecrets" /\ step'[p] = "removePlain" /\ job' = job /\ key'[p] = key[p] /\ unlocked'[p] = 0
          /\ \A q \in Queuers : step'[q] = step[q]
          /\ keyFile # NoFile /\ keyFile = key[p] /\ recipient = key[p]
          /\ secrets' = [key |-> key[p], doc |-> doc[p]]
          /\ UNCHANGED <<plain, keyFile, recipient>>
      BY <2>1, RenameAssumption DEF TypeOK, StepOK, WriteSecrets, Goes
    <3>2. secrets' # NoFile
      BY <3>1, FilesAssumption DEF TypeOK, Secrets, Files
    <3> QED
      BY <2>1, <3>1, <3>2 DEF StepOK, Exists, HoldsOpen, OnlyQueues, Opening, Removing, Keyed
  <2>2. CASE job[p].op # "encrypt"
    <3>1. step'[p] = "idle" /\ job'[p].op = "get" /\ key'[p] = 0
      BY <2>2, ReturnsTyped, StopsTyped DEF TypeOK, WriteSecrets
    <3>2. plain' = NoFile => keyFile' = unlocked'[p] /\ recipient' = unlocked'[p]
      BY <2>2, FilesAssumption DEF TypeOK, StepOK, Exists, HoldsOpen, Removing, WriteSecrets
    <3> QED
      BY <3>1, <3>2, IdleOK DEF HoldsOpen, OnlyQueues
  <2> QED BY <2>1, <2>2
<1>4. OthersSame(p)
  BY ReturnsTyped, StopsTyped DEF TypeOK, OthersSame, Exists, Locked, WriteSecrets, Goes
<1> QED BY <1>1, <1>2, <1>3, <1>4, OthersKeep

LEMMA WritePlainKeeps ==
    ASSUME VaultInv, NEW p \in Worker, WritePlain(p), configured' = configured, Noted
    PROVE  VaultInv'
<1> /\ p \in Programs /\ p \notin Queuers /\ TypeOK /\ StepOK(p) /\ HoldsOpen(p) /\ OnlyQueues(p)
    /\ stranded => stranded'
  BY DEF VaultInv, Worker, Noted
<1>1. TypeOK'
  <2>1. step' \in [Programs -> StepNames] /\ job' \in [Programs -> Jobs] /\ last' \subseteq Roles /\ may' \subseteq Roles
    BY ReturnsTyped, StopsTyped DEF TypeOK, WritePlain, Goes, StepNames, Jobs, Ops5, history
  <2> QED BY <2>1 DEF TypeOK, WritePlain, Files, Jobs, Ops5
<1>2. Openable' /\ FilesAgree'
  <2>1. plain' # NoFile /\ UNCHANGED <<keyFile, pending>>
    BY FilesAssumption DEF TypeOK, WritePlain
  <2>2. plain = NoFile /\ Queued # {} => stranded'
    BY <2>1 DEF Noted, Strands
  <2> QED
    BY <2>1, <2>2 DEF VaultInv, Openable, FilesAgree, Exists, Queued
<1>3. (StepOK(p) /\ HoldsOpen(p) /\ OnlyQueues(p))'
  <2>1. plain' # NoFile /\ UNCHANGED <<keyFile, recipient, key, unlocked, names, pending>> /\ step[p] = "writePlain" /\ key[p] = 0
    BY FilesAssumption DEF TypeOK, WritePlain, StepOK, Keyed, Opening
  <2>2. CASE job[p].op = "decrypt"
    <3>1. step'[p] = "removeSecrets" /\ job' = job /\ \A q \in Queuers : step'[q] = step[q]
      BY <2>2, RenameAssumption DEF TypeOK, WritePlain, Goes
    <3> QED
      BY <2>1, <2>2, <3>1 DEF StepOK, Exists, HoldsOpen, OnlyQueues, Opening, Removing, Keyed
  <2>3. CASE job[p].op # "decrypt"
    <3>1. step'[p] = "idle" /\ job'[p].op = "get" /\ key'[p] = 0 /\ unlocked'[p] = 0
      BY <2>1, <2>3, ReturnsTyped, StopsTyped DEF TypeOK, WritePlain, StepOK
    <3> QED
      BY <3>1, IdleOK DEF HoldsOpen, OnlyQueues
  <2> QED BY <2>2, <2>3
<1>4. OthersSame(p)
  <2>1. plain' # NoFile /\ UNCHANGED <<key, unlocked>>
    BY FilesAssumption DEF TypeOK, WritePlain
  <2>2. (\E s \in StepNames : Goes(p, s) /\ UNCHANGED job) \/ Stops(p)
    BY ReturnsTyped DEF WritePlain, StepNames
  <2> QED BY <2>1, <2>2, StopsTyped DEF TypeOK, OthersSame, Exists, Goes
<1> QED BY <1>1, <1>2, <1>3, <1>4, OthersKeep

LEMMA DecryptFailsKeeps ==
    ASSUME VaultInv, NEW p \in Worker, DecryptFails(p), configured' = configured, Noted
    PROVE  VaultInv'
<1> /\ p \in Programs /\ p \notin Queuers /\ TypeOK /\ StepOK(p) /\ HoldsOpen(p) /\ OnlyQueues(p)
    /\ stranded => stranded'
  BY DEF VaultInv, Worker, Noted
<1>1. TypeOK'
  BY StopsTyped DEF TypeOK, DecryptFails, files, history, Jobs, Ops5
<1>2. Openable' /\ FilesAgree'
  BY DEF VaultInv, Openable, FilesAgree, Exists, Queued, DecryptFails, files
<1>3. (StepOK(p) /\ HoldsOpen(p) /\ OnlyQueues(p))'
  <2>1. step'[p] = "idle" /\ job'[p].op = "get" /\ key'[p] = 0
    BY StopsTyped DEF StepOK, Keyed, Opening, DecryptFails
  <2> QED BY <2>1, IdleOK DEF HoldsOpen, OnlyQueues, DecryptFails, files
<1>4. OthersSame(p)
  BY StopsTyped DEF OthersSame, Exists, DecryptFails, files
<1> QED BY <1>1, <1>2, <1>3, <1>4, OthersKeep

LEMMA ReadRecipientHere ==
    ASSUME VaultInv, NEW p \in Programs, ReadRecipient(p), configured' = configured, Noted
    PROVE  TypeOK' /\ Openable' /\ FilesAgree' /\ (StepOK(p) /\ HoldsOpen(p) /\ OnlyQueues(p))'
<1> TypeOK /\ StepOK(p) /\ HoldsOpen(p) /\ OnlyQueues(p) /\ (stranded => stranded')
  BY DEF VaultInv, Noted
<1>1. TypeOK'
  <2>1. CASE Fails(p) /\ UNCHANGED <<doc, files>>
    BY <2>1, FailsTyped
  <2>2. CASE recipient \in Keys /\ key' = [key EXCEPT ![p] = recipient]
             /\ UNCHANGED <<step, job, names, history, unlocked, doc, files>>
    BY <2>2 DEF TypeOK, Keys, history, files
  <2> QED BY <2>1, <2>2 DEF TypeOK, ReadRecipient, Files
<1>2. Openable' /\ FilesAgree'
  BY DEF VaultInv, Openable, FilesAgree, Exists, Queued, ReadRecipient, files
<1>3. (StepOK(p) /\ HoldsOpen(p) /\ OnlyQueues(p))'
  <2>1. CASE Fails(p)
    <3>1. step'[p] = "idle" /\ job'[p].op = "get" /\ key'[p] = 0 /\ unlocked' = unlocked
      BY <2>1, StopsTyped DEF TypeOK, Fails
    <3> QED
      BY <3>1, IdleOK DEF HoldsOpen, OnlyQueues, Removing, ReadRecipient, files
  <2>2. CASE key' = [key EXCEPT ![p] = recipient] /\ UNCHANGED <<step, job, names, unlocked>>
    BY <2>2 DEF TypeOK, StepOK, Exists, HoldsOpen, OnlyQueues, Locked, Opening, Removing, Keyed, ReadRecipient,
       files
  <2> QED BY <2>1, <2>2 DEF ReadRecipient
<1> QED BY <1>1, <1>2, <1>3

LEMMA AddPendingHere ==
    ASSUME VaultInv, NEW p \in Programs, AddPending(p), configured' = configured, Noted
    PROVE  TypeOK' /\ Openable' /\ FilesAgree' /\ (StepOK(p) /\ HoldsOpen(p) /\ OnlyQueues(p))'
<1> TypeOK /\ StepOK(p) /\ HoldsOpen(p) /\ OnlyQueues(p) /\ (stranded => stranded')
  BY DEF VaultInv, Noted
<1>1. TypeOK'
  <2>1. /\ key[p] \in Keys /\ job[p].name \in Names /\ job[p].val \in Values
        /\ \A i \in Queued : pending[i].val \in Roles
    BY DEF TypeOK, StepOK, AddPending, Keys, Queued, Files, Payloads, Roles
  <2>2. step' \in [Programs -> StepNames] /\ job' \in [Programs -> Jobs]
    BY StopsTyped DEF AddPending
  <2>3. pending' \in [Ids -> Files(Payloads)]
    BY <2>1 DEF TypeOK, AddPending, Payloads, Files
  <2>4. key' \in [Programs -> 0..MaxKey] /\ last' \subseteq Roles /\ may' \subseteq Roles
    BY <2>1, FilesAssumption DEF TypeOK, AddPending, Roles
  <2> QED BY <2>2, <2>3, <2>4 DEF TypeOK, AddPending, Jobs, Ops5
<1>2. Openable' /\ FilesAgree'
  <2>1. PICK i \in Ids \ Queued :
           pending' = [pending EXCEPT ![i] = [key |-> key[p], name |-> job[p].name, val |-> job[p].val]]
    BY DEF AddPending
  <2>2. [key |-> key[p], name |-> job[p].name, val |-> job[p].val] # NoFile
    <3>1. key[p] \in Keys /\ job[p].name \in Names /\ job[p].val \in Values
      BY DEF TypeOK, StepOK, AddPending, Keys
    <3> QED BY <3>1, FilesAssumption DEF Payloads
  <2>3. pending'[i].key = key[p] /\ pending[i] = NoFile /\ pending'[i] # NoFile
        /\ \A j \in Ids \ {i} : pending'[j] = pending[j]
    BY <2>1, <2>2 DEF TypeOK, Queued
  <2>4. plain # NoFile \/ key[p] # keyFile => stranded'
    BY <2>3 DEF Noted, Strands
  <2>5. UNCHANGED <<plain, keyFile, recipient, secrets>> /\ Exists
    BY DEF AddPending, StepOK
  <2> QED
    BY <2>3, <2>4, <2>5 DEF VaultInv, Openable, FilesAgree, Exists, Queued
<1>3. (StepOK(p) /\ HoldsOpen(p) /\ OnlyQueues(p))'
  <2>1. step'[p] = "idle" /\ job'[p].op = "get" /\ key'[p] = 0
    BY StopsTyped DEF TypeOK, AddPending
  <2> QED BY <2>1, IdleOK DEF StepOK, Exists, HoldsOpen, OnlyQueues, Removing, AddPending
<1> QED BY <1>1, <1>2, <1>3

LEMMA EndsHere ==
    ASSUME VaultInv, NEW p \in Programs, Ends(p), configured' = configured, Noted
    PROVE  TypeOK' /\ Openable' /\ FilesAgree' /\ (StepOK(p) /\ HoldsOpen(p) /\ OnlyQueues(p))'
<1> TypeOK /\ StepOK(p) /\ HoldsOpen(p) /\ OnlyQueues(p) /\ (stranded => stranded')
  BY DEF VaultInv, Noted
<1>1. TypeOK'
  <2>1. step' \in [Programs -> StepNames] /\ job' \in [Programs -> Jobs]
    BY StopsTyped DEF Ends
  <2>2. unlocked' \in [Programs -> 0..MaxKey] /\ key' \in [Programs -> 0..MaxKey] /\ names' \in [Programs -> SUBSET Ids]
    BY FilesAssumption DEF TypeOK, Ends
  <2> QED BY <2>1, <2>2, NoEntriesTyped DEF TypeOK, Ends, history, files, Jobs, Ops5
<1>2. Openable' /\ FilesAgree'
  BY DEF VaultInv, Openable, FilesAgree, Exists, Queued, Ends, files
<1>3. (StepOK(p) /\ HoldsOpen(p) /\ OnlyQueues(p))'
  <2>1. step'[p] = "idle" /\ job'[p].op = "get" /\ key'[p] = 0 /\ unlocked'[p] = 0
    BY StopsTyped DEF TypeOK, Ends
  <2> QED BY <2>1, IdleOK DEF HoldsOpen, OnlyQueues
<1> QED BY <1>1, <1>2, <1>3

---------------------------------------------------------------------------
(* A program that queues changes nothing a worker relies on.               *)
QueuerSame(p) ==
    /\ UNCHANGED <<configured, plain, recipient, keyFile, secrets>>
    /\ \A q \in Programs \ {p} :
          /\ step'[q] = step[q] /\ job'[q] = job[q] /\ key'[q] = key[q]
          /\ names'[q] = names[q] /\ unlocked'[q] = unlocked[q]

(* A queuer's step that keeps its own part keeps the whole. *)
LEMMA QueuerKeeps ==
    ASSUME VaultInv, NEW p \in Queuers, QueuerSame(p),
           TypeOK', Openable', FilesAgree', (StepOK(p) /\ HoldsOpen(p) /\ OnlyQueues(p))'
    PROVE  VaultInv'
<1>1. ASSUME NEW q \in Programs, q # p
      PROVE  (StepOK(q) /\ HoldsOpen(q) /\ OnlyQueues(q))'
  <2>1. /\ step'[q] = step[q] /\ job'[q] = job[q] /\ key'[q] = key[q]
        /\ names'[q] = names[q] /\ unlocked'[q] = unlocked[q]
        /\ UNCHANGED <<configured, plain, recipient, keyFile, secrets>>
    BY <1>1 DEF QueuerSame
  <2>3. StepOK(q) /\ HoldsOpen(q) /\ OnlyQueues(q)
    BY DEF VaultInv
  <2>4. StepOK(q)'
    BY <2>1, <2>3 DEF StepOK, Exists, Locked, NotLocked, Opening, Removing, Keyed
  <2>5. HoldsOpen(q)' /\ OnlyQueues(q)'
    BY <2>1, <2>3 DEF HoldsOpen, OnlyQueues
  <2> QED
    BY <2>4, <2>5
<1> QED BY <1>1 DEF VaultInv

(* The steps of a program that queues. *)
LEMMA QueuesKeeps ==
    ASSUME VaultInv, NEW p \in Queuers, Queues(p), configured' = configured, Noted
    PROVE  VaultInv'
<1> p \in Programs /\ TypeOK /\ StepOK(p) /\ HoldsOpen(p) /\ OnlyQueues(p)
  BY RenameAssumption DEF VaultInv
<1>1. CASE State(p) = "locked" /\ \E v \in Values : Set(p, v)
  <2>1. PICK v \in Values : Set(p, v)
    BY <1>1
  <2>2. /\ step' = [step EXCEPT ![p] = "queueing"] /\ doc' = doc
        /\ job' = [job EXCEPT ![p] = [op |-> "set", name |-> configured, val |-> v]]
        /\ step[p] = "idle" /\ UNCHANGED <<files, unlocked, key, names>>
        /\ Locked
    BY <1>1, <2>1 DEF Set, Begin, Goes, State, Locked
  <2>3. TypeOK'
    <3>1. job' \in [Programs -> Jobs] /\ last' \subseteq Roles /\ may' \subseteq Roles
      BY <2>1, BeginTyped DEF Set, Ops5, Roles
    <3> QED
      BY <2>2, <3>1 DEF TypeOK, files, Jobs, Ops5, StepNames
  <2>4. Openable' /\ FilesAgree'
    BY <2>2 DEF VaultInv, Openable, FilesAgree, Exists, Queued, files, Noted
  <2>5. (StepOK(p) /\ HoldsOpen(p) /\ OnlyQueues(p))'
    BY <2>2 DEF TypeOK, StepOK, Exists, HoldsOpen, OnlyQueues, Locked, Opening, Removing, Keyed, files
  <2>6. QueuerSame(p)
    BY <1>1, <2>2 DEF TypeOK, QueuerSame, files
  <2> QED BY <2>3, <2>4, <2>5, <2>6, QueuerKeeps
<1>2. CASE ReadRecipient(p) \/ AddPending(p) \/ Ends(p)
  <2>1. TypeOK' /\ Openable' /\ FilesAgree' /\ (StepOK(p) /\ HoldsOpen(p) /\ OnlyQueues(p))'
    BY <1>2, ReadRecipientHere, AddPendingHere, EndsHere
  <2>2. step[p] = "queueing"
    BY <1>2 DEF ReadRecipient, AddPending, Ends, OnlyQueues
  <2>3. QueuerSame(p)
    BY <1>2, <2>2, StopsTyped DEF TypeOK, QueuerSame, ReadRecipient, AddPending, Ends, Fails, files
  <2> QED BY <2>1, <2>3, QueuerKeeps
<1> QED BY <1>1, <1>2 DEF Queues

(* The steps of the worker. *)
LEMMA WorksKeeps ==
    ASSUME VaultInv, NEW p \in Worker, Steps(p), configured' = configured, Noted
    PROVE  VaultInv'
<1>1. CASE \E v \in Values : Set(p, v)
  BY <1>1, SetKeeps
<1>2. CASE Decrypt(p) \/ DecryptFails(p)
  BY <1>2, DecryptKeeps, DecryptFailsKeeps
<1>3. CASE ReadRecipient(p) \/ AddPending(p) \/ Ends(p)
  <2>1. TypeOK' /\ Openable' /\ FilesAgree' /\ (StepOK(p) /\ HoldsOpen(p) /\ OnlyQueues(p))'
    BY <1>3, ReadRecipientHere, AddPendingHere, EndsHere DEF Worker
  <2>2. OthersSame(p)
    BY <1>3, StopsTyped
       DEF VaultInv, TypeOK, Worker, OthersSame, Exists, ReadRecipient, AddPending, Ends, Fails, files
  <2> QED BY <2>1, <2>2, OthersKeep
<1>4. CASE Delete(p) \/ Get(p) \/ Encrypt(p) \/ WriteLoaded(p) \/ Open(p) \/ List(p) \/ Merge(p) \/ WriteMerged(p)
           \/ RemovePending(p) \/ Opened(p) \/ WriteRecipient(p) \/ WriteKey(p) \/ WriteSecrets(p)
           \/ RemovePlain(p) \/ WritePlain(p) \/ RemoveSecrets(p) \/ RemoveKey(p) \/ RemoveRecipient(p)
  BY <1>4, DeleteKeeps, GetKeeps, EncryptKeeps, WriteLoadedKeeps, OpenKeeps, ListKeeps, MergeKeeps,
     WriteMergedKeeps, RemovePendingKeeps, OpenedKeeps, WriteRecipientKeeps, WriteKeyKeeps, WriteSecretsKeeps,
     RemovePlainKeeps, WritePlainKeeps, RemoveSecretsKeeps, RemoveKeyKeeps, RemoveRecipientKeeps
<1> QED BY <1>1, <1>2, <1>3, <1>4 DEF Steps

---------------------------------------------------------------------------
(* The renames                                                             *)

Plan == [phase : Phases, from : Names, to : Names, base : Revisions \cup {NoRevision},
         calls : BOOLEAN, resumes : BOOLEAN, reverts : BOOLEAN,
         original : Files(Documents \cup Secrets), held : [Ids -> Files(Payloads)],
         left : SUBSET Ids, late : SUBSET Ids]

Holding == {"renaming", "written", "saving", "undoing", "restoring"}

(* What a plan rests on holds until it is given up: its program does        *)
(* nothing else, and the others leave the vault open to it.                 *)
PlanOK(p) ==
    /\ plan[p].phase = "none" => plan[p] = NoPlan
    /\ plan[p].phase \in Holding <=> configLock = p
    /\ plan[p] # NoPlan => step[p] = "idle" /\ p \notin Queuers
    /\ plan[p].left \subseteq {i \in Ids : plan[p].held[i] # NoFile}
    /\ plan[p].phase \in {"renaming", "saved"} => plan[p].calls \/ plan[p].resumes
    /\ plan[p].calls \/ plan[p].resumes => plain # NoFile \/ unlocked[p] # 0
    /\ plan[p].phase # "none" => plan[p].base \in Revisions
    /\ plan[p].phase = "saving" => overtaken \/ plan[p].base = Revision
    /\ plan[p].original # NoFile =>
          /\ plan[p].calls \/ plan[p].resumes
          /\ unlocked[p] = 0 => plan[p].original \in Documents
          /\ unlocked[p] # 0 =>
                plan[p].original \in Secrets /\ (plain = NoFile => plan[p].original.key = unlocked[p])
    /\ \A i \in Ids : plan[p].held[i] # NoFile =>
          /\ unlocked[p] # 0 /\ plan[p].held[i].key = unlocked[p]
          /\ plain # NoFile => stranded

(* A program that checked the revision knows the content it replaces, but   *)
(* where an editor overtook it.                                             *)
ConfigInv ==
    /\ edits \in SUBSET Edits
    /\ loaded \in Revisions \cup {NoRevision} /\ copy \in Revisions \cup {NoRevision}
    /\ configLock \in Programs \cup {NoProgram, OtherProgram}
    /\ configLock = OtherProgram =>
          loaded \in Revisions /\ (overtaken \/ loaded = Revision) /\ (strayed \/ loaded[1] = configured)
    /\ due = Revision
    /\ overtaken \in BOOLEAN

PlanInv ==
    /\ ConfigInv
    /\ stranded \in BOOLEAN /\ strayed \in BOOLEAN /\ (stranded => strayed)
    /\ plan \in [Programs -> Plan]
    /\ \A p \in Programs : PlanOK(p)

RenameInv == VaultInv /\ PlanInv

(* What has strayed once has. *)
Strays == strayed' \in BOOLEAN /\ (strayed => strayed')

(* No plan is a plan. *)
LEMMA NoPlanTyped == NoPlan \in Plan
BY NoJobTyped DEF NoPlan, Plan, Phases, Nothing, Files

(* Without a plan nothing is held back. *)
LEMMA NothingHeld ==
    /\ NoPlan.phase = "none" /\ ~NoPlan.calls /\ ~NoPlan.resumes
    /\ NoPlan.original = NoFile /\ NoPlan.left = {}
    /\ \A i \in Ids : NoPlan.held[i] = NoFile
BY DEF NoPlan, Nothing

(* What follows from the invariant. *)
LEMMA InvTyped ==
    ASSUME RenameInv
    PROVE  RenameTypeOK /\ Openable /\ ConfigKept
<1>1. configured \in Names
  BY DEF RenameInv, VaultInv, TypeOK
<1>2. due \in Revisions
  BY <1>1 DEF RenameInv, PlanInv, ConfigInv, Revision, Revisions
<1>3. \A p \in Programs : plan[p].phase \in Phases
  BY DEF RenameInv, PlanInv, Plan
<1>4. loaded \in Revisions => loaded # NoRevision
  BY RenameAssumption DEF Revisions, Edits
<1> QED
  BY <1>2, <1>3, <1>4 DEF RenameInv, VaultInv, PlanInv, ConfigInv, PlanOK, RenameTypeOK, ConfigKept, Holding

(* It holds at first. *)
LEMMA InitInv == RenameInit => RenameInv
<1> SUFFICES ASSUME RenameInit PROVE RenameInv
  OBVIOUS
<1>1. TypeOK
  BY NoJobTyped, NoEntriesTyped, FilesAssumption
     DEF RenameInit, Init, TypeOK, Files, StepNames, Roles, Jobs, Ops5
<1>2. Openable /\ FilesAgree
  BY DEF RenameInit, Init, Openable, FilesAgree, Exists, Queued
<1>3. \A p \in Programs : StepOK(p) /\ HoldsOpen(p) /\ OnlyQueues(p)
  BY NoJobTyped DEF RenameInit, Init, StepOK, HoldsOpen, OnlyQueues, Opening, Removing, Keyed
<1>4. plan \in [Programs -> Plan]
  BY NoPlanTyped DEF RenameInit
<1>5. \A p \in Programs : PlanOK(p)
  BY NothingHeld, RenameAssumption DEF RenameInit, PlanOK, Holding
<1>6. stranded \in BOOLEAN /\ strayed \in BOOLEAN /\ (stranded => strayed)
  BY DEF RenameInit
<1>7. ConfigInv
  BY RenameAssumption DEF RenameInit, ConfigInv, Revision
<1> QED
  BY <1>1, <1>2, <1>3, <1>4, <1>5, <1>6, <1>7 DEF RenameInv, VaultInv, PlanInv

(* A step of the program with the plan, in parts. *)
LEMMA PlanMoves ==
    ASSUME RenameInv, NEW p \in Worker, NEW new \in Plan,
           plan' = [plan EXCEPT ![p] = new], PlanOK(p)', ConfigInv',
           configLock' = configLock \/ configLock' \in {p, NoProgram},
           step' = step, stranded' = stranded, Strays
    PROVE  PlanInv'
<1>1. ASSUME NEW q \in Programs, q # p
      PROVE  PlanOK(q)'
  <2>1. q \in Queuers /\ PlanOK(q)
    BY <1>1, RenameAssumption DEF Worker, RenameInv, PlanInv
  <2>2. plan[q] = NoPlan /\ plan'[q] = NoPlan
    BY <1>1, <2>1 DEF PlanOK, RenameInv, PlanInv
  <2>3. configLock # q
    BY <2>1, <2>2, NothingHeld DEF PlanOK, Holding
  <2>4. configLock' # q
    BY <1>1, <2>3, RenameAssumption
  <2> QED
    BY <2>2, <2>4, NothingHeld DEF PlanOK, Holding
<1>2. plan' \in [Programs -> Plan]
  BY DEF RenameInv, PlanInv, Worker
<1> QED
  BY <1>1, <1>2 DEF PlanInv, RenameInv, Strays

(* What leaves the configuration alone. *)
LEMMA SameConfig ==
    ASSUME RenameInv, NEW p \in Worker, UNCHANGED <<configured, edited>>, Strays,
           configLock' = configLock \/ configLock' \in {p, NoProgram}
    PROVE  ConfigInv'
<1>1. p \in Programs /\ p # OtherProgram /\ NoProgram # OtherProgram
  BY RenameAssumption DEF Worker
<1> QED
  BY <1>1 DEF RenameInv, PlanInv, ConfigInv, edited, Revision, Strays

LEMMA PlanStep ==
    ASSUME RenameInv, NEW p \in Worker, NEW new \in Plan,
           plan' = [plan EXCEPT ![p] = new], PlanOK(p)',
           configLock' = configLock \/ configLock' \in {p, NoProgram},
           UNCHANGED <<configured, step, edited, stranded>>, Strays
    PROVE  PlanInv'
BY SameConfig, PlanMoves

(* A plan that is given up takes the lock with it. *)
LEMMA GivesKeeps ==
    ASSUME RenameInv, NEW p \in Worker, Gives(p), UNCHANGED <<configured, step, edited, stranded>>,
           Strays
    PROVE  PlanInv'
<1>1. p # NoProgram /\ p \in Programs
  BY RenameAssumption DEF Worker
<1>2. plan'[p] = NoPlan /\ configLock' # p /\ configLock' \in {configLock, NoProgram}
  BY <1>1 DEF Gives, RenameInv, PlanInv
<1>3. PlanOK(p)'
  BY <1>1, <1>2, NothingHeld DEF PlanOK, Holding
<1> QED
  BY <1>2, <1>3, NoPlanTyped, PlanStep DEF Gives, Strays

(* A step of a rename that writes files. *)
LEMMA WritesKeep ==
    ASSUME RenameInv, NEW p \in Worker, step[p] = "idle", UNCHANGED <<step, job, key, names, keyFile, recipient>>,
           plain' = NoFile <=> plain = NoFile,
           \A q \in Programs \ {p} : unlocked'[q] = unlocked[q],
           TypeOK', Openable', FilesAgree', unlocked'[p] \in {0, unlocked[p]}
    PROVE  VaultInv'
<1> p \in Programs /\ StepOK(p) /\ HoldsOpen(p) /\ OnlyQueues(p)
  BY DEF RenameInv, VaultInv, Worker
<1>1. (StepOK(p) /\ HoldsOpen(p) /\ OnlyQueues(p))'
  BY DEF StepOK, Exists, HoldsOpen, OnlyQueues, Opening, Removing, Keyed, Worker
<1>2. OthersSame(p)
  BY DEF RenameInv, OthersSame, Exists
<1> QED
  BY <1>1, <1>2, OthersKeep DEF RenameInv

(* A step that leaves the vault alone keeps VaultInv. *)
LEMMA SameVault ==
    ASSUME RenameInv, UNCHANGED <<vars, stranded>>
    PROVE  VaultInv'
BY DEF RenameInv, VaultInv, vars, files, program, history, TypeOK, Openable, FilesAgree, Exists, Queued,
   StepOK, HoldsOpen, OnlyQueues,
       Locked, NotLocked

(* The steps of VaultFiles leave a plan what it rests on. *)
LEMMA VaultStepsKeep ==
    ASSUME RenameInv, NEW p \in Programs, VaultSteps(p)
    PROVE  RenameInv'
<1>1. VaultInv'
  <2>1. CASE p \in Queuers
    BY <2>1, QueuesKeeps DEF VaultSteps, Noted, RenameInv
  <2>2. CASE p \notin Queuers
    BY <2>2, WorksKeeps DEF VaultSteps, Noted, Works, RenameInv, Worker
  <2> QED BY <2>1, <2>2
<1>2. ASSUME NEW q \in Programs
      PROVE  /\ plan[q] = NoPlan => plan'[q] = NoPlan
             /\ plan[q] # NoPlan => \E L \in SUBSET Ids : plan'[q] = [plan[q] EXCEPT !.late = L]
             /\ plan'[q] \in Plan /\ plan[q] \in Plan
  <2> DEFINE new == {i \in Ids : pending[i] = NoFile /\ pending'[i] # NoFile}
  <2>1. plan[q] \in Plan
    BY DEF RenameInv, PlanInv
  <2>2. plan'[q] = IF plan[q] = NoPlan THEN NoPlan ELSE [plan[q] EXCEPT !.late = @ \cup new]
    BY DEF VaultSteps
  <2>3. plan[q].late \cup new \in SUBSET Ids
    BY <2>1 DEF Plan
  <2>4. plan[q] # NoPlan => plan'[q] = [plan[q] EXCEPT !.late = plan[q].late \cup new]
    BY <2>2
  <2> HIDE DEF new
  <2> QED
    BY <2>1, <2>2, <2>3, <2>4, NoPlanTyped DEF Plan
<1>3. ASSUME NEW q \in Programs
      PROVE  PlanOK(q)'
  <2>1. PlanOK(q) /\ plan[q] \in Plan
    BY <1>2 DEF RenameInv, PlanInv
  <2>2. UNCHANGED <<configLock>>
    BY DEF VaultSteps
  <2>3. CASE plan[q] = NoPlan
    BY <1>2, <2>1, <2>2, <2>3, NothingHeld DEF PlanOK, Holding
  <2>4. CASE plan[q] # NoPlan
    <3>1. q \in Worker /\ p \in Queuers /\ p # q
      BY <2>1, <2>4, RenameAssumption DEF PlanOK, Worker, VaultSteps, Works
    <3>2. plain' = plain /\ unlocked'[q] = unlocked[q] /\ step'[q] = step[q]
      <4>1. Queues(p)
        BY <3>1 DEF VaultSteps
      <4>2. plain' = plain /\ (unlocked' = unlocked \/ unlocked' = [unlocked EXCEPT ![p] = 0])
            /\ \E s \in StepNames : step' = step \/ step' = [step EXCEPT ![p] = s]
        BY <4>1 DEF Queues, Set, Begin, State, Goes, ReadRecipient, AddPending, Ends, Fails, Stops,
           files, StepNames
      <4> QED BY <3>1, <4>2 DEF RenameInv, VaultInv, TypeOK
    <3>3. PICK L \in SUBSET Ids : plan'[q] = [plan[q] EXCEPT !.late = L]
      BY <1>2, <2>4
    <3>4. /\ plan'[q].phase = plan[q].phase /\ plan'[q].left = plan[q].left /\ plan'[q].held = plan[q].held
          /\ plan'[q].calls = plan[q].calls /\ plan'[q].resumes = plan[q].resumes
          /\ plan'[q].original = plan[q].original /\ plan'[q].base = plan[q].base
      BY <2>1, <3>3 DEF Plan
    <3>5. plan[q].phase # "none"
      BY <2>1, <2>4 DEF PlanOK
    <3>6. stranded => stranded'
      BY DEF VaultSteps
    <3>7. Revision' = Revision /\ overtaken' = overtaken
      BY DEF VaultSteps, Revision, edited
    <3> QED
      BY <2>1, <2>2, <2>4, <3>1, <3>2, <3>4, <3>5, <3>6, <3>7 DEF PlanOK
  <2> QED BY <2>3, <2>4
<1>4. plan' \in [Programs -> Plan]
  <2>1. plan' = [q \in Programs |-> plan'[q]]
    BY DEF VaultSteps
  <2> QED BY <1>2, <2>1
<1>5. Strays /\ stranded' \in BOOLEAN /\ (stranded' => strayed')
  BY DEF VaultSteps, Strays
<1>6. ConfigInv'
  BY <1>5 DEF RenameInv, PlanInv, ConfigInv, VaultSteps, edited, Revision, Strays
<1> QED
  BY <1>1, <1>3, <1>4, <1>5, <1>6 DEF RenameInv, PlanInv, Strays

LEMMA PlanRenameKeeps ==
    ASSUME RenameInv, NEW p \in Worker, NEW n \in Names, PlanRename(p, n)
    PROVE  RenameInv'
<1> /\ p \in Programs /\ plan \in [Programs -> Plan] /\ plan[p] \in Plan /\ PlanOK(p)
    /\ strayed \in BOOLEAN /\ ConfigInv
  BY DEF RenameInv, PlanInv, Worker
<1> DEFINE new == plan'[p]
<1>1. VaultInv'
  BY SameVault DEF PlanRename
<1>2. plan[p] = NoPlan /\ step[p] = "idle" /\ configLock # p
  BY NothingHeld DEF PlanRename, Plans, PlanOK, Holding
<1>3. configured \in Names /\ Revision \in Revisions
  BY DEF RenameInv, VaultInv, TypeOK, ConfigInv, Revision, Revisions
<1>4. /\ plan' = [plan EXCEPT ![p] = new] /\ new \in Plan
      /\ new.phase = "planned" /\ new.left = {} /\ new.original = NoFile /\ new.base \in Revisions
      /\ \A i \in Ids : new.held[i] = NoFile
      /\ new.calls \/ new.resumes => State(p) # "absent"
  BY <1>3, NoPlanTyped, NothingHeld DEF PlanRename, Plan, Phases, NoEntries, NoEntry, Entered
<1>5. PlanOK(p)'
  <2>1. new.calls \/ new.resumes => plain # NoFile \/ unlocked[p] # 0
    BY <1>4 DEF PlanRename, Plans, State
  <2>2. configLock' = configLock /\ step' = step /\ plain' = plain /\ unlocked' = unlocked
    BY DEF PlanRename, vars, files, program
  <2> QED
    BY <1>2, <1>4, <2>1, <2>2 DEF PlanOK, Holding, Worker
<1>6. UNCHANGED <<configLock, step, edited, stranded, strayed, configured>>
  BY DEF PlanRename, vars, program
<1> HIDE DEF new
<1>7. PlanInv'
  BY <1>4, <1>5, <1>6, PlanStep DEF Strays
<1> QED BY <1>1, <1>7 DEF RenameInv

LEMMA PlanRevertKeeps ==
    ASSUME RenameInv, NEW p \in Worker, NEW n \in Names, PlanRevert(p, n)
    PROVE  RenameInv'
<1> /\ p \in Programs /\ plan \in [Programs -> Plan] /\ plan[p] \in Plan /\ PlanOK(p)
    /\ strayed \in BOOLEAN /\ ConfigInv
  BY DEF RenameInv, PlanInv, Worker
<1> DEFINE new == plan'[p]
<1>1. VaultInv'
  BY SameVault DEF PlanRevert
<1>2. plan[p] = NoPlan /\ step[p] = "idle" /\ configLock # p
  BY NothingHeld DEF PlanRevert, Plans, PlanOK, Holding
<1>3. configured \in Names /\ Revision \in Revisions
  BY DEF RenameInv, VaultInv, TypeOK, ConfigInv, Revision, Revisions
<1>4. /\ plan' = [plan EXCEPT ![p] = new] /\ new \in Plan
      /\ new.phase = "planned" /\ new.left = {} /\ new.original = NoFile /\ new.base \in Revisions
      /\ \A i \in Ids : new.held[i] = NoFile
      /\ new.calls \/ new.resumes => State(p) # "absent"
  BY <1>3, NoPlanTyped, NothingHeld DEF PlanRevert, Plan, Phases, NoEntries, NoEntry, Entered
<1>5. PlanOK(p)'
  <2>1. new.calls \/ new.resumes => plain # NoFile \/ unlocked[p] # 0
    BY <1>4 DEF PlanRevert, Plans, State
  <2>2. configLock' = configLock /\ step' = step /\ plain' = plain /\ unlocked' = unlocked
    BY DEF PlanRevert, vars, files, program
  <2> QED
    BY <1>2, <1>4, <2>1, <2>2 DEF PlanOK, Holding, Worker
<1>6. UNCHANGED <<configLock, step, edited, stranded, strayed, configured>>
  BY DEF PlanRevert, vars, program
<1> HIDE DEF new
<1>7. PlanInv'
  BY <1>4, <1>5, <1>6, PlanStep DEF Strays
<1> QED BY <1>1, <1>7 DEF RenameInv

LEMMA RemoveFailsKeeps ==
    ASSUME RenameInv, NEW p \in Worker, RemoveFails(p)
    PROVE  RenameInv'
<1> /\ p \in Programs /\ plan \in [Programs -> Plan] /\ plan[p] \in Plan /\ PlanOK(p)
    /\ strayed \in BOOLEAN /\ ConfigInv
  BY DEF RenameInv, PlanInv, Worker
<1>1. VaultInv'
  BY SameVault DEF RemoveFails
<1>2. plan' = [plan EXCEPT ![p] = [plan[p] EXCEPT !.phase = "undoing"]] /\ [plan[p] EXCEPT !.phase = "undoing"] \in Plan
  BY DEF RemoveFails, Advances, Plan, Phases
<1>3. UNCHANGED <<configLock, step, plain, unlocked, edited, stranded, strayed, configured>>
  BY DEF RemoveFails, vars, program, files
<1>4. PlanOK(p)'
  BY <1>2, <1>3, NothingHeld DEF RemoveFails, PlanOK, Holding, Plan, edited, Revision
<1>5. PlanInv'
  BY <1>2, <1>3, <1>4, PlanStep DEF Strays
<1> QED BY <1>1, <1>5 DEF RenameInv

LEMMA SaveKeeps ==
    ASSUME RenameInv, NEW p \in Worker, Save(p)
    PROVE  RenameInv'
<1> /\ p \in Programs /\ plan \in [Programs -> Plan] /\ plan[p] \in Plan /\ PlanOK(p)
    /\ strayed \in BOOLEAN /\ ConfigInv
  BY DEF RenameInv, PlanInv, Worker
<1>1. VaultInv'
  BY SameVault DEF Save
<1>2. plan' = [plan EXCEPT ![p] = [plan[p] EXCEPT !.phase = "saving"]] /\ [plan[p] EXCEPT !.phase = "saving"] \in Plan
  BY DEF Save, Advances, Plan, Phases
<1>3. UNCHANGED <<configLock, step, plain, unlocked, edited, overtaken, stranded, strayed, configured, edits>>
  BY DEF Save, vars, program, files, edited
<1>4. PlanOK(p)'
  <2>1. /\ plan'[p].phase = "saving" /\ plan'[p].left = plan[p].left /\ plan'[p].held = plan[p].held
        /\ plan'[p].calls = plan[p].calls /\ plan'[p].resumes = plan[p].resumes
        /\ plan'[p].original = plan[p].original /\ plan'[p].base = plan[p].base
    BY <1>2 DEF Plan
  <2>2. plan[p].phase = "written" /\ plan[p] # NoPlan /\ plan[p].base = Revision /\ Revision' = Revision
    BY <1>3, NothingHeld DEF Save, Revision
  <2> QED
    BY <1>3, <2>1, <2>2 DEF PlanOK, Holding
<1>5. PlanInv'
  BY <1>2, <1>3, <1>4, PlanStep DEF Strays
<1> QED BY <1>1, <1>5 DEF RenameInv

LEMMA SaveFailsKeeps ==
    ASSUME RenameInv, NEW p \in Worker, SaveFails(p)
    PROVE  RenameInv'
<1> /\ p \in Programs /\ plan \in [Programs -> Plan] /\ plan[p] \in Plan /\ PlanOK(p)
    /\ strayed \in BOOLEAN /\ ConfigInv
  BY DEF RenameInv, PlanInv, Worker
<1>1. VaultInv'
  BY SameVault DEF SaveFails
<1>2. plan' = [plan EXCEPT ![p] = [plan[p] EXCEPT !.phase = "undoing"]] /\ [plan[p] EXCEPT !.phase = "undoing"] \in Plan
  BY DEF SaveFails, Advances, Plan, Phases
<1>3. UNCHANGED <<configLock, step, plain, unlocked, edits, due, loaded, copy, stranded, strayed, configured>>
  BY DEF SaveFails, vars, program, files
<1>4. plan[p].phase \in Holding /\ configLock = p /\ p # OtherProgram
  BY RenameAssumption DEF SaveFails, PlanOK, Holding
<1>5. ConfigInv'
  BY <1>3, <1>4 DEF SaveFails, ConfigInv, Revision
<1>6. PlanOK(p)'
  BY <1>2, <1>3, <1>4, NothingHeld DEF PlanOK, Holding, Plan
<1>7. PlanInv'
  BY <1>2, <1>3, <1>5, <1>6, PlanMoves DEF Strays
<1> QED BY <1>1, <1>7 DEF RenameInv

(* The plan is given up and no file is written. *)
LEMMA GivenUpKeeps ==
    ASSUME RenameInv, NEW p \in Worker, Refused(p) \/ Reverted(p) \/ Undone(p) \/ Leaves(p)
    PROVE  RenameInv'
<1>1. VaultInv'
  BY SameVault DEF Refused, Reverted, Undone, Leaves
<1>2. Gives(p) /\ UNCHANGED <<configured, step, edited, stranded, strayed>>
  BY DEF Refused, Reverted, Undone, Leaves, vars, program
<1>3. PlanInv'
  BY <1>2, GivesKeeps DEF RenameInv, PlanInv, Strays
<1> QED BY <1>1, <1>3 DEF RenameInv

LEMMA TransactKeeps ==
    ASSUME RenameInv, NEW p \in Worker, Transact(p)
    PROVE  RenameInv'
<1> /\ p \in Programs /\ plan \in [Programs -> Plan] /\ plan[p] \in Plan /\ PlanOK(p)
    /\ strayed \in BOOLEAN /\ ConfigInv
  BY DEF RenameInv, PlanInv, Worker
<1>1. VaultInv'
  BY SameVault DEF Transact
<1>2. UNCHANGED <<step, plain, unlocked, edited, stranded, configured>> /\ Strays
  BY DEF Strays, Transact, vars, program, files, Hidden
<1>3. CASE Gives(p)
  BY <1>1, <1>2, <1>3, GivesKeeps DEF RenameInv, Strays
<1>4. CASE configLock' = p /\ \E s \in {"renaming", "written"} :
              Advances(p, s) /\ (s = "renaming" => plan[p].calls)
  <2>1. PICK s \in {"renaming", "written"} : Advances(p, s) /\ (s = "renaming" => plan[p].calls)
    BY <1>4
  <2>2. plan' = [plan EXCEPT ![p] = [plan[p] EXCEPT !.phase = s]] /\ [plan[p] EXCEPT !.phase = s] \in Plan
    BY <2>1 DEF Advances, Plan, Phases
  <2>3. PlanOK(p)'
    BY <1>2, <1>4, <2>1, <2>2, NothingHeld DEF Transact, PlanOK, Holding, Plan
  <2>4. PlanInv'
    BY <1>2, <1>4, <2>2, <2>3, PlanStep DEF Strays
  <2> QED BY <1>1, <2>4 DEF RenameInv
<1> QED BY <1>3, <1>4 DEF Transact

(* A replace by whoever checked the revision puts in the file what is due. *)
LEMMA ReplacesKeeps ==
    ASSUME RenameInv, NEW name \in Names, NEW others \in SUBSET Edits, Replaces(name, others),
           overtaken \/ edits \subseteq others, {loaded', copy'} \subseteq {loaded, copy, NoRevision}
    PROVE  ConfigInv' /\ configured' \in Names
<1>1. due' = Revision'
  BY DEF RenameInv, PlanInv, ConfigInv, Replaces, Revision
<1>2. NoProgram # OtherProgram
  BY RenameAssumption
<1> QED
  BY <1>1, <1>2 DEF RenameInv, PlanInv, ConfigInv, Replaces

LEMMA ReplaceKeeps ==
    ASSUME RenameInv, NEW p \in Worker, Replace(p)
    PROVE  RenameInv'
<1> /\ p \in Programs /\ plan \in [Programs -> Plan] /\ plan[p] \in Plan /\ PlanOK(p)
    /\ strayed \in BOOLEAN /\ ConfigInv
  BY DEF RenameInv, PlanInv, Worker
<1>1. /\ UNCHANGED <<files, program, history, loaded, copy, stranded>> /\ Strays
      /\ configLock' = NoProgram /\ plan[p].to \in Names /\ p # NoProgram /\ plan[p].phase = "saving"
  BY RenameAssumption DEF Replace, Replaces, Plan, Strays
<1>2. plan[p].base[2] \in SUBSET Edits /\ (overtaken \/ edits \subseteq plan[p].base[2])
  BY <1>1 DEF PlanOK, Revisions, Revision
<1>3. ConfigInv' /\ configured' \in Names
  BY <1>1, <1>2, ReplacesKeeps DEF Replace
<1>4. VaultInv'
  BY <1>1, <1>3 DEF RenameInv, VaultInv, files, program, history, TypeOK, Openable, FilesAgree, Exists,
     Queued, StepOK, HoldsOpen, OnlyQueues, Locked, NotLocked
<1>5. step' = step /\ plain' = plain /\ unlocked' = unlocked
  BY <1>1 DEF files, program
<1>6. CASE plan' = [plan EXCEPT ![p] = NoPlan]
  <2>1. PlanOK(p)'
    BY <1>1, <1>6, NothingHeld DEF PlanOK, Holding
  <2> QED
    BY <1>1, <1>3, <1>4, <1>5, <1>6, <2>1, NoPlanTyped, PlanMoves DEF RenameInv, Strays
<1>7. CASE Advances(p, "saved") /\ (plan[p].calls \/ plan[p].resumes)
  <2>1. plan' = [plan EXCEPT ![p] = [plan[p] EXCEPT !.phase = "saved"]] /\ [plan[p] EXCEPT !.phase = "saved"] \in Plan
    BY <1>7 DEF Advances, Plan, Phases
  <2>2. PlanOK(p)'
    BY <1>1, <1>5, <1>7, <2>1, NothingHeld DEF PlanOK, Holding, Plan
  <2>3. PlanInv'
    BY <1>1, <1>3, <1>5, <2>1, <2>2, PlanMoves DEF Strays
  <2> QED
    BY <1>4, <2>3 DEF RenameInv
<1> QED BY <1>6, <1>7 DEF Replace

LEMMA KilledKeeps ==
    ASSUME RenameInv, NEW p \in Worker, Killed(p)
    PROVE  RenameInv'
<1> /\ p \in Programs /\ plan \in [Programs -> Plan] /\ plan[p] \in Plan /\ PlanOK(p)
    /\ strayed \in BOOLEAN /\ ConfigInv
  BY DEF RenameInv, PlanInv, Worker
<1>1. step[p] = "idle"
  BY NothingHeld DEF Killed, PlanOK
<1>2. /\ UNCHANGED <<configured, files, step, job, key, names, history, edits, loaded, copy, due, stranded>> /\ Gives(p)
      /\ unlocked' = [unlocked EXCEPT ![p] = 0] /\ doc' = [doc EXCEPT ![p] = NoEntries] /\ Strays
  BY DEF Killed, Strays
<1>3. TypeOK'
  BY <1>2, NoEntriesTyped, FilesAssumption DEF RenameInv, VaultInv, TypeOK, files, history
<1>4. Openable' /\ FilesAgree'
  BY <1>2 DEF RenameInv, VaultInv, Openable, FilesAgree, Exists, Queued, files
<1>5. unlocked'[p] = 0 /\ \A q \in Programs \ {p} : unlocked'[q] = unlocked[q]
  BY <1>2 DEF RenameInv, VaultInv, TypeOK
<1>6. VaultInv'
  BY <1>1, <1>2, <1>3, <1>4, <1>5, WritesKeep DEF files
<1>7. p # NoProgram /\ p # OtherProgram /\ NoProgram # OtherProgram
  BY RenameAssumption
<1>8. configLock = p => configLock' = NoProgram
  BY <1>2 DEF Gives
<1>9. configLock # p => configLock' = configLock /\ overtaken' = overtaken
  BY <1>2 DEF Gives, Killed, PlanOK, Holding, ConfigInv
<1>10. ConfigInv'
  BY <1>2, <1>7, <1>8, <1>9 DEF Killed, ConfigInv, Revision, Strays
<1>11. PlanOK(p)'
  BY <1>2, <1>7, <1>8, <1>9, NothingHeld DEF Gives, PlanOK, Holding
<1>12. PlanInv'
  BY <1>2, <1>8, <1>9, <1>10, <1>11, NoPlanTyped, PlanMoves DEF Gives, Strays
<1> QED BY <1>6, <1>12 DEF RenameInv

(* A program with a plan is at no step; the vault it holds open is open. *)
LEMMA AtRest ==
    ASSUME RenameInv, NEW p \in Worker, plan[p] # NoPlan
    PROVE  /\ step[p] = "idle"
           /\ unlocked[p] # 0 => unlocked[p] \in Keys /\ (plain = NoFile => keyFile = unlocked[p] /\ recipient = unlocked[p])
<1>1. p \in Programs /\ PlanOK(p) /\ HoldsOpen(p)
  BY DEF RenameInv, VaultInv, PlanInv, Worker
<1>2. step[p] = "idle"
  BY <1>1 DEF PlanOK
<1>3. unlocked[p] # 0 => unlocked[p] \in Keys
  BY <1>1, FilesAssumption DEF RenameInv, VaultInv, TypeOK, Keys
<1> QED
  BY <1>1, <1>2, <1>3 DEF HoldsOpen, Removing

LEMMA ClearMarkerKeeps ==
    ASSUME RenameInv, NEW p \in Worker, ClearMarker(p)
    PROVE  RenameInv'
<1> /\ p \in Programs /\ plan \in [Programs -> Plan] /\ plan[p] \in Plan /\ PlanOK(p)
    /\ strayed \in BOOLEAN /\ ConfigInv
  BY DEF RenameInv, PlanInv, Worker
<1>0. plan[p] # NoPlan
  BY NothingHeld DEF ClearMarker
<1>1. /\ step[p] = "idle"
      /\ unlocked[p] # 0 => unlocked[p] \in Keys /\ (plain = NoFile => keyFile = unlocked[p] /\ recipient = unlocked[p])
  BY <1>0, AtRest
<1> DEFINE d == [Document(p) EXCEPT ![plan[p].to].mark = FALSE]
<1>2. plain # NoFile \/ unlocked[p] # 0
  BY DEF ClearMarker, PlanOK
<1>3. Document(p) \in Documents
  BY <1>1, <1>2 DEF Document, State, RenameInv, VaultInv, TypeOK, Files
<1>4. d \in Documents
  BY <1>3 DEF Documents
<1>5. /\ \/ unlocked[p] = 0 /\ plain # NoFile /\ plain' = d /\ UNCHANGED <<secrets, doc>>
         \/ /\ unlocked[p] # 0 /\ secrets' = [key |-> unlocked[p], doc |-> d]
            /\ doc' = [doc EXCEPT ![p] = d] /\ UNCHANGED plain
      /\ UNCHANGED <<configured, recipient, keyFile, pending, lastKey, unlocked, step, job, key, names, history,
                     edited, stranded, strayed>>
      /\ Gives(p)
  BY <1>1, <1>2 DEF ClearMarker, State
<1>6. d # NoFile
  BY <1>4, FilesAssumption
<1> HIDE DEF d
<1>7. TypeOK'
  BY <1>1, <1>4, <1>5 DEF RenameInv, VaultInv, TypeOK, Files, Secrets, history
<1>8. Openable' /\ FilesAgree'
  BY <1>1, <1>4, <1>5, <1>6, FilesAssumption DEF RenameInv, VaultInv, TypeOK, Openable, FilesAgree, Exists,
     Queued, Secrets
<1>9. VaultInv'
  BY <1>1, <1>5, <1>6, <1>7, <1>8, WritesKeep
<1>10. PlanInv'
  BY <1>5, GivesKeeps DEF Strays
<1> QED BY <1>9, <1>10 DEF RenameInv

LEMMA RemoveMergedKeeps ==
    ASSUME RenameInv, NEW p \in Worker, RemoveMerged(p)
    PROVE  RenameInv'
<1> /\ p \in Programs /\ plan \in [Programs -> Plan] /\ plan[p] \in Plan /\ PlanOK(p)
    /\ strayed \in BOOLEAN /\ ConfigInv
  BY DEF RenameInv, PlanInv, Worker
<1>1. PICK i \in plan[p].left : /\ pending' = [pending EXCEPT ![i] = NoFile]
                                 /\ plan' = [plan EXCEPT ![p].left = @ \ {i}]
  BY DEF RemoveMerged
<1>2. UNCHANGED <<configured, plain, recipient, keyFile, secrets, lastKey, program, history,
                  edited, configLock, stranded, strayed>>
  BY DEF RemoveMerged
<1>3. step[p] = "idle"
  BY NothingHeld DEF RemoveMerged, PlanOK
<1>4. TypeOK'
  BY <1>1, <1>2 DEF RenameInv, VaultInv, TypeOK, Files, program, history
<1>5. Openable' /\ FilesAgree'
  BY <1>1, <1>2 DEF RenameInv, VaultInv, TypeOK, Openable, FilesAgree, Exists, Queued
<1>6. VaultInv'
  BY <1>2, <1>3, <1>4, <1>5, WritesKeep DEF program
<1>7. plan' = [plan EXCEPT ![p] = [plan[p] EXCEPT !.left = @ \ {i}]] /\ [plan[p] EXCEPT !.left = @ \ {i}] \in Plan
  BY <1>1 DEF Plan
<1>8. PlanOK(p)'
  BY <1>2, <1>7, NothingHeld DEF RemoveMerged, PlanOK, Holding, Plan, program, edited, Revision
<1>9. PlanInv'
  BY <1>2, <1>7, <1>8, PlanStep DEF program, Strays
<1> QED BY <1>6, <1>9 DEF RenameInv

LEMMA RestoreKeeps ==
    ASSUME RenameInv, NEW p \in Worker, Restore(p)
    PROVE  RenameInv'
<1> /\ p \in Programs /\ plan \in [Programs -> Plan] /\ plan[p] \in Plan /\ PlanOK(p)
    /\ strayed \in BOOLEAN /\ ConfigInv
  BY DEF RenameInv, PlanInv, Worker
<1>0. plan[p] # NoPlan
  BY NothingHeld DEF Restore
<1>1. /\ step[p] = "idle"
      /\ unlocked[p] # 0 => unlocked[p] \in Keys /\ (plain = NoFile => keyFile = unlocked[p] /\ recipient = unlocked[p])
  BY <1>0, AtRest
<1>2. PICK i \in plan[p].left : /\ pending' = [pending EXCEPT ![i] = plan[p].held[i]]
                                 /\ may' = may \cup (IF Queued = {} THEN {} ELSE {plan[p].held[i].val})
                                 /\ plan' = [plan EXCEPT ![p].left = @ \ {i}]
  BY DEF Restore
<1>3. UNCHANGED <<configured, plain, recipient, keyFile, secrets, lastKey, program, last,
                  edited, configLock, stranded, strayed>>
  BY DEF Restore
<1>4. i \in Ids /\ plan[p].held[i] # NoFile /\ plan[p].held[i] \in Payloads
  BY DEF PlanOK, Plan, Files
<1>5. /\ unlocked[p] # 0 /\ plan[p].held[i].key = unlocked[p] /\ plan[p].held[i].val \in Roles
      /\ plain # NoFile => stranded
  BY <1>4 DEF PlanOK, Payloads, Roles
<1>6. TypeOK'
  <2>1. pending' \in [Ids -> Files(Payloads)]
    BY <1>2, <1>4 DEF RenameInv, VaultInv, TypeOK, Files
  <2>2. may' \subseteq Roles
    BY <1>2, <1>5 DEF RenameInv, VaultInv, TypeOK
  <2> QED
    BY <1>3, <2>1, <2>2 DEF RenameInv, VaultInv, TypeOK, program
<1>7. Openable' /\ FilesAgree'
  BY <1>1, <1>2, <1>3, <1>4, <1>5, FilesAssumption DEF RenameInv, VaultInv, TypeOK, Openable,
     FilesAgree, Exists, Queued
<1>8. VaultInv'
  BY <1>1, <1>3, <1>6, <1>7, WritesKeep DEF program
<1>9. plan' = [plan EXCEPT ![p] = [plan[p] EXCEPT !.left = @ \ {i}]] /\ [plan[p] EXCEPT !.left = @ \ {i}] \in Plan
  BY <1>2 DEF Plan
<1>10. PlanOK(p)'
  BY <1>3, <1>9, NothingHeld DEF Restore, PlanOK, Holding, Plan, program, edited, Revision
<1>11. PlanInv'
  BY <1>3, <1>9, <1>10, PlanStep DEF program, Strays
<1> QED BY <1>8, <1>11 DEF RenameInv

LEMMA UndoKeeps ==
    ASSUME RenameInv, NEW p \in Worker, Undo(p)
    PROVE  RenameInv'
<1> /\ p \in Programs /\ plan \in [Programs -> Plan] /\ plan[p] \in Plan /\ PlanOK(p)
    /\ strayed \in BOOLEAN /\ ConfigInv
  BY DEF RenameInv, PlanInv, Worker
<1>0. plan[p] # NoPlan
  BY NothingHeld DEF Undo
<1>1. /\ step[p] = "idle"
      /\ unlocked[p] # 0 => unlocked[p] \in Keys /\ (plain = NoFile => keyFile = unlocked[p] /\ recipient = unlocked[p])
  BY <1>0, AtRest
<1> DEFINE new == [plan[p] EXCEPT !.phase = "restoring", !.left = {i \in Ids : plan[p].held[i] # NoFile}]
<1>2. /\ UNCHANGED <<configured, recipient, keyFile, pending, lastKey, unlocked, step, job, key, names, history,
                     edited, configLock, stranded, strayed>>
      /\ plan' = [plan EXCEPT ![p] = new] /\ new \in Plan
  BY DEF Undo, Plan, Phases
<1>3. \/ unlocked[p] = 0 /\ plain' = plan[p].original /\ UNCHANGED <<secrets, doc>> /\ plain # NoFile
         /\ plan[p].original # NoFile
      \/ /\ unlocked[p] # 0 /\ secrets' = plan[p].original /\ plain' = plain
         /\ doc' = [doc EXCEPT ![p] = IF secrets' = NoFile THEN NoEntries ELSE secrets'.doc]
      \/ UNCHANGED <<plain, secrets, doc>>
  <2>1. plan[p].held # Nothing => \E i \in Ids : plan[p].held[i] # NoFile
    BY DEF Nothing, Plan
  <2>2. plan[p].original # NoFile /\ unlocked[p] = 0 => plain # NoFile
    BY DEF PlanOK
  <2>3. plan[p].held # Nothing => unlocked[p] # 0
    BY <2>1 DEF PlanOK
  <2>4. State(p) = "unencrypted" <=> unlocked[p] = 0 /\ plain # NoFile
    BY DEF State
  <2> QED
    BY <2>2, <2>3, <2>4 DEF Undo
<1>4. plan[p].original # NoFile => /\ unlocked[p] = 0 => plan[p].original \in Documents
                                   /\ unlocked[p] # 0 => /\ plan[p].original \in Secrets
                                                         /\ plain = NoFile => plan[p].original.key = unlocked[p]
  BY DEF PlanOK
<1>5. TypeOK'
  <2>1. plain' \in Files(Documents) /\ secrets' \in Files(Secrets)
    BY <1>3, <1>4 DEF RenameInv, VaultInv, TypeOK, Files
  <2>2. doc' \in [Programs -> Documents]
    BY <1>3, <2>1, NoEntriesTyped DEF RenameInv, VaultInv, TypeOK, Files, Secrets
  <2> QED
    BY <1>2, <2>1, <2>2 DEF RenameInv, VaultInv, TypeOK, history
<1>6. Openable' /\ FilesAgree'
  BY <1>1, <1>2, <1>3, <1>4, FilesAssumption DEF RenameInv, VaultInv, TypeOK, Openable, FilesAgree, Exists,
     Queued
<1>7. plain' = NoFile <=> plain = NoFile
  BY <1>3
<1>8. VaultInv'
  BY <1>1, <1>2, <1>5, <1>6, <1>7, WritesKeep
<1>9. PlanOK(p)'
  <2>1. /\ plan'[p].phase = "restoring" /\ plan'[p].left = {i \in Ids : plan[p].held[i] # NoFile}
        /\ plan'[p].calls = plan[p].calls /\ plan'[p].resumes = plan[p].resumes
        /\ plan'[p].original = plan[p].original /\ plan'[p].held = plan[p].held
        /\ plan'[p].base = plan[p].base
    BY <1>2 DEF Plan
  <2>2. plan[p].phase = "undoing" /\ plan[p] # NoPlan
    BY NothingHeld DEF Undo
  <2> QED
    BY <1>2, <1>7, <2>1, <2>2 DEF PlanOK, Holding
<1> HIDE DEF new
<1>10. PlanInv'
  BY <1>2, <1>9, PlanStep DEF Strays
<1> QED BY <1>8, <1>10 DEF RenameInv

LEMMA RenameEntryKeeps ==
    ASSUME RenameInv, NEW p \in Worker, RenameEntry(p)
    PROVE  RenameInv'
<1> /\ p \in Programs /\ plan \in [Programs -> Plan] /\ plan[p] \in Plan /\ PlanOK(p)
    /\ strayed \in BOOLEAN /\ ConfigInv
  BY DEF RenameInv, PlanInv, Worker
<1>0. plan[p] # NoPlan
  BY NothingHeld DEF RenameEntry
<1>1. /\ step[p] = "idle"
      /\ unlocked[p] # 0 => unlocked[p] \in Keys /\ (plain = NoFile => keyFile = unlocked[p] /\ recipient = unlocked[p])
  BY <1>0, AtRest
<1> DEFINE merged == IF State(p) = "unlocked" THEN QueuedFor(plan[p].from) ELSE {}
           d == MergedWith(Document(p), merged)
           next == IF plan[p].resumes
                   THEN [d EXCEPT ![plan[p].to].val = d[plan[p].from].val, ![plan[p].from] = NoEntry]
                   ELSE Renamed(d, plan[p].from, plan[p].to, ~plan[p].reverts)
           held == [i \in Ids |-> IF i \in merged THEN pending[i] ELSE NoFile]
<1>2. (plan[p].calls \/ plan[p].resumes) /\ (plain # NoFile \/ unlocked[p] # 0)
  BY DEF RenameEntry, PlanOK
<1>3. /\ plan[p].from \in Names /\ plan[p].to \in Names
      /\ plan[p].reverts \in BOOLEAN
  BY DEF Plan
<1>4. merged \in SUBSET Ids /\ \A i \in merged : i \in Queued /\ pending[i] \in Payloads
  BY DEF RenameInv, VaultInv, TypeOK, QueuedFor, Queued, Files
<1>5. \A i \in merged : unlocked[p] # 0 /\ pending[i].key = unlocked[p]
  BY <1>4 DEF RenameEntry, Taken, State
<1>6. Document(p) \in Documents
  BY <1>1, <1>2 DEF Document, State, RenameInv, VaultInv, TypeOK, Files
<1>7. d \in Documents
  BY <1>4, <1>6, MergedTyped
<1>8. next \in Documents
  <2>1. ASSUME NEW e \in Documents, NEW f \in Names, NEW t \in Names, NEW b \in BOOLEAN
        PROVE  /\ [e EXCEPT ![t].val = e[f].val, ![f] = NoEntry] \in Documents
               /\ Renamed(e, f, t, b) \in Documents
    BY DEF Documents, Renamed, NoEntry, Roles
  <2>2. (~plan[p].reverts) \in BOOLEAN
    BY <1>3
  <2> HIDE DEF d
  <2> QED BY <1>3, <1>7, <2>1, <2>2
<1>9. next # NoFile /\ held \in [Ids -> Files(Payloads)]
  BY <1>4, <1>8, FilesAssumption DEF Files
<1>10. /\ UNCHANGED <<configured, recipient, keyFile, pending, lastKey, unlocked, step, job, key, names, history,
                      edited, configLock, stranded>>
       /\ Strays
       /\ \/ /\ unlocked[p] = 0 /\ plain # NoFile /\ plain' = next /\ UNCHANGED <<secrets, doc>>
             /\ plan' = [plan EXCEPT ![p] = [plan[p] EXCEPT !.phase = "written", !.original = plain]]
          \/ /\ unlocked[p] # 0 /\ secrets' = [key |-> unlocked[p], doc |-> next] /\ UNCHANGED plain
             /\ doc' = [doc EXCEPT ![p] = next]
             /\ plan' = [plan EXCEPT ![p] = [plan[p] EXCEPT !.phase = "written", !.original = secrets,
                                                            !.left = merged, !.held = held]]
  BY <1>1, <1>2 DEF RenameEntry, State, Strays
<1> HIDE DEF merged, d, next
<1>11. TypeOK'
  BY <1>1, <1>8, <1>10 DEF RenameInv, VaultInv, TypeOK, Files, Secrets, history
<1>12. Openable' /\ FilesAgree'
  BY <1>1, <1>9, <1>10, FilesAssumption DEF RenameInv, VaultInv, TypeOK, Openable, FilesAgree, Exists,
     Queued
<1>13. VaultInv'
  BY <1>1, <1>9, <1>10, <1>11, <1>12, WritesKeep
<1>14. secrets # NoFile /\ unlocked[p] # 0 => secrets \in Secrets /\ (plain = NoFile => secrets.key = unlocked[p])
  BY <1>1, FilesAssumption DEF RenameInv, VaultInv, TypeOK, Openable, Files
<1>15. plan[p].phase = "renaming" /\ plan[p] # NoPlan /\ configLock = p
  BY NothingHeld DEF RenameEntry, PlanOK, Holding
<1>16. CASE unlocked[p] = 0
  <2> DEFINE new == [plan[p] EXCEPT !.phase = "written", !.original = plain]
  <2>1. plan' = [plan EXCEPT ![p] = new] /\ plain \in Documents /\ plain # NoFile /\ plain' # NoFile
    BY <1>9, <1>10, <1>16 DEF RenameInv, VaultInv, TypeOK, Files
  <2>2. new \in Plan
    BY <2>1 DEF Plan, Phases, Files
  <2>3. /\ new.phase = "written" /\ new.left = plan[p].left /\ new.held = plan[p].held
        /\ new.calls = plan[p].calls /\ new.resumes = plan[p].resumes /\ new.original = plain
        /\ new.base = plan[p].base
    BY DEF Plan
  <2> HIDE DEF new
  <2>4. PlanOK(p)'
    BY <1>2, <1>10, <1>15, <1>16, <2>1, <2>3, NothingHeld DEF PlanOK, Holding, Worker
  <2>5. PlanInv'
    BY <1>10, <2>1, <2>2, <2>4, PlanStep DEF Strays
  <2> QED BY <1>13, <2>5 DEF RenameInv
<1>17. CASE unlocked[p] # 0
  <2> DEFINE new == [plan[p] EXCEPT !.phase = "written", !.original = secrets, !.left = merged, !.held = held]
  <2>1. plan' = [plan EXCEPT ![p] = new] /\ plain' = plain
    BY <1>10, <1>17
  <2>2. secrets \in Files(Documents \cup Secrets)
    BY DEF RenameInv, VaultInv, TypeOK, Files
  <2>3. new \in Plan
    BY <1>4, <1>9, <2>2 DEF Plan, Phases
  <2>4. /\ new.phase = "written" /\ new.left = merged /\ new.held = held
        /\ new.calls = plan[p].calls /\ new.resumes = plan[p].resumes /\ new.original = secrets
        /\ new.base = plan[p].base
    BY DEF Plan
  <2>5. /\ \A i \in Ids : held[i] # NoFile => held[i].key = unlocked[p] /\ (plain # NoFile => stranded)
        /\ merged \subseteq {i \in Ids : held[i] # NoFile}
    BY <1>4, <1>5 DEF Queued, RenameInv, VaultInv, FilesAgree
  <2> HIDE DEF new, held
  <2>6. PlanOK(p)'
    BY <1>2, <1>10, <1>14, <1>15, <1>17, <2>1, <2>3, <2>4, <2>5, NothingHeld DEF PlanOK, Holding,
       Worker, RenameInv, PlanInv
  <2>7. PlanInv'
    BY <1>10, <2>1, <2>3, <2>6, PlanStep DEF Strays
  <2> QED BY <1>13, <2>7 DEF RenameInv
<1> QED BY <1>16, <1>17

(* The steps of those who edit the configuration. *)
Editing == LoadVersioned \/ SaveIfUnchanged \/ ReplaceUnchanged \/ GivesUp \/ OpenInEditor \/ EditByHand

LEMMA EditsKeep ==
    ASSUME RenameInv, Editing
    PROVE  RenameInv'
<1> ConfigInv /\ configured \in Names /\ Revision \in Revisions /\ NoProgram # OtherProgram
  BY RenameAssumption DEF RenameInv, VaultInv, PlanInv, ConfigInv, TypeOK, Revision, Revisions
<1>1. UNCHANGED <<files, program, history, plan, stranded>> /\ Strays
  BY DEF Editing, LoadVersioned, SaveIfUnchanged, ReplaceUnchanged, GivesUp, OpenInEditor, EditByHand, vars,
         RenameInv, PlanInv, Strays
<1>2. ASSUME NEW p \in Programs
      PROVE  PlanOK(p)
  BY DEF RenameInv, PlanInv
<1>3. ASSUME NEW p \in Programs
      PROVE  plan[p].phase \in Holding => configLock = p /\ p # OtherProgram /\ p # NoProgram
  BY <1>2, RenameAssumption DEF PlanOK
<1>4. ConfigInv' /\ configured' \in Names
      /\ \A p \in Programs :
            /\ plan[p].phase = "saving" => overtaken' \/ plan[p].base = Revision'
            /\ plan[p].phase \in Holding <=> configLock' = p
  <2>1. CASE LoadVersioned \/ OpenInEditor
    <3>1. UNCHANGED <<configured, edits, overtaken, due, configLock>>
      BY <2>1 DEF LoadVersioned, OpenInEditor, vars
    <3>2. \/ loaded' = Revision /\ loaded = NoRevision /\ copy' = copy
          \/ copy' = Revision /\ loaded' = loaded
      BY <2>1 DEF LoadVersioned, OpenInEditor
    <3>3. ConfigInv'
      BY <1>1, <3>1, <3>2 DEF ConfigInv, Revision, Strays
    <3> QED
      BY <1>2, <3>1, <3>3 DEF PlanOK, Revision
  <2>2. CASE SaveIfUnchanged
    <3>1. UNCHANGED <<configured, edits, copy, overtaken, due>> /\ configLock = NoProgram /\ loaded \in Revisions
      BY <2>2 DEF SaveIfUnchanged, vars, ConfigInv
    <3>2. \/ configLock' = OtherProgram /\ loaded' = loaded /\ loaded = Revision
          \/ configLock' = configLock /\ loaded' = NoRevision
      BY <2>2 DEF SaveIfUnchanged
    <3>3. ConfigInv'
      BY <3>1, <3>2 DEF ConfigInv, Revision
    <3>4. \A p \in Programs : configLock' # p /\ configLock # p
      BY <3>1, <3>2, RenameAssumption
    <3> QED
      BY <1>2, <3>1, <3>3, <3>4 DEF PlanOK, Revision, Holding
  <2>3. CASE ReplaceUnchanged
    <3>1. configLock = OtherProgram /\ loaded \in Revisions /\ (overtaken \/ loaded = Revision)
      BY <2>3 DEF ReplaceUnchanged, ConfigInv
    <3>2. PICK e \in Edits \ loaded[2] : Replaces(loaded[1], loaded[2] \cup {e})
      BY <2>3 DEF ReplaceUnchanged
    <3>3. /\ loaded[1] \in Names /\ loaded[2] \cup {e} \in SUBSET Edits
          /\ overtaken \/ edits \subseteq loaded[2] \cup {e}
      BY <3>1 DEF Revisions, Revision
    <3>4. ConfigInv' /\ configured' \in Names
      BY <2>3, <3>2, <3>3, ReplacesKeeps DEF ReplaceUnchanged
    <3>5. \A p \in Programs : configLock' # p /\ configLock # p
      BY <3>1, <3>2, RenameAssumption DEF Replaces
    <3> QED
      BY <1>2, <3>4, <3>5 DEF PlanOK, Holding
  <2>4. CASE GivesUp
    <3>1. UNCHANGED <<configured, edits, copy, due>> /\ configLock' = NoProgram /\ configLock = OtherProgram
          /\ loaded' = NoRevision /\ overtaken' = FALSE
      BY <2>4 DEF GivesUp, vars
    <3>2. ConfigInv'
      BY <3>1 DEF ConfigInv, Revision
    <3>3. \A p \in Programs : configLock' # p /\ configLock # p
      BY <3>1, RenameAssumption
    <3> QED
      BY <1>2, <3>1, <3>2, <3>3 DEF PlanOK, Holding
  <2>5. CASE EditByHand
    <3>1. /\ UNCHANGED <<loaded, configLock>> /\ copy' = NoRevision /\ due' = Revision' /\ overtaken' = Replacing
          /\ copy \in Revisions /\ configured' = copy[1] /\ edits' \in SUBSET Edits
          /\ strayed' \/ configured' = configured
      BY <2>5 DEF EditByHand, ConfigInv, Revisions
    <3>2. overtaken' \in BOOLEAN /\ (configLock = OtherProgram => overtaken')
      BY <3>1 DEF Replacing
    <3>3. ConfigInv' /\ configured' \in Names
      BY <1>1, <3>1, <3>2 DEF ConfigInv, Revisions, Strays
    <3>4. \A p \in Programs : plan[p].phase = "saving" => overtaken'
      BY <3>1 DEF Replacing
    <3> QED
      BY <1>2, <3>1, <3>3, <3>4 DEF PlanOK
  <2> QED BY <2>1, <2>2, <2>3, <2>4, <2>5 DEF Editing
<1>5. VaultInv'
  BY <1>1, <1>4 DEF RenameInv, VaultInv, files, program, history, TypeOK, Openable, FilesAgree, Exists,
     Queued, StepOK, HoldsOpen, OnlyQueues, Locked, NotLocked
<1>6. ASSUME NEW p \in Programs
      PROVE  PlanOK(p)'
  <2>1. UNCHANGED <<plan[p], step, plain, unlocked, stranded>>
    BY <1>1 DEF files, program
  <2>2. plan[p].phase = "saving" => overtaken' \/ plan[p].base = Revision'
    BY <1>4
  <2>3. plan[p].phase \in Holding <=> configLock' = p
    BY <1>4
  <2> QED
    BY <1>2, <2>1, <2>2, <2>3 DEF PlanOK
<1> QED
  BY <1>1, <1>4, <1>5, <1>6 DEF RenameInv, PlanInv, Strays

(* Only a worker renames. *)
LEMMA RenamesAreHis ==
    ASSUME RenameInv, NEW p \in Programs, RenameSteps(p)
    PROVE  p \in Worker
<1>1. PlanOK(p)
  BY DEF RenameInv, PlanInv
<1>2. p \in Queuers => plan[p] = NoPlan
  BY <1>1 DEF PlanOK
<1> QED
  BY <1>2, NothingHeld
     DEF Worker, RenameSteps, PlanRename, PlanRevert, Plans, Transact, Refused, RenameEntry, RemoveMerged,
         RemoveFails, Save, Replace, SaveFails, Reverted, Undo, Restore, Undone, ClearMarker, Leaves, Killed

(* Every step keeps the invariant. *)
LEMMA StepInv == RenameInv /\ [RenameNext]_renameVars => RenameInv'
<1> SUFFICES ASSUME RenameInv, [RenameNext]_renameVars
             PROVE  RenameInv'
  OBVIOUS
<1>1. CASE UNCHANGED renameVars
  <2>1. VaultInv'
    BY <1>1, SameVault DEF renameVars
  <2>2. PlanInv'
    BY <1>1 DEF renameVars, vars, edited, files, program, RenameInv, PlanInv, ConfigInv, PlanOK, Revision
  <2> QED BY <2>1, <2>2 DEF RenameInv
<1>2. ASSUME NEW p \in Programs, VaultSteps(p)
      PROVE  RenameInv'
  BY <1>2, VaultStepsKeep
<1>3. ASSUME NEW p \in Programs, RenameSteps(p)
      PROVE  RenameInv'
  <2>1. p \in Worker
    BY <1>3, RenamesAreHis
  <2>2. CASE \E n \in Names : PlanRename(p, n) \/ PlanRevert(p, n)
    BY <2>1, <2>2, PlanRenameKeeps, PlanRevertKeeps
  <2>3. CASE \/ Transact(p) \/ Refused(p) \/ RenameEntry(p) \/ RemoveMerged(p) \/ RemoveFails(p)
             \/ Save(p) \/ Replace(p) \/ SaveFails(p) \/ Reverted(p) \/ Undo(p) \/ Restore(p) \/ Undone(p)
             \/ ClearMarker(p) \/ Leaves(p) \/ Killed(p)
    BY <2>1, <2>3, TransactKeeps, GivenUpKeeps, RenameEntryKeeps, RemoveMergedKeeps,
       RemoveFailsKeeps, SaveKeeps, ReplaceKeeps,
       SaveFailsKeeps, UndoKeeps, RestoreKeeps, ClearMarkerKeeps, KilledKeeps
  <2> QED BY <1>3, <2>2, <2>3 DEF RenameSteps
<1>4. CASE Editing
  BY <1>4, EditsKeep
<1> QED BY <1>1, <1>2, <1>3, <1>4 DEF RenameNext, Editing

(* What every state of a rename satisfies. *)
THEOREM RenameAlways == RenameSpec => []RenameInv
<1> QED BY InitInv, StepInv, PTL DEF RenameSpec

(* Type correctness; in it, that a plan being carried out has the lock of   *)
(* the configuration, and that no one else does (RenamePlan, Transact).     *)
THEOREM RenameTypeCorrect == RenameSpec => []RenameTypeOK
<1> QED BY InvTyped, RenameAlways, PTL

(* Whatever a program is killed at, and whatever is queued or renamed       *)
(* beside it: a vault that looks encrypted has the key its recipient, its   *)
(* document and its pending files were written for (unlock).                *)
THEOREM StaysOpenable == RenameSpec => []Openable
<1> QED BY InvTyped, RenameAlways, PTL

(* No edit of the configuration and no rename is lost to another            *)
(* (Store.Update, Store.SaveIfUnchanged, RenamePlan's commit).              *)
THEOREM NoEditLost == RenameSpec => []ConfigKept
<1> QED BY InvTyped, RenameAlways, PTL
=============================================================================
