------------------------ MODULE CredentialRename_secret ------------------------
(***************************************************************************)
(* SecretKept is an invariant of CredentialRename: a value is followed     *)
(* through the documents, the queued files and the copies a rename keeps   *)
(* for its undo.  SecretInv is inductive beside RenameInv.                 *)
(***************************************************************************)
EXTENDS CredentialRename_proofs

---------------------------------------------------------------------------
(* The inductive invariant *)

(* The document the vault holds, whatever its form. *)
Base ==
    IF plain # NoFile THEN plain
    ELSE IF secrets = NoFile THEN NoEntries
    ELSE secrets.doc

Single(d) == \A m, n \in Names : Entered(d, m) /\ Entered(d, n) => m = n

(* At most one entry, and one of another name than the configured one, c,   *)
(* is what a rename left.                                                   *)
Tidy(d, c) ==
    /\ Single(d)
    /\ \A n \in Names : Entered(d, n) /\ n # c => d[n].mark

(* Its value, or that there is none, is one of V. *)
Fits(d, V) ==
    /\ \A n \in Names : Entered(d, n) => d[n].val \in V
    /\ (\A n \in Names : ~Entered(d, n)) => NoValue \in V

(* The documents hold the same entries. *)
Same(d, e) ==
    \A n \in Names : d[n].val = e[n].val /\ (Entered(d, n) => d[n].mark = e[n].mark)

(* The worker's copy is of the document the vault holds.  Once a plain one  *)
(* hides the encrypted one it may be of that.                               *)
AtBase(p) ==
    \/ plain = NoFile /\ unlocked[p] # 0 /\ step[p] \in {"idle", "open"}
    \/ plain = NoFile /\ step[p] \in {"listing", "merging", "clearing"}
    \/ plain = NoFile /\ step[p] = "writePlain" /\ job[p].op = "decrypt"
    \/ step[p] \in {"loaded", "removePlain"}
    \/ step[p] \in {"writeRecipient", "writeKey", "writeSecrets"} /\ job[p].op = "encrypt"

(* What a worker knows at each step. *)
WorkKept(p) ==
    /\ step[p] # "idle" => job[p].name = configured
    /\ job[p].op = "set" => job[p].val # NoValue
    /\ job[p].op = "delete" => job[p].val = NoValue
    /\ step[p] = "queueing" => unlocked[p] = 0
    /\ AtBase(p) => Same(doc[p], Base)
    /\ step[p] = "removePlain" => secrets # NoFile /\ Same(doc[p], secrets.doc)
    /\ step[p] \in {"merging", "merged", "clearing"} => names[p] \subseteq Queued
    /\ step[p] = "merged" =>
          /\ plain = NoFile /\ Entered(doc[p], configured)
          /\ Queued \subseteq names[p] => doc[p][configured].val \in may
    /\ step[p] = "clearing" /\ Queued \subseteq names[p] => Fits(Base, may)
    /\ step[p] \in {"writeRecipient", "writeKey", "writeSecrets", "writePlain"} /\ job[p].op = "set" =>
          doc[p][configured].val = job[p].val
    /\ step[p] = "writeSecrets" /\ job[p].op = "delete" /\ plain = NoFile => \A n \in Names : ~Entered(doc[p], n)
    /\ step[p] = "loaded" /\ job[p].op = "delete" => Entered(doc[p], configured)

HeldIds(p) == {i \in Ids : plan[p].held[i] # NoFile}

(* The document an undo writes back. *)
Original(p) ==
    IF plan[p].original = NoFile THEN NoEntries
    ELSE IF unlocked[p] = 0 THEN plan[p].original
    ELSE plan[p].original.doc

(* Between which names a plan renames, until it is saved and after, and     *)
(* that what it writes is what the vault holds.                             *)
NamesKept(p) ==
    /\ plan[p].phase \in {"planned"} \cup Holding =>
          IF plan[p].reverts THEN plan[p].to = configured /\ plan[p].from # configured
                             ELSE plan[p].from = configured /\ plan[p].to # configured
    /\ plan[p].phase = "saved" => plan[p].to = configured
    /\ plan[p].phase \in {"saved"} \cup Holding => ~Hidden(p)

(* Nothing is kept for an undo before RenameEntry, which is called for.     *)
FreshKept(p) ==
    plan[p].phase \in {"planned", "renaming"} =>
       /\ plan[p].original = NoFile /\ plan[p].held = Nothing /\ plan[p].left = {}
       /\ plan[p].phase = "renaming" => plan[p].calls

(* Before RenameEntry there is something to rename, or nothing to call it   *)
(* for; after it nothing is left under the old name but what came late.     *)
EntryKept(p) ==
    /\ plan[p].phase \in {"planned", "renaming"} /\ ~Hidden(p) =>
          IF plan[p].reverts THEN Entered(Base, plan[p].from) /\ plan[p].calls /\ ~plan[p].resumes
          ELSE plan[p].calls => Entered(Base, configured) \/ (unlocked[p] # 0 /\ Queued # {})
    /\ /\ ~plan[p].reverts
       /\ \/ plan[p].phase \in {"written", "saving"}
          \/ plan[p].phase \in {"planned", "renaming"} /\ ~plan[p].calls /\ ~Hidden(p)
       => /\ ~Entered(Base, configured)
          /\ Queued \subseteq plan[p].late \cup plan[p].left
    /\ plan[p].phase = "written" =>
          /\ plan[p].left \subseteq Queued
          /\ Queued \subseteq plan[p].left => Fits(Base, may)
    /\ plan[p].phase = "saving" => plan[p].left = {} /\ ~plan[p].reverts

(* What an undo puts back is as good as what it was taken from. *)
UndoKept(p) ==
    /\ plan[p].phase \in {"written", "saving", "undoing"} /\ (plan[p].original # NoFile \/ plan[p].held # Nothing) =>
          /\ Tidy(Original(p), configured)
          /\ Queued = {} /\ HeldIds(p) = {} => Fits(Original(p), may)
    /\ plan[p].phase \in {"written", "saving", "undoing", "restoring"} =>
          \A i \in HeldIds(p) :
             /\ plan[p].held[i].name = configured
             /\ plan[p].held[i].val \in may \/ \E j \in Queued : j \notin HeldIds(p)

PlanKept(p) == NamesKept(p) /\ FreshKept(p) /\ EntryKept(p) /\ UndoKept(p)

(* What is queued is queued under the configured name, and one of it may    *)
(* win.                                                                     *)
QueueKept == \A i \in Queued : pending[i].name = configured /\ pending[i].val \in may

(* The one entry has a value the role may have, unless what is queued wins  *)
(* over it or is being put back.                                            *)
BaseKept ==
    /\ Tidy(Base, configured)
    /\ Queued = {} => PuttingBack \/ Fits(Base, may)

SecretInv ==
    \/ strayed
    \/ QueueKept /\ BaseKept /\ \A p \in Worker : WorkKept(p) /\ PlanKept(p)

---------------------------------------------------------------------------
(* Documents *)

(* Documents with the same entries are as tidy and fit as well. *)
LEMMA SameTidy ==
    ASSUME NEW d, NEW e, NEW c, NEW V, Same(d, e)
    PROVE  /\ Same(e, d)
           /\ \A n \in Names : Entered(d, n) <=> Entered(e, n)
           /\ Single(d) <=> Single(e)
           /\ Tidy(d, c) <=> Tidy(e, c)
           /\ Fits(d, V) <=> Fits(e, V)
BY DEF Same, Entered, Single, Tidy, Fits

LEMMA SameSelf ==
    ASSUME NEW d
    PROVE  Same(d, d)
BY DEF Same

LEMMA SameThrough ==
    ASSUME NEW d, NEW e, NEW f, Same(d, e), Same(d, f)
    PROVE  Same(e, f)
BY DEF Same, Entered

(* A document whose one entry has the configured name. *)
LEMMA OneEntry ==
    ASSUME NEW d, NEW c \in Names, NEW V, Single(d), Entered(d, c)
    PROVE  /\ Tidy(d, c)
           /\ d[c].val \in V => Fits(d, V)
           /\ \A n \in Names : n # c => ~Entered(d, n)
BY DEF Single, Tidy, Fits

(* A document without an entry. *)
LEMMA NoEntry1 ==
    ASSUME NEW d, NEW c, NEW V, \A n \in Names : ~Entered(d, n)
    PROVE  /\ Tidy(d, c)
           /\ NoValue \in V => Fits(d, V)
BY DEF Single, Tidy, Fits

(* A role that more values may have. *)
LEMMA FitsMore ==
    ASSUME NEW d, NEW V, NEW W, Fits(d, V), V \subseteq W
    PROVE  Fits(d, W)
BY DEF Fits

LEMMA NotDoubled ==
    ASSUME NEW d, d # NoFile, ~Doubled(d)
    PROVE  Single(d)
BY DEF Doubled, Single

(* What With sets, and what it leaves. *)
LEMMA WithSets ==
    ASSUME NEW d \in Documents, NEW c \in Names, NEW v \in Roles
    PROVE  /\ With(d, c, v)[c].val = v
           /\ \A n \in Names : n # c => With(d, c, v)[n] = d[n]
           /\ d[c].val = NoValue /\ v = NoValue => Same(With(d, c, v), d)
<1>1. With(d, c, v)[c] = IF v = NoValue THEN NoEntry ELSE [d[c] EXCEPT !.val = v]
  BY DEF With, Documents
<1>2. With(d, c, v)[c].val = v
  <2>1. d[c] \in [val : Roles, mark : BOOLEAN]
    BY DEF Documents
  <2> QED BY <1>1, <2>1 DEF NoEntry
<1>3. \A n \in Names : n # c => With(d, c, v)[n] = d[n]
  BY DEF With, Documents
<1>4. d[c].val = NoValue /\ v = NoValue => Same(With(d, c, v), d)
  BY <1>2, <1>3 DEF Same, Entered
<1> QED BY <1>2, <1>3, <1>4

(* Deleting the one entry leaves none. *)
LEMMA WithoutIt ==
    ASSUME NEW d \in Documents, NEW c \in Names, Single(d), Entered(d, c)
    PROVE  \A n \in Names : ~Entered(With(d, c, NoValue), n)
<1>1. NoValue \in Roles
  BY DEF Roles
<1> QED BY <1>1, WithSets DEF Single, Entered

(* What is merged into a document has the value of one that is queued.      *)
LEMMA MergedOne ==
    ASSUME NEW d \in Documents, NEW S \in SUBSET Ids, S # {}, NEW c \in Names, NEW V,
           \A i \in S : pending[i] \in Payloads /\ pending[i].name = c /\ pending[i].val \in V
    PROVE  /\ MergedWith(d, S)[c].val \in V /\ MergedWith(d, S)[c].val \in Values
           /\ Entered(MergedWith(d, S), c)
           /\ \A n \in Names : n # c => MergedWith(d, S)[n] = d[n]
<1> DEFINE Mine(n) == {i \in S : pending[i].name = n}
           Latest1(n) == CHOOSE i \in Mine(n) : \A j \in Mine(n) : j <= i
<1>1. Mine(c) = S
  OBVIOUS
<1>2. Latest1(c) \in S
  BY <1>1, Latest
<1>3. MergedWith(d, S)[c] = [d[c] EXCEPT !.val = pending[Latest1(c)].val]
  BY <1>1 DEF MergedWith
<1>4. d[c] \in [val : Roles, mark : BOOLEAN]
  BY DEF Documents
<1> HIDE DEF Latest1
<1>5. MergedWith(d, S)[c].val = pending[Latest1(c)].val
  BY <1>3, <1>4
<1>6. pending[Latest1(c)].val \in V /\ pending[Latest1(c)].val \in Values
  BY <1>2 DEF Payloads
<1>7. \A n \in Names : n # c => MergedWith(d, S)[n] = d[n]
  <2> SUFFICES ASSUME NEW n \in Names, n # c PROVE MergedWith(d, S)[n] = d[n]
    OBVIOUS
  <2>1. Mine(n) = {}
    OBVIOUS
  <2> QED BY <2>1 DEF MergedWith
<1>8. Entered(MergedWith(d, S), c)
  BY <1>5, <1>6, FilesAssumption DEF Entered
<1> QED BY <1>5, <1>6, <1>7, <1>8

(* Nothing merged changes nothing. *)
LEMMA MergedNone ==
    ASSUME NEW d \in Documents
    PROVE  MergedWith(d, {}) = d
BY DEF MergedWith, Documents

---------------------------------------------------------------------------
(* The vault's document *)

LEMMA BaseTyped ==
    ASSUME RenameInv
    PROVE  /\ Base \in Documents
           /\ plain = NoFile /\ keyFile = NoFile => Base = NoEntries /\ Queued = {}
           /\ plain # NoFile => Base = plain /\ (strayed \/ Queued = {})
           /\ \A n \in Names : ~Entered(NoEntries, n)
BY NoEntriesTyped DEF RenameInv, PlanInv, VaultInv, FilesAgree, Exists, TypeOK, Base, Files, Secrets, NoEntries, NoEntry, Entered

(* What SecretInv says before a step that leaves it something to say. *)
LEMMA Before ==
    ASSUME RenameInv, SecretInv, ~strayed, NEW p \in Worker
    PROVE  /\ QueueKept /\ BaseKept /\ WorkKept(p) /\ PlanKept(p)
           /\ TypeOK /\ FilesAgree /\ StepOK(p) /\ HoldsOpen(p) /\ PlanOK(p)
           /\ p \in Programs /\ p \notin Queuers
           /\ Base \in Documents /\ doc[p] \in Documents /\ configured \in Names
           /\ plan \in [Programs -> Plan] /\ plan[p] \in Plan
           /\ \A i \in Queued : pending[i] \in Payloads
           /\ NoValue \in Roles /\ Values \subseteq Roles
BY BaseTyped DEF SecretInv, RenameInv, VaultInv, PlanInv, Worker, TypeOK, Queued, Files, Roles

(* There is one worker at most. *)
LEMMA OneWorker ==
    ASSUME NEW p \in Worker, NEW q \in Worker
    PROVE  p = q
BY RenameAssumption DEF Worker

(* Nothing is put back without a plan of the worker. *)
LEMMA NotPuttingBack ==
    ASSUME RenameInv, NEW p \in Worker, plan[p].phase # "restoring" \/ plan[p].left = {}
    PROVE  ~PuttingBack
<1> SUFFICES ASSUME NEW q \in Programs, plan[q].phase = "restoring", plan[q].left # {}
             PROVE  FALSE
  BY DEF PuttingBack
<1>1. q # p
  OBVIOUS
<1>2. q \in Queuers /\ PlanOK(q)
  BY <1>1, RenameAssumption DEF Worker, RenameInv, PlanInv
<1> QED
  BY <1>2, NothingHeld DEF PlanOK

(* What a step of VaultFiles that does not stray leaves. *)
LEMMA NotStrayed ==
    ASSUME RenameInv, NEW p \in Programs, VaultSteps(p), ~strayed'
    PROVE  /\ ~strayed
           /\ configured' = configured
           /\ plain' = NoFile \/ Single(plain')
           /\ secrets' = NoFile \/ Single(secrets'.doc)
           /\ Single(Base')
           /\ \A i \in Ids : pending[i] = NoFile /\ pending'[i] # NoFile =>
                 pending'[i].name = configured /\ \A q \in Programs : plan[q].held[i] = NoFile
           /\ Hidden(p) => plain' = plain /\ step[p] # "writeSecrets"
<1> DEFINE new == {i \in Ids : pending[i] = NoFile /\ pending'[i] # NoFile}
<1>1. /\ ~strayed /\ configured' = configured
      /\ \A q \in Programs : \A i \in new : plan[q].held[i] = NoFile
      /\ ~Doubled(plain') /\ ~Doubled(IF secrets' = NoFile THEN NoFile ELSE secrets'.doc)
      /\ \A i \in new : pending'[i].name = configured
      /\ Hidden(p) => plain' = plain /\ step[p] # "writeSecrets"
  BY DEF VaultSteps
<1>2. RenameInv'
  BY VaultStepsKeep
<1>3. secrets' # NoFile => secrets'.doc # NoFile /\ secrets'.doc \in Documents
  BY <1>2, FilesAssumption DEF RenameInv, VaultInv, TypeOK, Files, Secrets
<1>4. plain' = NoFile \/ Single(plain')
  BY <1>1, NotDoubled
<1>5. secrets' = NoFile \/ Single(secrets'.doc)
  BY <1>1, <1>3, NotDoubled
<1>6. Single(NoEntries)
  BY DEF Single, NoEntries, NoEntry, Entered
<1>7. Single(Base')
  BY <1>4, <1>5, <1>6 DEF Base
<1> HIDE DEF new
<1>8. \A i \in Ids : pending[i] = NoFile /\ pending'[i] # NoFile => i \in new
  BY DEF new
<1> QED BY <1>1, <1>4, <1>5, <1>7, <1>8

(* A worker that works on the vault has no plan, before and after. *)
LEMMA NoPlanStays ==
    ASSUME RenameInv, NEW p \in Worker, VaultSteps(p)
    PROVE  plan[p] = NoPlan /\ plan'[p] = NoPlan /\ Works(p) /\ Steps(p) /\ ~PuttingBack /\ PlanKept(p)'
<1>1. plan[p] = NoPlan /\ Works(p) /\ Steps(p)
  BY DEF VaultSteps, Works, Worker
<1>2. plan'[p] = NoPlan
  BY <1>1 DEF VaultSteps, Worker
<1>3. ~PuttingBack
  BY <1>1, NotPuttingBack, NothingHeld
<1>4. PlanKept(p)'
  BY <1>2, NothingHeld DEF PlanKept, NamesKept, FreshKept, EntryKept, UndoKept, Holding
<1> QED BY <1>1, <1>2, <1>3, <1>4

(* A step of a worker without a plan, in parts. *)
LEMMA WorkStep ==
    ASSUME RenameInv, NEW p \in Worker, VaultSteps(p),
           QueueKept', Tidy(Base, configured)', (Queued = {} => Fits(Base, may))', WorkKept(p)'
    PROVE  SecretInv'
BY OneWorker, NoPlanStays DEF SecretInv, BaseKept

(* A step that leaves the vault's document, what is queued and what the     *)
(* role may have, or adds to the last.                                      *)
LEMMA VaultSame ==
    ASSUME RenameInv, SecretInv, ~strayed, NEW p \in Worker, plan[p] = NoPlan,
           plain' = plain, secrets' = secrets, pending' = pending, may \subseteq may', configured' = configured
    PROVE  /\ QueueKept' /\ Tidy(Base, configured)' /\ (Queued = {} => Fits(Base, may))'
           /\ Base' = Base /\ Queued' = Queued
           /\ Queued = {} => Fits(Base, may)
           /\ Fits(Base, may) => Fits(Base, may)'
<1>1. Base' = Base /\ Queued' = Queued
  BY DEF Base, Queued
<1>2. Queued = {} => Fits(Base, may)
  BY NotPuttingBack, NothingHeld, Before DEF BaseKept
<1>3. Fits(Base, may) => Fits(Base', may')
  BY <1>1, FitsMore
<1>4. QueueKept /\ Tidy(Base, configured)
  BY Before DEF BaseKept
<1>5. QueueKept'
  BY <1>1, <1>4 DEF QueueKept
<1> QED BY <1>1, <1>2, <1>3, <1>4, <1>5

(* A step of a worker that leaves all that. *)
LEMMA QuietStep ==
    ASSUME RenameInv, SecretInv, NEW p \in Worker, VaultSteps(p), ~strayed',
           plain' = plain, secrets' = secrets, pending' = pending, may \subseteq may', WorkKept(p)'
    PROVE  SecretInv'
<1>1. ~strayed /\ configured' = configured
  BY NotStrayed DEF Worker
<1> QED
  BY <1>1, VaultSame, NoPlanStays, WorkStep

(* A worker that is done. *)
LEMMA DoneKept ==
    ASSUME NEW p, step'[p] = "idle", job'[p] = NoJob,
           unlocked'[p] # 0 /\ plain' = NoFile => Same(doc'[p], Base')
    PROVE  WorkKept(p)'
BY NoJobTyped DEF WorkKept, AtBase

(* What Returns leaves. *)
LEMMA ReturnsLeaves ==
    ASSUME TypeOK, NEW p \in Programs, Returns(p)
    PROVE  /\ step'[p] = "idle" /\ job'[p] = NoJob
           /\ Changes(job[p].op) => may' = {job[p].val} \cup {pending[i].val : i \in Queued}
           /\ ~Changes(job[p].op) => may' = may
BY DEF TypeOK, Returns, Stops, Goes, history

---------------------------------------------------------------------------
(* The steps of the worker, but those that queue *)

LEMMA SetSecret ==
    ASSUME RenameInv, SecretInv, NEW p \in Worker, VaultSteps(p), ~strayed', NEW v \in Values, Set(p, v)
    PROVE  SecretInv'
<1>1. ~strayed /\ configured' = configured
  BY NotStrayed DEF Worker
<1>2. /\ QueueKept /\ BaseKept /\ WorkKept(p) /\ TypeOK /\ p \in Programs /\ configured \in Names
      /\ doc[p] \in Documents /\ Base \in Documents /\ v \in Roles /\ v # NoValue
  BY <1>1, Before, FilesAssumption
<1>3. /\ UNCHANGED files /\ unlocked' = unlocked /\ names' = names /\ may \subseteq may'
      /\ job'[p] = [op |-> "set", name |-> configured, val |-> v]
  BY <1>2 DEF Set, Begin, TypeOK
<1>4. Base' = Base /\ Queued' = Queued /\ plain' = plain
  BY <1>3 DEF Base, Queued, files
<1>5. WorkKept(p)'
  <2>1. CASE State(p) = "absent"
    <3>1. doc'[p] = With(NoEntries, configured, v) /\ step'[p] \in {"writePlain", "writeRecipient"}
      BY <1>2, <2>1 DEF Set, Goes, TypeOK
    <3>2. doc'[p][configured].val = v
      BY <1>2, <3>1, WithSets, NoEntriesTyped
    <3> QED BY <1>1, <1>2, <1>3, <3>1, <3>2 DEF WorkKept, AtBase
  <2>2. CASE State(p) = "unencrypted"
    <3>1. doc'[p] = plain /\ step'[p] = "loaded" /\ plain # NoFile
      BY <1>2, <2>2 DEF Set, Goes, TypeOK, State
    <3>2. Same(doc'[p], Base')
      BY <1>4, <3>1, SameSelf DEF Base
    <3> QED BY <1>1, <1>2, <1>3, <3>1, <3>2 DEF WorkKept, AtBase
  <2>3. CASE State(p) = "locked"
    <3>1. step'[p] = "queueing" /\ unlocked'[p] = 0
      BY <1>2, <1>3, <2>3 DEF Set, Goes, TypeOK, State
    <3> QED BY <1>1, <1>2, <1>3, <3>1 DEF WorkKept, AtBase
  <2>4. CASE State(p) = "unlocked"
    <3>1. doc'[p] = With(doc[p], configured, v) /\ step'[p] = "writeSecrets"
      BY <1>2, <2>4 DEF Set, Goes, TypeOK
    <3>2. doc'[p][configured].val = v
      BY <1>2, <3>1, WithSets
    <3> QED BY <1>1, <1>2, <1>3, <3>1, <3>2 DEF WorkKept, AtBase
  <2> QED BY <2>1, <2>2, <2>3, <2>4 DEF State
<1> QED
  BY <1>3, <1>5, QuietStep DEF files

LEMMA DeleteSecret ==
    ASSUME RenameInv, SecretInv, NEW p \in Worker, VaultSteps(p), ~strayed', Delete(p)
    PROVE  SecretInv'
<1>1. ~strayed /\ configured' = configured
  BY NotStrayed DEF Worker
<1>2. /\ QueueKept /\ BaseKept /\ WorkKept(p) /\ TypeOK /\ p \in Programs /\ configured \in Names
      /\ doc[p] \in Documents /\ Base \in Documents /\ step[p] = "idle"
  BY <1>1, Before DEF Delete, Begin
<1>3. /\ UNCHANGED files /\ unlocked' = unlocked /\ names' = names /\ may \subseteq may'
      /\ job'[p] = [op |-> "delete", name |-> configured, val |-> NoValue]
  BY <1>2 DEF Delete, Begin, TypeOK
<1>4. Base' = Base /\ Queued' = Queued /\ plain' = plain
  BY <1>3 DEF Base, Queued, files
<1>5. WorkKept(p)'
  <2>1. CASE State(p) = "unencrypted"
    <3>1. doc'[p] = plain /\ step'[p] = "loaded" /\ plain # NoFile /\ Entered(plain, configured)
      BY <1>2, <2>1 DEF Delete, Goes, TypeOK, State, Entered
    <3>2. Same(doc'[p], Base')
      BY <1>4, <3>1, SameSelf DEF Base
    <3> QED BY <1>1, <1>2, <1>3, <3>1, <3>2 DEF WorkKept, AtBase
  <2>2. CASE State(p) = "locked"
    <3>1. step'[p] = "open" /\ unlocked'[p] = 0
      BY <1>2, <1>3, <2>2 DEF Delete, Goes, TypeOK, State
    <3> QED BY <1>1, <1>2, <1>3, <3>1 DEF WorkKept, AtBase
  <2>3. CASE State(p) = "unlocked"
    <3>1. /\ doc'[p] = With(doc[p], configured, NoValue) /\ step'[p] = "writeSecrets"
          /\ Entered(doc[p], configured) /\ unlocked[p] # 0
      BY <1>2, <2>3 DEF Delete, Goes, TypeOK, State, Entered
    <3>2. plain = NoFile => Same(doc[p], Base)
      BY <1>2, <3>1 DEF WorkKept, AtBase
    <3>3. plain = NoFile => Single(doc[p])
      BY <1>2, <3>2, SameTidy DEF BaseKept, Tidy
    <3>4. plain' = NoFile => \A n \in Names : ~Entered(doc'[p], n)
      BY <1>2, <1>4, <3>1, <3>3, WithoutIt
    <3> QED BY <1>1, <1>2, <1>3, <3>1, <3>4 DEF WorkKept, AtBase
  <2> QED BY <2>1, <2>2, <2>3 DEF State, Delete
<1> QED
  BY <1>3, <1>5, QuietStep DEF files

LEMMA OtherBegins ==
    ASSUME RenameInv, SecretInv, NEW p \in Worker, VaultSteps(p), ~strayed', Get(p) \/ Encrypt(p) \/ Decrypt(p)
    PROVE  SecretInv'
<1>1. ~strayed /\ configured' = configured
  BY NotStrayed DEF Worker
<1>2. /\ WorkKept(p) /\ TypeOK /\ p \in Programs /\ step[p] = "idle"
  BY <1>1, Before DEF Get, Encrypt, Decrypt, Begin
<1>3. /\ UNCHANGED files /\ unlocked' = unlocked /\ names' = names /\ may \subseteq may'
  BY <1>2 DEF Get, Encrypt, Decrypt, Begin
<1>4. Base' = Base /\ Queued' = Queued
  BY <1>3 DEF Base, Queued, files
<1>5. WorkKept(p)'
  <2>1. CASE Get(p) \/ Decrypt(p)
    <3>1. /\ step'[p] = "open" /\ doc' = doc /\ job'[p].name = configured /\ job'[p].op \in {"get", "decrypt"}
      BY <1>2, <2>1 DEF Get, Decrypt, Begin, Goes, TypeOK
    <3>2. unlocked[p] # 0 /\ plain = NoFile => Same(doc'[p], Base')
      BY <1>2, <1>4, <3>1 DEF WorkKept, AtBase
    <3> QED BY <1>1, <1>3, <3>1, <3>2 DEF WorkKept, AtBase, files
  <2>2. CASE Encrypt(p)
    <3>1. /\ step'[p] = "writeRecipient" /\ job'[p].name = configured /\ job'[p].op = "encrypt"
          /\ doc'[p] = IF plain = NoFile THEN NoEntries ELSE plain
          /\ plain # NoFile \/ keyFile = NoFile
      BY <1>2, <2>2 DEF Encrypt, Begin, Goes, TypeOK, State
    <3>2. doc'[p] = Base
      BY <3>1, BaseTyped
    <3>3. Same(doc'[p], Base')
      BY <1>4, <3>2, SameSelf
    <3> QED BY <1>1, <3>1, <3>3 DEF WorkKept, AtBase
  <2> QED BY <2>1, <2>2
<1> QED
  BY <1>3, <1>5, QuietStep DEF files

(* One value written, and acknowledged. *)
LEMMA OneWritten ==
    ASSUME RenameInv, SecretInv, NEW p \in Worker, VaultSteps(p), ~strayed',
           Returns(p), pending' = pending, job[p].name = configured,
           \/ job[p].op = "set" /\ Base'[configured].val = job[p].val /\ job[p].val # NoValue
           \/ job[p].op = "delete" /\ job[p].val = NoValue /\ \A n \in Names : ~Entered(Base', n),
           unlocked'[p] # 0 /\ plain' = NoFile => Same(doc'[p], Base')
    PROVE  SecretInv'
<1>1. ~strayed /\ configured' = configured /\ Single(Base')
  BY NotStrayed DEF Worker
<1>2. QueueKept /\ TypeOK /\ p \in Programs /\ configured \in Names
  BY <1>1, Before
<1>3. step'[p] = "idle" /\ job'[p] = NoJob /\ may' = {job[p].val} \cup {pending[i].val : i \in Queued}
  BY <1>2, ReturnsLeaves DEF Changes
<1>4. QueueKept'
  BY <1>1, <1>2, <1>3 DEF QueueKept, Queued
<1>5. Tidy(Base', configured) /\ Fits(Base', may')
  <2>1. CASE job[p].op = "set"
    <3>1. Entered(Base', configured) /\ Base'[configured].val \in may'
      BY <1>3, <2>1 DEF Entered
    <3> QED BY <1>1, <1>2, <3>1, OneEntry
  <2>2. CASE job[p].op = "delete"
    <3>1. NoValue \in may' /\ \A n \in Names : ~Entered(Base', n)
      BY <1>3, <2>2
    <3> QED BY <3>1, NoEntry1
  <2> QED BY <2>1, <2>2
<1>6. WorkKept(p)'
  BY <1>3, DoneKept
<1> QED
  BY <1>1, <1>4, <1>5, <1>6, WorkStep

LEMMA LoadedWritten ==
    ASSUME RenameInv, SecretInv, NEW p \in Worker, VaultSteps(p), ~strayed', WriteLoaded(p)
    PROVE  SecretInv'
<1>1. ~strayed /\ configured' = configured
  BY NotStrayed DEF Worker
<1>2. /\ BaseKept /\ WorkKept(p) /\ TypeOK /\ StepOK(p) /\ p \in Programs /\ configured \in Names
      /\ doc[p] \in Documents /\ Base \in Documents /\ job[p].val \in Roles
  BY <1>1, Before DEF TypeOK
<1>3. /\ plain' = Result(p) /\ Returns(p) /\ pending' = pending /\ unlocked' = unlocked /\ unlocked[p] = 0
      /\ job[p].op \in {"set", "delete"} /\ job[p].name = configured
  BY <1>2 DEF WriteLoaded, StepOK, WorkKept
<1>4. plain' = With(doc[p], configured, job[p].val) /\ plain' # NoFile
  <2>1. plain' = With(doc[p], configured, job[p].val)
    BY <1>3 DEF Result, Changes
  <2>2. plain' \in Documents
    BY <1>2, <2>1, WithTyped
  <2> QED BY <2>1, <2>2, FilesAssumption
<1>5. Base' = With(doc[p], configured, job[p].val)
  BY <1>4 DEF Base
<1>6. CASE job[p].op = "set"
  BY <1>2, <1>3, <1>5, <1>6, OneWritten, WithSets DEF WorkKept
<1>7. CASE job[p].op = "delete"
  <2>1. job[p].val = NoValue /\ Entered(doc[p], configured) /\ Same(doc[p], Base)
    BY <1>2, <1>7 DEF WorkKept, AtBase, WriteLoaded
  <2>2. Single(doc[p])
    BY <1>2, <2>1, SameTidy DEF BaseKept, Tidy
  <2>3. \A n \in Names : ~Entered(Base', n)
    BY <1>2, <1>5, <2>1, <2>2, WithoutIt
  <2> QED BY <1>3, <1>7, <2>1, <2>3, OneWritten
<1> QED BY <1>3, <1>6, <1>7

(* A program that fails knows no more than before. *)
LEMMA FailsKept ==
    ASSUME RenameInv, SecretInv, NEW p \in Worker, VaultSteps(p), ~strayed',
           Fails(p), UNCHANGED <<files, doc>>, unlocked[p] # 0 /\ plain = NoFile => AtBase(p)
    PROVE  SecretInv'
<1>1. ~strayed /\ configured' = configured
  BY NotStrayed DEF Worker
<1>2. WorkKept(p) /\ TypeOK /\ p \in Programs
  BY <1>1, Before
<1>3. step'[p] = "idle" /\ job'[p] = NoJob /\ unlocked' = unlocked /\ may' = may
  BY <1>2 DEF Fails, Stops, Goes, TypeOK, history
<1>4. Base' = Base
  BY DEF Base, files
<1>5. unlocked'[p] # 0 /\ plain' = NoFile => Same(doc'[p], Base')
  BY <1>2, <1>3, <1>4 DEF WorkKept, files
<1>6. WorkKept(p)'
  BY <1>3, <1>5, DoneKept
<1> QED BY <1>3, <1>6, QuietStep DEF files

LEMMA OpenedRead ==
    ASSUME RenameInv, SecretInv, NEW p \in Worker, VaultSteps(p), ~strayed', Open(p)
    PROVE  SecretInv'
<1>1. ~strayed /\ configured' = configured
  BY NotStrayed DEF Worker
<1>2. WorkKept(p) /\ TypeOK /\ StepOK(p) /\ p \in Programs
  BY <1>1, Before
<1>3. CASE Fails(p) /\ UNCHANGED doc
  <2>1. unlocked[p] # 0 /\ plain = NoFile => AtBase(p)
    BY DEF Open, AtBase
  <2> QED BY <1>3, <2>1, FailsKept DEF Open
<1>4. CASE /\ doc' = [doc EXCEPT ![p] = IF secrets = NoFile THEN NoEntries ELSE secrets.doc]
           /\ Goes(p, "listing")
           /\ UNCHANGED <<job, names, history, unlocked>>
  <2>1. step'[p] = "listing" /\ doc'[p] = (IF secrets = NoFile THEN NoEntries ELSE secrets.doc)
    BY <1>2, <1>4 DEF Goes, TypeOK
  <2>2. UNCHANGED files
    BY DEF Open
  <2>3. Base' = Base /\ plain' = plain /\ (plain = NoFile => doc'[p] = Base)
    BY <2>1, <2>2 DEF Base, files
  <2>4. plain' = NoFile => Same(doc'[p], Base')
    BY <2>3, SameSelf
  <2>5. WorkKept(p)'
    BY <1>1, <1>2, <1>4, <2>1, <2>4 DEF WorkKept, AtBase, Open
  <2> QED BY <1>4, <2>2, <2>5, QuietStep DEF files, history
<1> QED BY <1>3, <1>4 DEF Open

LEMMA ListedKept ==
    ASSUME RenameInv, SecretInv, NEW p \in Worker, VaultSteps(p), ~strayed', List(p)
    PROVE  SecretInv'
<1>1. ~strayed /\ configured' = configured
  BY NotStrayed DEF Worker
<1>2. WorkKept(p) /\ TypeOK /\ p \in Programs
  BY <1>1, Before
<1>3. /\ UNCHANGED <<files, history, unlocked, doc, job>> /\ step[p] = "listing"
      /\ step'[p] = "merging" /\ names'[p] = Queued
  BY <1>2 DEF List, Goes, TypeOK
<1>4. Base' = Base /\ Queued' = Queued
  BY <1>3 DEF Base, Queued, files
<1>5. WorkKept(p)'
  BY <1>1, <1>2, <1>3, <1>4 DEF WorkKept, AtBase, files
<1> QED BY <1>3, <1>5, QuietStep DEF files, history

LEMMA MergedKept ==
    ASSUME RenameInv, SecretInv, NEW p \in Worker, VaultSteps(p), ~strayed', Merge(p)
    PROVE  SecretInv'
<1>1. ~strayed /\ configured' = configured
  BY NotStrayed DEF Worker
<1>2. /\ QueueKept /\ WorkKept(p) /\ TypeOK /\ p \in Programs /\ doc[p] \in Documents /\ configured \in Names
      /\ \A i \in Queued : pending[i] \in Payloads
  BY <1>1, Before
<1>3. CASE Fails(p) /\ UNCHANGED doc
  <2>1. unlocked[p] # 0 /\ plain = NoFile => AtBase(p)
    BY DEF Merge, AtBase
  <2> QED BY <1>3, <2>1, FailsKept DEF Merge
<1>4. CASE /\ doc' = [doc EXCEPT ![p] = MergedWith(doc[p], Queued)]
           /\ Goes(p, IF Queued = {} THEN "clearing" ELSE "merged")
           /\ names' = [names EXCEPT ![p] = IF Queued = {} THEN {} ELSE @]
           /\ UNCHANGED <<history, unlocked, job, key>>
  <2>1. /\ step[p] = "merging" /\ UNCHANGED files /\ may' = may /\ job' = job /\ unlocked' = unlocked
        /\ doc'[p] = MergedWith(doc[p], Queued)
        /\ step'[p] = IF Queued = {} THEN "clearing" ELSE "merged"
        /\ names'[p] = IF Queued = {} THEN {} ELSE names[p]
    BY <1>2, <1>4 DEF Merge, Goes, TypeOK, history
  <2>2. Base' = Base /\ Queued' = Queued
    BY <2>1 DEF Base, Queued, files
  <2>3. CASE Queued = {}
    <3>1. doc'[p] = doc[p]
      BY <1>2, <2>1, <2>3, MergedNone
    <3>2. plain' = NoFile => Same(doc'[p], Base')
      BY <1>2, <2>1, <2>2, <3>1 DEF WorkKept, AtBase, files
    <3>3. Fits(Base', may')
      BY <1>1, <2>1, <2>3, NoPlanStays, VaultSame DEF files
    <3>4. WorkKept(p)'
      BY <1>1, <1>2, <2>1, <2>2, <2>3, <3>2, <3>3 DEF WorkKept, AtBase
    <3> QED BY <2>1, <3>4, QuietStep DEF files
  <2>4. CASE Queued # {}
    <3>1. /\ Queued \in SUBSET Ids
          /\ \A i \in Queued : pending[i] \in Payloads /\ pending[i].name = configured /\ pending[i].val \in may
          /\ doc[p] \in Documents /\ configured \in Names
      BY <1>2 DEF QueueKept, Queued, TypeOK
    <3>2. Entered(doc'[p], configured) /\ doc'[p][configured].val \in may
      <4>1. /\ MergedWith(doc[p], Queued)[configured].val \in may
            /\ Entered(MergedWith(doc[p], Queued), configured)
        BY <2>4, <3>1, MergedOne
      <4> QED BY <2>1, <4>1
    <3>3. /\ step'[p] = "merged" /\ names'[p] = names[p] /\ job'[p] = job[p]
          /\ names[p] \subseteq Queued /\ job[p].name = configured
          /\ job[p].op = "set" => job[p].val # NoValue
          /\ job[p].op = "delete" => job[p].val = NoValue
      BY <1>2, <2>1, <2>4 DEF WorkKept
    <3>4. ~AtBase(p)' /\ plain' = NoFile
      BY <1>1, <2>1, <2>4, <3>3, BaseTyped DEF AtBase, files
    <3>5. WorkKept(p)'
      BY <1>1, <2>1, <2>2, <3>2, <3>3, <3>4 DEF WorkKept
    <3> QED BY <2>1, <3>5, QuietStep DEF files
  <2> QED BY <2>3, <2>4
<1> QED BY <1>3, <1>4 DEF Merge

LEMMA MergedWritten ==
    ASSUME RenameInv, SecretInv, NEW p \in Worker, VaultSteps(p), ~strayed', WriteMerged(p)
    PROVE  SecretInv'
<1>1. ~strayed /\ configured' = configured /\ Single(Base')
  BY NotStrayed DEF Worker
<1>2. /\ QueueKept /\ WorkKept(p) /\ TypeOK /\ StepOK(p) /\ p \in Programs /\ configured \in Names
  BY <1>1, Before
<1>3. /\ step[p] = "merged" /\ secrets' = [key |-> key[p], doc |-> doc[p]] /\ step'[p] = "clearing"
      /\ UNCHANGED <<plain, pending, may, unlocked, doc, job, names>> /\ plain = NoFile
  BY <1>2 DEF WriteMerged, Goes, TypeOK, history, WorkKept
<1>4. secrets' # NoFile
  BY <1>2, VaultStepsKeep, <1>3, FilesAssumption DEF TypeOK, StepOK, Opening, Locked, Files, Secrets
<1>5. Base' = doc[p] /\ Queued' = Queued
  BY <1>3, <1>4 DEF Base, Queued
<1>6. /\ Entered(Base', configured) /\ names[p] \subseteq Queued
      /\ Queued \subseteq names[p] => Base'[configured].val \in may
  BY <1>2, <1>3, <1>5 DEF WorkKept
<1>7. Tidy(Base', configured) /\ (Queued' \subseteq names'[p] => Fits(Base', may'))
  BY <1>1, <1>2, <1>3, <1>5, <1>6, OneEntry
<1>8. QueueKept'
  BY <1>1, <1>2, <1>3, <1>5 DEF QueueKept
<1>9. Same(doc'[p], Base')
  BY <1>3, <1>5, SameSelf
<1>10. WorkKept(p)'
  BY <1>1, <1>2, <1>3, <1>5, <1>6, <1>7, <1>9 DEF WorkKept, AtBase
<1> QED
  BY <1>1, <1>7, <1>8, <1>10, WorkStep

LEMMA PendingRemoved ==
    ASSUME RenameInv, SecretInv, NEW p \in Worker, VaultSteps(p), ~strayed', RemovePending(p)
    PROVE  SecretInv'
<1>1. ~strayed /\ configured' = configured
  BY NotStrayed DEF Worker
<1>2. /\ QueueKept /\ BaseKept /\ WorkKept(p) /\ TypeOK /\ p \in Programs
  BY <1>1, Before
<1>3. PICK i \in names[p] : /\ pending' \in {pending, [pending EXCEPT ![i] = NoFile]}
                            /\ names' = [names EXCEPT ![p] = @ \ {i}]
  BY DEF RemovePending
<1>4. /\ step[p] = "clearing" /\ step' = step /\ UNCHANGED <<plain, secrets, may, unlocked, doc, job>>
  BY DEF RemovePending, history
<1>5. /\ Queued' \in {Queued, Queued \ {i}} /\ names'[p] = names[p] \ {i}
      /\ \A j \in Queued' : pending'[j] = pending[j]
  BY <1>2, <1>3 DEF Queued, TypeOK
<1>6. Base' = Base
  BY <1>4 DEF Base
<1>7. names[p] \subseteq Queued /\ (Queued \subseteq names[p] => Fits(Base, may))
  BY <1>2, <1>4 DEF WorkKept
<1>8. /\ names'[p] \subseteq Queued' /\ (Queued' \subseteq names'[p] => Fits(Base', may'))
      /\ Queued' = {} => Fits(Base', may')
  BY <1>3, <1>4, <1>5, <1>6, <1>7
<1>9. QueueKept' /\ Tidy(Base', configured)
  BY <1>1, <1>2, <1>4, <1>5, <1>6 DEF QueueKept, BaseKept
<1>10. WorkKept(p)'
  BY <1>1, <1>2, <1>4, <1>6, <1>8 DEF WorkKept, AtBase
<1> QED BY <1>1, <1>8, <1>9, <1>10, WorkStep

LEMMA OpenedKept ==
    ASSUME RenameInv, SecretInv, NEW p \in Worker, VaultSteps(p), ~strayed', Opened(p)
    PROVE  SecretInv'
<1>1. ~strayed /\ configured' = configured
  BY NotStrayed DEF Worker
<1>2. /\ BaseKept /\ WorkKept(p) /\ TypeOK /\ StepOK(p) /\ p \in Programs
      /\ doc[p] \in Documents /\ Base \in Documents /\ configured \in Names /\ NoValue \in Roles
  BY <1>1, Before
<1>3. /\ step[p] = "clearing" /\ UNCHANGED <<files, names, may>> /\ doc'[p] = Result(p)
      /\ job[p].op \in {"get", "delete", "decrypt"} /\ job[p].name = configured
  BY <1>2 DEF Opened, TypeOK, StepOK, Opening, WorkKept, history, Stops
<1>4. /\ Base' = Base /\ plain' = plain
      /\ plain = NoFile => Same(doc[p], Base)
      /\ job[p].op # "decrypt" => plain = NoFile
  BY <1>2, <1>3 DEF Base, files, WorkKept, AtBase, StepOK, Opening, Locked
<1>5. job[p].op # "delete" => doc'[p] = doc[p]
  BY <1>3 DEF Result, Changes
<1>6. job[p].op = "delete" => doc'[p] = With(doc[p], configured, NoValue)
  BY <1>2, <1>3 DEF Result, Changes, WorkKept
<1>7. WorkKept(p)'
  <2>1. CASE job[p].op = "delete" /\ doc[p][job[p].name].val # NoValue
    <3>1. step'[p] = "writeSecrets" /\ job' = job
      BY <1>2, <2>1 DEF Opened, Goes, TypeOK
    <3>2. Single(doc[p])
      BY <1>2, <1>4, <2>1, SameTidy DEF BaseKept, Tidy
    <3>3. \A n \in Names : ~Entered(doc'[p], n)
      BY <1>2, <1>3, <1>6, <2>1, <3>2, WithoutIt DEF Entered
    <3> QED BY <1>1, <1>2, <1>3, <2>1, <3>1, <3>3 DEF WorkKept, AtBase
  <2>2. CASE job[p].op = "decrypt"
    <3>1. step'[p] = "writePlain" /\ job' = job
      BY <1>2, <2>2 DEF Opened, Goes, TypeOK
    <3>2. plain' = NoFile => Same(doc'[p], Base')
      BY <1>4, <1>5, <2>2
    <3> QED BY <1>1, <1>2, <1>3, <2>2, <3>1, <3>2 DEF WorkKept, AtBase
  <2>3. CASE job[p].op # "decrypt" /\ ~(job[p].op = "delete" /\ doc[p][job[p].name].val # NoValue)
    <3>1. step'[p] = "idle" /\ job'[p] = NoJob
      BY <1>2, <2>3 DEF Opened, Stops, Goes, TypeOK
    <3>2. CASE job[p].op # "delete"
      BY <1>4, <1>5, <3>1, <3>2, DoneKept
    <3>3. CASE job[p].op = "delete"
      <4>1. Same(doc'[p], doc[p])
        BY <1>2, <1>3, <1>6, <2>3, <3>3, WithSets
      <4>2. Same(doc'[p], Base')
        BY <1>4, <3>3, <4>1 DEF Same, Entered
      <4> QED BY <3>1, <4>2, DoneKept
    <3> QED BY <3>2, <3>3
  <2> QED BY <2>1, <2>2, <2>3
<1> QED BY <1>3, <1>7, QuietStep DEF files

LEMMA RecipientRead ==
    ASSUME RenameInv, SecretInv, NEW p \in Worker, VaultSteps(p), ~strayed', ReadRecipient(p)
    PROVE  SecretInv'
<1>1. ~strayed /\ configured' = configured
  BY NotStrayed DEF Worker
<1>2. WorkKept(p) /\ TypeOK /\ p \in Programs /\ step[p] = "queueing"
  BY <1>1, Before DEF ReadRecipient
<1>3. unlocked[p] = 0
  BY <1>2 DEF WorkKept
<1>4. CASE Fails(p)
  BY <1>3, <1>4, FailsKept DEF ReadRecipient
<1>5. CASE UNCHANGED <<step, job, names, history, unlocked>>
  <2>1. UNCHANGED <<plain, secrets, pending, may, doc>>
    BY <1>5 DEF ReadRecipient, files, history
  <2>2. Base' = Base /\ Queued' = Queued
    BY <2>1 DEF Base, Queued
  <2>3. WorkKept(p)'
    BY <1>1, <1>2, <1>5, <2>1, <2>2 DEF WorkKept, AtBase
  <2> QED BY <2>1, <2>3, QuietStep
<1> QED BY <1>4, <1>5 DEF ReadRecipient

(* What is queued, by whomever, may win from now on.                        *)
LEMMA QueuedKept ==
    ASSUME RenameInv, SecretInv, NEW p \in Programs, VaultSteps(p), ~strayed', AddPending(p)
    PROVE  /\ QueueKept' /\ Tidy(Base, configured)' /\ Base' = Base
           /\ \E i \in Ids \ Queued : Queued' = Queued \cup {i} /\ pending' = [pending EXCEPT ![i] = pending'[i]]
           /\ may' = {job[p].val} \cup {pending[i].val : i \in Queued}
<1>1. /\ ~strayed /\ configured' = configured
      /\ \A i \in Ids : pending[i] = NoFile /\ pending'[i] # NoFile => pending'[i].name = configured
  BY NotStrayed
<1>2. QueueKept /\ BaseKept /\ TypeOK /\ StepOK(p)
  BY <1>1 DEF SecretInv, RenameInv, VaultInv
<1>3. PICK i \in Ids \ Queued :
         pending' = [pending EXCEPT ![i] = [key |-> key[p], name |-> job[p].name, val |-> job[p].val]]
  BY DEF AddPending
<1> DEFINE new == [key |-> key[p], name |-> job[p].name, val |-> job[p].val]
<1>4. new # NoFile /\ new.val = job[p].val
  <2>1. new \in Payloads
    BY <1>2, FilesAssumption DEF AddPending, TypeOK, StepOK, Payloads, Keys
  <2> QED BY <2>1, FilesAssumption
<1> HIDE DEF new
<1>5. pending'[i] = new /\ (\A j \in Ids \ {i} : pending'[j] = pending[j])
  BY <1>2, <1>3 DEF new, TypeOK
<1>6. Queued' = Queued \cup {i} /\ pending[i] = NoFile /\ pending' = [pending EXCEPT ![i] = pending'[i]]
  BY <1>2, <1>3, <1>4, <1>5 DEF Queued, TypeOK
<1>7. may' = {job[p].val} \cup {pending[j].val : j \in Queued}
  BY DEF AddPending
<1>8. QueueKept'
  <2> SUFFICES ASSUME NEW j \in Queued' PROVE pending'[j].name = configured' /\ pending'[j].val \in may'
    BY DEF QueueKept
  <2>1. CASE j = i
    BY <1>1, <1>4, <1>5, <1>6, <1>7, <2>1
  <2>2. CASE j # i
    <3>1. j \in Queued /\ pending'[j] = pending[j]
      BY <1>5, <1>6, <2>2 DEF Queued
    <3> QED BY <1>1, <1>2, <1>7, <3>1 DEF QueueKept
  <2> QED BY <2>1, <2>2
<1>9. Base' = Base
  BY DEF AddPending, Base
<1>10. Tidy(Base', configured')
  BY <1>1, <1>2, <1>9 DEF BaseKept
<1> QED BY <1>6, <1>7, <1>8, <1>9, <1>10

LEMMA PendingAdded ==
    ASSUME RenameInv, SecretInv, NEW p \in Worker, VaultSteps(p), ~strayed', AddPending(p)
    PROVE  SecretInv'
<1>1. ~strayed /\ p \in Programs
  BY NotStrayed DEF Worker
<1>2. WorkKept(p) /\ TypeOK
  BY <1>1, Before
<1>3. QueueKept' /\ Tidy(Base, configured)' /\ Queued' # {}
  BY <1>1, QueuedKept
<1>4. step'[p] = "idle" /\ job'[p] = NoJob /\ unlocked'[p] = 0
  BY <1>1, <1>2 DEF AddPending, Stops, Goes, TypeOK, WorkKept
<1>5. WorkKept(p)'
  BY <1>4, DoneKept
<1> QED BY <1>3, <1>5, WorkStep

LEMMA KeyWritten ==
    ASSUME RenameInv, SecretInv, NEW p \in Worker, VaultSteps(p), ~strayed', WriteRecipient(p) \/ WriteKey(p)
    PROVE  SecretInv'
<1>1. ~strayed /\ configured' = configured
  BY NotStrayed DEF Worker
<1>2. WorkKept(p) /\ StepOK(p) /\ TypeOK /\ p \in Programs
  BY <1>1, Before
<1>3. /\ step[p] \in {"writeRecipient", "writeKey"} /\ step'[p] \in {"writeKey", "writeSecrets"}
      /\ UNCHANGED <<plain, secrets, pending, may, doc, job, names, unlocked>>
  BY <1>2 DEF WriteRecipient, WriteKey, Goes, TypeOK, history
<1>4. unlocked[p] = 0 /\ job[p].op \in {"set", "encrypt"}
  BY <1>2, <1>3 DEF StepOK
<1>5. Base' = Base /\ Queued' = Queued
  BY <1>3 DEF Base, Queued
<1>6. WorkKept(p)'
  BY <1>1, <1>2, <1>3, <1>4, <1>5 DEF WorkKept, AtBase
<1> QED BY <1>3, <1>6, QuietStep

(* A step that leaves the vault the entries it has.                         *)
LEMMA SameWritten ==
    ASSUME RenameInv, SecretInv, NEW p \in Worker, VaultSteps(p), ~strayed',
           Same(Base, Base'), pending' = pending, may' = may, WorkKept(p)'
    PROVE  SecretInv'
<1>1. ~strayed /\ configured' = configured
  BY NotStrayed DEF Worker
<1>2. QueueKept /\ BaseKept /\ ~PuttingBack
  BY <1>1, Before, NoPlanStays
<1>3. Queued' = Queued
  BY DEF Queued
<1>4. QueueKept'
  BY <1>1, <1>2, <1>3 DEF QueueKept
<1>5. Tidy(Base', configured') /\ (Queued' = {} => Fits(Base', may'))
  BY <1>1, <1>2, <1>3, SameTidy DEF BaseKept
<1> QED BY <1>4, <1>5, WorkStep

LEMMA SecretsWritten ==
    ASSUME RenameInv, SecretInv, NEW p \in Worker, VaultSteps(p), ~strayed', WriteSecrets(p)
    PROVE  SecretInv'
<1>1. ~strayed /\ configured' = configured
  BY NotStrayed DEF Worker
<1>2. /\ WorkKept(p) /\ TypeOK /\ StepOK(p) /\ HoldsOpen(p) /\ p \in Programs
  BY <1>1, Before
<1>3. /\ step[p] = "writeSecrets" /\ secrets'.doc = doc[p] /\ secrets' # NoFile
      /\ UNCHANGED <<plain, pending, doc, names>>
  <2>1. secrets' \in Files(Secrets) /\ secrets' # NoFile
    BY <1>2, VaultStepsKeep, FilesAssumption DEF WriteSecrets, TypeOK, StepOK, Files, Secrets, Keys
  <2> QED BY <2>1 DEF WriteSecrets
<1>4. CASE job[p].op = "encrypt"
  <2>1. unlocked'[p] = 0 /\ step'[p] = "removePlain" /\ job' = job /\ may' = may
    BY <1>2, <1>4 DEF WriteSecrets, Goes, TypeOK, history
  <2>2. Same(doc[p], Base)
    BY <1>2, <1>3, <1>4 DEF WorkKept, AtBase
  <2>3. Same(Base, Base') /\ Same(doc[p], Base') /\ Same(doc[p], secrets'.doc)
    BY <1>3, <2>2, SameSelf, SameTidy DEF Base
  <2>4. WorkKept(p)'
    BY <1>1, <1>2, <1>3, <1>4, <2>1, <2>3 DEF WorkKept, AtBase
  <2> QED BY <1>3, <2>1, <2>3, <2>4, SameWritten
<1>5. CASE job[p].op # "encrypt"
  <2>1. Returns(p) /\ job[p].op \in {"set", "delete"} /\ plain = NoFile /\ job[p].name = configured
    BY <1>2, <1>3, <1>5, NotStrayed DEF WriteSecrets, StepOK, Hidden, WorkKept
  <2>2. Base' = doc[p]
    BY <1>3, <2>1 DEF Base
  <2>3. Same(doc'[p], Base')
    BY <1>3, <2>2, SameSelf
  <2>4. \/ job[p].op = "set" /\ Base'[configured].val = job[p].val /\ job[p].val # NoValue
        \/ job[p].op = "delete" /\ job[p].val = NoValue /\ \A n \in Names : ~Entered(Base', n)
    BY <1>2, <1>3, <2>1, <2>2 DEF WorkKept
  <2> QED BY <1>3, <2>1, <2>3, <2>4, OneWritten
<1> QED BY <1>4, <1>5

LEMMA PlainRemoved ==
    ASSUME RenameInv, SecretInv, NEW p \in Worker, VaultSteps(p), ~strayed', RemovePlain(p)
    PROVE  SecretInv'
<1>1. ~strayed /\ configured' = configured
  BY NotStrayed DEF Worker
<1>2. /\ WorkKept(p) /\ TypeOK /\ StepOK(p) /\ p \in Programs
  BY <1>1, Before
<1>3. /\ step[p] = "removePlain" /\ plain' = NoFile /\ UNCHANGED <<secrets, pending, doc>> /\ Returns(p)
      /\ job[p].op = "encrypt"
  BY <1>2 DEF RemovePlain, StepOK
<1>4. step'[p] = "idle" /\ job'[p] = NoJob /\ may' = may
  BY <1>2, <1>3, ReturnsLeaves DEF Changes
<1>5. secrets # NoFile /\ Same(doc[p], secrets.doc) /\ Same(doc[p], Base)
  BY <1>2, <1>3 DEF WorkKept, AtBase
<1>6. Base' = secrets.doc
  BY <1>3, <1>5 DEF Base
<1>7. Same(Base, Base') /\ Same(doc'[p], Base')
  BY <1>3, <1>5, <1>6, SameThrough
<1>8. WorkKept(p)'
  BY <1>4, <1>7, DoneKept
<1> QED BY <1>3, <1>4, <1>7, <1>8, SameWritten

LEMMA PlainWritten ==
    ASSUME RenameInv, SecretInv, NEW p \in Worker, VaultSteps(p), ~strayed', WritePlain(p)
    PROVE  SecretInv'
<1>1. ~strayed /\ configured' = configured
  BY NotStrayed DEF Worker
<1>2. /\ WorkKept(p) /\ TypeOK /\ StepOK(p) /\ p \in Programs /\ doc[p] \in Documents
  BY <1>1, Before
<1>3. /\ step[p] = "writePlain" /\ plain' = doc[p] /\ UNCHANGED <<secrets, pending, doc, unlocked>>
      /\ plain' # NoFile
  BY <1>2, FilesAssumption DEF WritePlain
<1>4. Base' = doc[p]
  BY <1>3 DEF Base
<1>5. Same(doc'[p], Base')
  BY <1>3, <1>4, SameSelf
<1>6. CASE job[p].op = "decrypt"
  <2>1. step'[p] = "removeSecrets" /\ job' = job /\ may' = may
    BY <1>2, <1>6 DEF WritePlain, Goes, TypeOK, history
  <2>2. Same(Base, Base')
    <3>1. CASE plain = NoFile
      BY <1>2, <1>3, <1>4, <1>6, <3>1, SameTidy DEF WorkKept, AtBase
    <3>2. CASE plain # NoFile
      <4>1. plain' = plain
        BY <1>2, <1>3, <1>6, <3>2, NotStrayed DEF StepOK, Hidden
      <4> QED BY <3>2, <4>1, SameSelf DEF Base
    <3> QED BY <3>1, <3>2
  <2>3. WorkKept(p)'
    BY <1>1, <1>2, <1>3, <1>6, <2>1 DEF WorkKept, AtBase
  <2> QED BY <1>3, <2>1, <2>2, <2>3, SameWritten
<1>7. CASE job[p].op # "decrypt"
  <2>1. Returns(p) /\ job[p].op = "set" /\ job[p].name = configured
    BY <1>2, <1>3, <1>7 DEF WritePlain, StepOK, WorkKept
  <2>2. Base'[configured].val = job[p].val /\ job[p].val # NoValue
    BY <1>2, <1>3, <1>4, <2>1 DEF WorkKept
  <2> QED BY <1>3, <1>5, <2>1, <2>2, OneWritten
<1> QED BY <1>6, <1>7

LEMMA OthersRemoved ==
    ASSUME RenameInv, SecretInv, NEW p \in Worker, VaultSteps(p), ~strayed',
           RemoveSecrets(p) \/ RemoveKey(p) \/ RemoveRecipient(p)
    PROVE  SecretInv'
<1>1. ~strayed /\ configured' = configured
  BY NotStrayed DEF Worker
<1>2. /\ WorkKept(p) /\ TypeOK /\ StepOK(p) /\ p \in Programs
  BY <1>1, Before
<1>3. /\ plain # NoFile /\ job[p].op = "decrypt" /\ UNCHANGED <<plain, pending>>
      /\ step[p] \in Removing
  BY <1>2 DEF RemoveSecrets, RemoveKey, RemoveRecipient, StepOK, Removing
<1>4. Base' = Base /\ Same(Base, Base')
  BY <1>3, SameSelf DEF Base
<1>5. may' = may /\ WorkKept(p)'
  <2>1. CASE RemoveSecrets(p) \/ RemoveKey(p)
    <3>1. step'[p] \in {"removeKey", "removeRecipient"} /\ job' = job /\ may' = may
      BY <1>2, <2>1 DEF RemoveSecrets, RemoveKey, Goes, TypeOK, history
    <3> QED BY <1>1, <1>2, <1>3, <3>1 DEF WorkKept, AtBase, Removing
  <2>2. CASE RemoveRecipient(p)
    <3>1. step'[p] = "idle" /\ job'[p] = NoJob /\ may' = may /\ unlocked'[p] = 0
      BY <1>2, <1>3, <2>2, ReturnsLeaves DEF RemoveRecipient, Changes, TypeOK
    <3> QED BY <3>1, DoneKept
  <2> QED BY <2>1, <2>2
<1> QED BY <1>3, <1>4, <1>5, SameWritten

LEMMA DecryptFailsKept ==
    ASSUME RenameInv, SecretInv, NEW p \in Worker, VaultSteps(p), ~strayed', DecryptFails(p)
    PROVE  SecretInv'
<1>1. ~strayed /\ WorkKept(p) /\ StepOK(p) /\ TypeOK /\ p \in Programs
  BY NotStrayed, Before DEF Worker
<1>2. step'[p] = "idle" /\ job'[p] = NoJob /\ UNCHANGED <<files, history, doc, unlocked>>
  BY <1>1 DEF DecryptFails, Stops, Goes, TypeOK
<1>3. plain = NoFile => AtBase(p)
  BY <1>1 DEF DecryptFails, StepOK, Removing, AtBase
<1>4. plain' = NoFile => Same(doc'[p], Base')
  BY <1>1, <1>2, <1>3 DEF WorkKept, Base, files
<1>5. WorkKept(p)'
  BY <1>2, <1>4, DoneKept
<1> QED BY <1>2, <1>5, QuietStep DEF files, history

LEMMA EndsKept ==
    ASSUME RenameInv, SecretInv, NEW p \in Worker, VaultSteps(p), ~strayed', Ends(p)
    PROVE  SecretInv'
<1>1. TypeOK /\ p \in Programs
  BY NotStrayed, Before DEF Worker
<1>2. step'[p] = "idle" /\ job'[p] = NoJob /\ unlocked'[p] = 0
  BY <1>1 DEF Ends, Stops, Goes, TypeOK
<1>3. WorkKept(p)'
  BY <1>2, DoneKept
<1> QED BY <1>3, QuietStep DEF Ends, files, history

(* The worker's steps on the vault. *)
LEMMA WorkerKept ==
    ASSUME RenameInv, SecretInv, NEW p \in Worker, VaultSteps(p)
    PROVE  SecretInv'
<1>1. CASE strayed'
  BY <1>1 DEF SecretInv
<1>2. CASE ~strayed'
  <2>1. Steps(p)
    BY NoPlanStays
  <2> QED
    BY <1>2, <2>1, SetSecret, DeleteSecret, OtherBegins, LoadedWritten, RecipientRead, PendingAdded, OpenedRead,
       ListedKept, MergedKept, MergedWritten, PendingRemoved, OpenedKept, KeyWritten, SecretsWritten,
       PlainRemoved, PlainWritten, OthersRemoved, DecryptFailsKept, EndsKept DEF Steps
<1> QED BY <1>1, <1>2

---------------------------------------------------------------------------
(* The steps of the programs that queue *)

(* What they leave to a worker: of its plan all but what came late.         *)
LEMMA QueuerLeaves ==
    ASSUME RenameInv, NEW q \in Queuers, VaultSteps(q)
    PROVE  /\ UNCHANGED <<plain, secrets>>
           /\ (pending' = pending /\ may \subseteq may') \/ AddPending(q)
           /\ \A p \in Worker : /\ step'[p] = step[p] /\ job'[p] = job[p] /\ names'[p] = names[p]
                                /\ unlocked'[p] = unlocked[p] /\ doc'[p] = doc[p]
<1>1. q \in Programs /\ TypeOK /\ \A p \in Worker : p \in Programs /\ p # q
  BY RenameAssumption DEF RenameInv, VaultInv, Worker
<1>2. Queues(q)
  BY DEF VaultSteps
<1>3. CASE State(q) = "locked" /\ \E v \in Values : Set(q, v)
  <2>1. PICK v \in Values : Set(q, v)
    BY <1>3
  <2>2. UNCHANGED <<files, doc, names, unlocked>> /\ may \subseteq may'
    BY <1>3, <2>1 DEF Set, Begin
  <2>3. step' = [step EXCEPT ![q] = "queueing"] /\ job' = [job EXCEPT ![q] = job'[q]]
    BY <1>1, <1>3, <2>1 DEF Set, Begin, Goes, TypeOK
  <2> QED BY <1>1, <2>2, <2>3 DEF TypeOK, files
<1>4. CASE ReadRecipient(q) \/ Ends(q)
  <2>1. UNCHANGED <<files, history>>
    BY <1>4 DEF ReadRecipient, Ends, Fails
  <2>2. \A p \in Worker : /\ step'[p] = step[p] /\ job'[p] = job[p] /\ names'[p] = names[p]
                          /\ unlocked'[p] = unlocked[p] /\ doc'[p] = doc[p]
    BY <1>1, <1>4 DEF TypeOK, ReadRecipient, Ends, Fails, Stops, Goes
  <2> QED BY <2>1, <2>2 DEF files, history
<1>5. CASE AddPending(q)
  BY <1>1, <1>5 DEF TypeOK, AddPending, Stops, Goes
<1> QED BY <1>2, <1>3, <1>4, <1>5 DEF Queues

LEMMA LateOnly ==
    ASSUME RenameInv, NEW q \in Programs, VaultSteps(q), NEW p \in Programs
    PROVE  /\ plan'[p].phase = plan[p].phase /\ plan'[p].from = plan[p].from /\ plan'[p].to = plan[p].to
           /\ plan'[p].calls = plan[p].calls /\ plan'[p].resumes = plan[p].resumes
           /\ plan'[p].reverts = plan[p].reverts /\ plan'[p].original = plan[p].original
           /\ plan'[p].held = plan[p].held /\ plan'[p].left = plan[p].left
           /\ plan[p].late \subseteq plan'[p].late
           /\ plan[p].phase # "none" =>
                 \A i \in Ids : pending[i] = NoFile /\ pending'[i] # NoFile => i \in plan'[p].late
<1> DEFINE new == {i \in Ids : pending[i] = NoFile /\ pending'[i] # NoFile}
<1>1. plan[p] \in Plan
  BY DEF RenameInv, PlanInv
<1>2. plan'[p] = IF plan[p] = NoPlan THEN NoPlan ELSE [plan[p] EXCEPT !.late = @ \cup new]
  BY DEF VaultSteps
<1>3. CASE plan[p] = NoPlan
  BY <1>2, <1>3, NothingHeld
<1>4. CASE plan[p] # NoPlan
  <2>1. plan'[p] = [plan[p] EXCEPT !.late = plan[p].late \cup new]
    BY <1>2, <1>4
  <2> HIDE DEF new
  <2>2. plan'[p].late = plan[p].late \cup new
    BY <1>1, <2>1 DEF Plan
  <2>3. \A i \in Ids : pending[i] = NoFile /\ pending'[i] # NoFile => i \in new
    BY DEF new
  <2> QED BY <1>1, <2>1, <2>2, <2>3 DEF Plan
<1> QED BY <1>3, <1>4

LEMMA QueuerKept ==
    ASSUME RenameInv, SecretInv, NEW q \in Queuers, VaultSteps(q)
    PROVE  SecretInv'
<1>1. CASE strayed'
  BY <1>1 DEF SecretInv
<1>2. CASE ~strayed'
  <2>1. /\ ~strayed /\ configured' = configured /\ q \in Programs
        /\ \A i \in Ids : pending[i] = NoFile /\ pending'[i] # NoFile =>
              \A p \in Programs : plan[p].held[i] = NoFile
    BY <1>2, NotStrayed, RenameAssumption
  <2>2. QueueKept /\ BaseKept
    BY <2>1 DEF SecretInv
  <2>3. PuttingBack' <=> PuttingBack
    BY <2>1, LateOnly DEF PuttingBack
  <2>4. Base' = Base
    BY QueuerLeaves DEF Base
  <2>5. CASE pending' = pending /\ may \subseteq may'
    <3>1. Queued' = Queued /\ QueueKept'
      BY <2>1, <2>2, <2>5 DEF Queued, QueueKept
    <3>2. \A d : Fits(d, may) => Fits(d, may')
      BY <2>5, FitsMore
    <3>3. BaseKept'
      BY <2>1, <2>2, <2>3, <2>4, <3>1, <3>2 DEF BaseKept
    <3>4. ASSUME NEW p \in Worker
          PROVE  (WorkKept(p) /\ PlanKept(p))'
      <4>1. WorkKept(p) /\ PlanKept(p) /\ p \in Programs
        BY <2>1, Before
      <4>2. WorkKept(p)'
        BY <2>1, <2>4, <2>5, <3>1, <3>2, <4>1, QueuerLeaves DEF WorkKept, AtBase
      <4>3. NamesKept(p)' /\ FreshKept(p)' /\ EntryKept(p)'
        <5>1. Hidden(p)' <=> Hidden(p)
          BY QueuerLeaves DEF Hidden
        <5>2. NamesKept(p)' /\ FreshKept(p)'
          BY <2>1, <4>1, <5>1, LateOnly DEF PlanKept, NamesKept, FreshKept
        <5>3. EntryKept(p)'
          BY <2>1, <2>4, <2>5, <3>1, <3>2, <4>1, <5>1, QueuerLeaves, LateOnly DEF PlanKept, EntryKept
        <5> QED BY <5>2, <5>3
      <4>4. Original(p)' = Original(p) /\ HeldIds(p)' = HeldIds(p)
        BY <2>1, <4>1, QueuerLeaves, LateOnly DEF Original, HeldIds
      <4>5. UndoKept(p)'
        BY <2>1, <2>5, <3>1, <3>2, <4>1, <4>4, LateOnly DEF PlanKept, UndoKept
      <4> QED BY <4>2, <4>3, <4>5 DEF PlanKept
    <3> QED BY <3>1, <3>3, <3>4 DEF SecretInv
  <2>6. CASE AddPending(q)
    <3>1. QueueKept' /\ Tidy(Base, configured)'
      BY <1>2, <2>1, <2>6, QueuedKept
    <3>2. PICK i \in Ids \ Queued : Queued' = Queued \cup {i} /\ pending' = [pending EXCEPT ![i] = pending'[i]]
      BY <1>2, <2>1, <2>6, QueuedKept
    <3>3. pending[i] = NoFile /\ pending'[i] # NoFile
      BY <3>2 DEF Queued
    <3>4. BaseKept'
      BY <3>1, <3>2 DEF BaseKept
    <3>5. ASSUME NEW p \in Worker
          PROVE  (WorkKept(p) /\ PlanKept(p))'
      <4>1. WorkKept(p) /\ PlanKept(p) /\ p \in Programs
        BY <2>1, Before
      <4>2. WorkKept(p)'
        BY <2>1, <2>4, <3>2, <4>1, QueuerLeaves DEF WorkKept, AtBase
      <4>3. plan'[p].phase # "none" => i \in plan'[p].late
        BY <2>1, <3>3, <4>1, LateOnly
      <4>9. Hidden(p)' <=> Hidden(p)
        BY QueuerLeaves DEF Hidden
      <4>4. NamesKept(p)' /\ FreshKept(p)'
        BY <2>1, <4>1, <4>9, LateOnly DEF PlanKept, NamesKept, FreshKept
      <4>5. EntryKept(p)'
        BY <2>1, <2>4, <3>2, <4>1, <4>3, <4>9, QueuerLeaves, LateOnly DEF PlanKept, EntryKept
      <4>6. Original(p)' = Original(p) /\ HeldIds(p)' = HeldIds(p)
        BY <2>1, <4>1, QueuerLeaves, LateOnly DEF Original, HeldIds
      <4>7. i \notin HeldIds(p)
        BY <2>1, <3>3, <4>1 DEF HeldIds
      <4>8. UndoKept(p)'
        BY <2>1, <3>2, <4>1, <4>6, <4>7, LateOnly DEF PlanKept, UndoKept
      <4> QED BY <4>2, <4>4, <4>5, <4>8 DEF PlanKept
    <3> QED BY <3>1, <3>4, <3>5 DEF SecretInv
  <2> QED BY <2>5, <2>6, QueuerLeaves
<1> QED BY <1>1, <1>2

---------------------------------------------------------------------------
(* The steps of a rename *)

(* A worker with a plan is idle, and its document is the vault's.           *)
LEMMA Resting ==
    ASSUME RenameInv, SecretInv, ~strayed, NEW p \in Worker, step[p] = "idle"
    PROVE  /\ job[p].op = "get"
           /\ unlocked[p] # 0 /\ plain = NoFile => Same(doc[p], Base)
           /\ plain # NoFile \/ unlocked[p] # 0 =>
                 Document(p) \in Documents /\ (~Hidden(p) => Same(Document(p), Base))
<1>1. /\ WorkKept(p) /\ StepOK(p) /\ HoldsOpen(p) /\ TypeOK /\ doc[p] \in Documents
  BY Before
<1>2. unlocked[p] # 0 /\ plain = NoFile => Same(doc[p], Base)
  BY <1>1 DEF WorkKept, AtBase
<1>3. CASE unlocked[p] # 0
  BY <1>1, <1>2, <1>3 DEF Document, State, StepOK, Hidden
<1>4. CASE unlocked[p] = 0
  BY <1>1, <1>4, SameSelf DEF Document, State, StepOK, Base, TypeOK, Files
<1> QED BY <1>3, <1>4

LEMMA AtIdle ==
    ASSUME RenameInv, NEW p \in Worker, plan[p].phase # "none"
    PROVE  step[p] = "idle" /\ PlanOK(p) /\ plan[p] \in Plan
BY NothingHeld DEF RenameInv, PlanInv, PlanOK, Worker

LEMMA RestKept ==
    ASSUME NEW p, step'[p] = "idle", job'[p].op = "get",
           unlocked'[p] # 0 /\ plain' = NoFile => Same(doc'[p], Base')
    PROVE  WorkKept(p)'
BY DEF WorkKept, AtBase

(* Only a worker has a plan.                                                *)
LEMMA OnlyHis ==
    ASSUME RenameInv, NEW p \in Worker, NEW new, plan' = [plan EXCEPT ![p] = new]
    PROVE  /\ plan'[p] = new
           /\ PuttingBack' <=> new.phase = "restoring" /\ new.left # {}
<1>1. plan \in [Programs -> Plan] /\ p \in Programs
  BY DEF RenameInv, PlanInv, Worker
<1>2. ASSUME NEW q \in Programs, q # p
      PROVE  plan'[q].phase # "restoring"
  <2>1. q \in Queuers /\ PlanOK(q)
    BY <1>2, RenameAssumption DEF Worker, RenameInv, PlanInv
  <2>2. plan'[q] = NoPlan
    BY <1>1, <1>2, <2>1 DEF PlanOK
  <2> QED BY <2>2, NothingHeld
<1> QED BY <1>1, <1>2 DEF PuttingBack

LEMMA NoPlanKept ==
    ASSUME NEW p, plan'[p] = NoPlan
    PROVE  PlanKept(p)'
BY NothingHeld DEF PlanKept, NamesKept, FreshKept, EntryKept, UndoKept, Holding

(* A step of a rename, in parts.                                            *)
LEMMA RenameStep ==
    ASSUME NEW p \in Worker, QueueKept', BaseKept', WorkKept(p)', PlanKept(p)'
    PROVE  SecretInv'
BY OneWorker DEF SecretInv

(* A step that only changes the plan, and puts nothing back.                *)
LEMMA PlanOnly ==
    ASSUME RenameInv, SecretInv, ~strayed, NEW p \in Worker, NEW new, plan' = [plan EXCEPT ![p] = new],
           UNCHANGED vars, plan[p].phase # "restoring" \/ plan[p].left = {}, PlanKept(p)'
    PROVE  SecretInv'
<1>1. QueueKept /\ BaseKept /\ WorkKept(p) /\ ~PuttingBack
  BY Before, NotPuttingBack
<1>2. /\ Base' = Base /\ Queued' = Queued
      /\ UNCHANGED <<configured, may, pending, plain, secrets, step, job, names, unlocked, doc>>
  BY DEF Base, Queued, vars, files, program, history
<1>3. QueueKept' /\ BaseKept'
  BY <1>1, <1>2 DEF QueueKept, BaseKept
<1>4. WorkKept(p)'
  BY <1>1, <1>2 DEF WorkKept, AtBase
<1> QED BY <1>3, <1>4, RenameStep

(* A plan that is given up.                                                 *)
LEMMA GivenUpKept ==
    ASSUME RenameInv, SecretInv, ~strayed, NEW p \in Worker, Gives(p), UNCHANGED vars,
           plan[p].phase # "restoring" \/ plan[p].left = {}
    PROVE  SecretInv'
<1>1. plan' = [plan EXCEPT ![p] = NoPlan]
  BY DEF Gives
<1>2. plan'[p] = NoPlan
  BY <1>1, OnlyHis
<1> QED BY <1>1, <1>2, NoPlanKept, PlanOnly

LEMMA PlannedKept ==
    ASSUME RenameInv, SecretInv, ~strayed, NEW p \in Worker, NEW n \in Names, PlanRename(p, n)
    PROVE  SecretInv'
<1>1. /\ plan[p] = NoPlan /\ step[p] = "idle" /\ n # configured /\ UNCHANGED vars
      /\ State(p) \in {"absent", "unencrypted", "unlocked"}
  BY DEF PlanRename, Plans
<1>2. plan[p].phase = "none"
  BY <1>1, NothingHeld
<1> DEFINE d == IF State(p) = "absent" THEN NoEntries ELSE Document(p)
           new == [NoPlan EXCEPT !.phase = "planned", !.from = configured, !.to = n, !.base = Revision,
                         !.calls = Entered(d, configured) \/ (State(p) = "unlocked" /\ QueuedFor(configured) # {}),
                         !.resumes = Entered(d, n)]
<1>3. plan' = [plan EXCEPT ![p] = new]
  BY DEF PlanRename
<1>4. plan'[p] = new
  BY <1>3, OnlyHis
<1>5. /\ new.phase = "planned" /\ new.from = configured /\ new.to = n /\ new.reverts = FALSE
      /\ new.calls = (Entered(d, configured) \/ (State(p) = "unlocked" /\ QueuedFor(configured) # {}))
      /\ new.original = NoFile /\ new.held = Nothing /\ new.left = {}
  BY DEF NoPlan
<1>6. ~Hidden(p) => Same(d, Base)
  BY <1>1, Resting, BaseTyped, SameSelf DEF State
<1>7. ~Hidden(p) => (Entered(d, configured) <=> Entered(Base, configured))
  BY <1>6, SameTidy, Before
<1>8. QueuedFor(configured) = Queued
  BY Before DEF QueueKept, QueuedFor
<1>9. State(p) # "unlocked" => Queued = {}
  BY <1>1, BaseTyped DEF State
<1>10. State(p) = "unlocked" => unlocked[p] # 0
  BY DEF State
<1> HIDE DEF d, new
<1>11. new.calls /\ ~Hidden(p) => Entered(Base, configured) \/ (unlocked[p] # 0 /\ Queued # {})
  BY <1>5, <1>7, <1>8, <1>10
<1>12. ~new.calls /\ ~Hidden(p) => ~Entered(Base, configured) /\ Queued = {}
  BY <1>5, <1>7, <1>8, <1>9
<1>13. Base' = Base /\ Queued' = Queued /\ Hidden(p)' = Hidden(p) /\ UNCHANGED <<configured, unlocked>>
  BY <1>1 DEF Base, Queued, Hidden, vars, files, program
<1>14. PlanKept(p)'
  BY <1>1, <1>4, <1>5, <1>11, <1>12, <1>13 DEF PlanKept, NamesKept, FreshKept, EntryKept, UndoKept, Holding
<1> QED BY <1>1, <1>2, <1>3, <1>14, PlanOnly

LEMMA RevertPlannedKept ==
    ASSUME RenameInv, SecretInv, ~strayed, NEW p \in Worker, NEW n \in Names, PlanRevert(p, n)
    PROVE  SecretInv'
<1>1. /\ plan[p] = NoPlan /\ step[p] = "idle" /\ n # configured /\ UNCHANGED vars
      /\ State(p) \in {"unencrypted", "unlocked"} /\ Entered(Document(p), n)
  BY DEF PlanRevert, Plans
<1>2. plan[p].phase = "none"
  BY <1>1, NothingHeld
<1> DEFINE new == [NoPlan EXCEPT !.phase = "planned", !.from = n, !.to = configured, !.base = Revision,
                      !.calls = TRUE, !.reverts = TRUE]
<1>3. plan' = [plan EXCEPT ![p] = new]
  BY DEF PlanRevert
<1>4. plan'[p] = new
  BY <1>3, OnlyHis
<1>5. /\ new.phase = "planned" /\ new.from = n /\ new.to = configured /\ new.reverts = TRUE
      /\ new.calls = TRUE /\ new.resumes = FALSE
      /\ new.original = NoFile /\ new.held = Nothing /\ new.left = {}
  BY DEF NoPlan
<1> HIDE DEF new
<1>6. ~Hidden(p) => Same(Document(p), Base)
  BY <1>1, Resting DEF State
<1>7. ~Hidden(p) => Entered(Base, n)
  BY <1>1, <1>6, SameTidy, Before
<1>8. Base' = Base /\ Queued' = Queued /\ Hidden(p)' = Hidden(p) /\ UNCHANGED <<configured, unlocked>>
  BY <1>1 DEF Base, Queued, Hidden, vars, files, program
<1>9. PlanKept(p)'
  BY <1>1, <1>4, <1>5, <1>7, <1>8 DEF PlanKept, NamesKept, FreshKept, EntryKept, UndoKept, Holding
<1> QED BY <1>1, <1>2, <1>3, <1>9, PlanOnly

(* A plan that goes on, with nothing else done.                             *)
LEMMA Advanced ==
    ASSUME RenameInv, NEW p \in Worker, plan[p].phase # "none", NEW s \in Phases, Advances(p, s), UNCHANGED vars
    PROVE  /\ plan' = [plan EXCEPT ![p] = [plan[p] EXCEPT !.phase = s]]
           /\ plan'[p] = [plan[p] EXCEPT !.phase = s] /\ plan[p] \in Plan
           /\ Original(p)' = Original(p) /\ HeldIds(p)' = HeldIds(p)
           /\ Base' = Base /\ Queued' = Queued /\ Hidden(p)' = Hidden(p)
           /\ UNCHANGED <<configured, unlocked, may>>
<1>1. plan' = [plan EXCEPT ![p] = [plan[p] EXCEPT !.phase = s]] /\ plan[p] \in Plan
  BY AtIdle DEF Advances
<1>2. plan'[p] = [plan[p] EXCEPT !.phase = s]
  BY <1>1, OnlyHis
<1>3. plan'[p].original = plan[p].original /\ plan'[p].held = plan[p].held
  BY <1>1, <1>2 DEF Plan
<1>4. Base' = Base /\ Queued' = Queued /\ Hidden(p)' = Hidden(p) /\ UNCHANGED <<configured, unlocked, may>>
  BY DEF Base, Queued, Hidden, vars, files, program, history
<1>5. Original(p)' = Original(p) /\ HeldIds(p)' = HeldIds(p)
  BY <1>3, <1>4 DEF Original, HeldIds
<1> QED BY <1>1, <1>2, <1>4, <1>5

LEMMA TransactKept ==
    ASSUME RenameInv, SecretInv, ~strayed, NEW p \in Worker, Transact(p), ~strayed'
    PROVE  SecretInv'
<1>1. plan[p].phase = "planned" /\ UNCHANGED vars /\ ~Hidden(p)
  BY DEF Transact
<1>2. CASE Gives(p)
  BY <1>1, <1>2, GivenUpKept
<1>3. CASE Advances(p, IF plan[p].calls THEN "renaming" ELSE "written")
  <2> DEFINE s == IF plan[p].calls THEN "renaming" ELSE "written"
  <2>1. s \in Phases /\ Advances(p, s) /\ s = (IF plan[p].calls THEN "renaming" ELSE "written")
    BY <1>3 DEF Phases
  <2> HIDE DEF s
  <2>2. /\ plan' = [plan EXCEPT ![p] = [plan[p] EXCEPT !.phase = s]]
        /\ plan'[p] = [plan[p] EXCEPT !.phase = s] /\ plan[p] \in Plan
        /\ Base' = Base /\ Queued' = Queued /\ ~Hidden(p)' /\ UNCHANGED <<configured, unlocked, may>>
    BY <1>1, <2>1, Advanced
  <2>3. /\ plan'[p].phase = s /\ plan'[p].from = plan[p].from /\ plan'[p].to = plan[p].to
        /\ plan'[p].calls = plan[p].calls /\ plan'[p].resumes = plan[p].resumes
        /\ plan'[p].reverts = plan[p].reverts /\ plan'[p].original = plan[p].original
        /\ plan'[p].held = plan[p].held /\ plan'[p].left = plan[p].left /\ plan'[p].late = plan[p].late
    BY <2>2 DEF Plan
  <2>4. BaseKept /\ PlanKept(p) /\ ~PuttingBack
    BY <1>1, Before, NotPuttingBack
  <2>5. NamesKept(p)' /\ FreshKept(p)'
    BY <1>1, <2>1, <2>2, <2>3, <2>4 DEF PlanKept, NamesKept, FreshKept, Holding
  <2>6. EntryKept(p)'
    BY <1>1, <2>1, <2>2, <2>3, <2>4 DEF PlanKept, FreshKept, EntryKept, BaseKept
  <2>7. plan'[p].original = NoFile /\ plan'[p].held = Nothing /\ HeldIds(p)' = {}
    BY <1>1, <2>3, <2>4 DEF PlanKept, FreshKept, HeldIds, Nothing
  <2>8. UndoKept(p)'
    BY <2>7 DEF UndoKept
  <2> QED BY <1>1, <2>2, <2>5, <2>6, <2>8, PlanOnly DEF PlanKept
<1> QED BY <1>2, <1>3 DEF Transact

LEMMA UndoingKept ==
    ASSUME RenameInv, SecretInv, ~strayed, NEW p \in Worker, RemoveFails(p) \/ SaveFails(p)
    PROVE  SecretInv'
<1>1. /\ plan[p].phase \in {"written", "saving"} /\ UNCHANGED vars
      /\ Advances(p, "undoing") /\ "undoing" \in Phases
  BY DEF RemoveFails, SaveFails, Phases
<1>2. /\ plan' = [plan EXCEPT ![p] = [plan[p] EXCEPT !.phase = "undoing"]]
      /\ plan'[p] = [plan[p] EXCEPT !.phase = "undoing"] /\ plan[p] \in Plan
      /\ Original(p)' = Original(p) /\ HeldIds(p)' = HeldIds(p)
      /\ Base' = Base /\ Queued' = Queued /\ Hidden(p)' = Hidden(p) /\ UNCHANGED <<configured, unlocked, may>>
  BY <1>1, Advanced
<1>3. /\ plan'[p].phase = "undoing" /\ plan'[p].from = plan[p].from /\ plan'[p].to = plan[p].to
      /\ plan'[p].reverts = plan[p].reverts /\ plan'[p].original = plan[p].original
      /\ plan'[p].held = plan[p].held
  BY <1>2 DEF Plan
<1>4. PlanKept(p)
  BY Before
<1>5. NamesKept(p)' /\ FreshKept(p)' /\ EntryKept(p)'
  BY <1>1, <1>2, <1>3, <1>4 DEF PlanKept, NamesKept, FreshKept, EntryKept, Holding
<1>6. UndoKept(p)'
  BY <1>1, <1>2, <1>3, <1>4 DEF PlanKept, UndoKept
<1> QED BY <1>1, <1>2, <1>5, <1>6, PlanOnly DEF PlanKept

LEMMA SavingKept ==
    ASSUME RenameInv, SecretInv, ~strayed, NEW p \in Worker, Save(p)
    PROVE  SecretInv'
<1>1. /\ plan[p].phase = "written" /\ plan[p].left = {} /\ ~plan[p].reverts /\ UNCHANGED vars
      /\ Advances(p, "saving") /\ "saving" \in Phases
  BY DEF Save, Phases
<1>2. /\ plan' = [plan EXCEPT ![p] = [plan[p] EXCEPT !.phase = "saving"]]
      /\ plan'[p] = [plan[p] EXCEPT !.phase = "saving"] /\ plan[p] \in Plan
      /\ Original(p)' = Original(p) /\ HeldIds(p)' = HeldIds(p)
      /\ Base' = Base /\ Queued' = Queued /\ Hidden(p)' = Hidden(p) /\ UNCHANGED <<configured, unlocked, may>>
  BY <1>1, Advanced
<1>3. /\ plan'[p].phase = "saving" /\ plan'[p].from = plan[p].from /\ plan'[p].to = plan[p].to
      /\ plan'[p].reverts = plan[p].reverts /\ plan'[p].original = plan[p].original
      /\ plan'[p].held = plan[p].held /\ plan'[p].left = plan[p].left /\ plan'[p].late = plan[p].late
  BY <1>2 DEF Plan
<1>4. PlanKept(p)
  BY Before
<1>5. NamesKept(p)' /\ FreshKept(p)' /\ EntryKept(p)'
  BY <1>1, <1>2, <1>3, <1>4 DEF PlanKept, NamesKept, FreshKept, EntryKept, Holding
<1>6. UndoKept(p)'
  BY <1>1, <1>2, <1>3, <1>4 DEF PlanKept, UndoKept
<1> QED BY <1>1, <1>2, <1>5, <1>6, PlanOnly DEF PlanKept

LEMMA ReplacedKept ==
    ASSUME RenameInv, SecretInv, ~strayed, NEW p \in Worker, Replace(p), ~strayed'
    PROVE  SecretInv'
<1>1. /\ plan[p].phase = "saving" /\ configured' = plan[p].to
      /\ UNCHANGED <<files, program, history>> /\ QueuedFor(plan[p].from) \cap plan[p].late = {}
  BY DEF Replace, Replaces
<1>2. /\ QueueKept /\ BaseKept /\ PlanKept(p) /\ ~PuttingBack /\ step[p] = "idle" /\ plan[p] \in Plan
      /\ job[p].op = "get" /\ (unlocked[p] # 0 /\ plain = NoFile => Same(doc[p], Base))
  BY <1>1, Before, NotPuttingBack, AtIdle, Resting
<1>3. /\ ~plan[p].reverts /\ plan[p].left = {} /\ plan[p].from = configured /\ ~Hidden(p)
      /\ ~Entered(Base, configured) /\ Queued \subseteq plan[p].late
  BY <1>1, <1>2 DEF PlanKept, NamesKept, EntryKept, Holding
<1>4. Queued = {}
  BY <1>1, <1>2, <1>3 DEF QueueKept, QueuedFor
<1>5. /\ Base' = Base /\ Queued' = Queued /\ Hidden(p)' = Hidden(p)
      /\ UNCHANGED <<may, unlocked, plain, doc, step, job>>
  BY <1>1 DEF Base, Queued, Hidden, files, program, history
<1>6. /\ plan' = [plan EXCEPT ![p] = NoPlan] \/ Advances(p, "saved")
  BY DEF Replace
<1>7. ~PuttingBack' /\ PlanKept(p)'
  <2>1. CASE plan' = [plan EXCEPT ![p] = NoPlan]
    BY <2>1, OnlyHis, NoPlanKept, NothingHeld
  <2>2. CASE Advances(p, "saved")
    <3> DEFINE new == [plan[p] EXCEPT !.phase = "saved"]
    <3>1. plan' = [plan EXCEPT ![p] = new]
      BY <2>2 DEF Advances
    <3>2. plan'[p] = new /\ (PuttingBack' <=> new.phase = "restoring" /\ new.left # {})
      BY <3>1, OnlyHis
    <3>3. plan'[p].phase = "saved" /\ plan'[p].to = plan[p].to /\ new.phase = "saved"
      BY <1>2, <3>2 DEF Plan
    <3> QED BY <1>1, <1>3, <1>5, <3>2, <3>3 DEF PlanKept, NamesKept, FreshKept, EntryKept, UndoKept, Holding
  <2> QED BY <1>6, <2>1, <2>2
<1>8. Tidy(Base, plan[p].to)
  BY <1>2, <1>3 DEF BaseKept, Tidy
<1>9. QueueKept' /\ BaseKept'
  BY <1>1, <1>2, <1>4, <1>5, <1>7, <1>8 DEF QueueKept, BaseKept
<1>10. WorkKept(p)'
  BY <1>2, <1>5, RestKept
<1> QED BY <1>7, <1>9, <1>10, RenameStep

LEMMA KilledKept ==
    ASSUME RenameInv, SecretInv, ~strayed, NEW p \in Worker, Killed(p), ~strayed'
    PROVE  SecretInv'
<1>1. /\ plan[p].phase # "none" /\ Gives(p) /\ unlocked' = [unlocked EXCEPT ![p] = 0]
      /\ UNCHANGED <<configured, files, step, job, history>>
      /\ plan[p].phase # "restoring" \/ plan[p].left = {}
  BY DEF Killed
<1>2. QueueKept /\ BaseKept /\ ~PuttingBack /\ step[p] = "idle" /\ job[p].op = "get" /\ TypeOK /\ p \in Programs
  BY <1>1, Before, NotPuttingBack, AtIdle, Resting
<1>3. Base' = Base /\ Queued' = Queued /\ may' = may /\ pending' = pending
  BY <1>1 DEF Base, Queued, files, history
<1>4. QueueKept' /\ BaseKept'
  BY <1>1, <1>2, <1>3 DEF QueueKept, BaseKept
<1>5. WorkKept(p)'
  BY <1>1, <1>2, RestKept DEF TypeOK
<1>6. plan'[p] = NoPlan
  BY <1>1, OnlyHis DEF Gives
<1> QED BY <1>4, <1>5, <1>6, NoPlanKept, RenameStep

LEMMA MarkerCleared ==
    ASSUME RenameInv, SecretInv, ~strayed, NEW p \in Worker, ClearMarker(p)
    PROVE  SecretInv'
<1> DEFINE d == [Document(p) EXCEPT ![plan[p].to].mark = FALSE]
<1>1. /\ plan[p].phase = "saved" /\ Gives(p)
      /\ UNCHANGED <<configured, pending, unlocked, step, job, history>>
  BY DEF ClearMarker
<1>2. /\ QueueKept /\ BaseKept /\ PlanKept(p) /\ ~PuttingBack /\ step[p] = "idle" /\ job[p].op = "get"
      /\ PlanOK(p) /\ TypeOK /\ p \in Programs /\ configured \in Names /\ Base \in Documents
  BY <1>1, Before, NotPuttingBack, AtIdle, Resting
<1>3. /\ plan[p].to = configured /\ (plain # NoFile \/ unlocked[p] # 0)
      /\ ~Hidden(p) /\ (unlocked[p] # 0 => plain = NoFile)
  BY <1>1, <1>2 DEF PlanKept, NamesKept, PlanOK, Hidden
<1>4. Document(p) \in Documents /\ Same(Document(p), Base)
  BY <1>2, <1>3, Resting
<1>5. /\ d \in Documents
      /\ \A n \in Names : d[n].val = Document(p)[n].val /\ (n # configured => d[n] = Document(p)[n])
  BY <1>2, <1>3, <1>4 DEF Documents
<1>6. \/ unlocked[p] = 0 /\ plain # NoFile /\ plain' = d
      \/ unlocked[p] # 0 /\ plain = NoFile /\ plain' = plain /\ secrets' = [key |-> unlocked[p], doc |-> d]
         /\ doc' = [doc EXCEPT ![p] = d]
  BY <1>2, <1>3 DEF ClearMarker, State
<1> HIDE DEF d
<1>7. d # NoFile
  BY <1>5, FilesAssumption
<1>8. unlocked[p] # 0 => secrets' # NoFile
  <2>1. unlocked[p] # 0 => unlocked[p] \in Keys
    BY <1>2, FilesAssumption DEF TypeOK, Keys
  <2>2. unlocked[p] # 0 => secrets' \in Secrets
    BY <1>5, <1>6, <2>1 DEF Secrets
  <2> QED BY <2>2, FilesAssumption
<1>9. Base' = d /\ (unlocked[p] # 0 => doc'[p] = d)
  BY <1>2, <1>6, <1>7, <1>8 DEF Base, TypeOK
<1>10. /\ \A n \in Names : Entered(d, n) <=> Entered(Base, n)
       /\ \A n \in Names : d[n].val = Base[n].val
       /\ \A n \in Names : n # configured /\ Entered(d, n) => d[n].mark = Base[n].mark
  BY <1>4, <1>5 DEF Same, Entered
<1>11. Tidy(Base, configured) => Tidy(d, configured)
  BY <1>10 DEF Tidy, Single
<1>12. Fits(Base, may) => Fits(d, may)
  BY <1>10 DEF Fits
<1>13. Queued' = Queued /\ may' = may
  BY <1>1 DEF Queued, history
<1>14. QueueKept' /\ BaseKept'
  BY <1>1, <1>2, <1>9, <1>11, <1>12, <1>13 DEF QueueKept, BaseKept
<1>15. WorkKept(p)'
  BY <1>1, <1>2, <1>9, SameSelf, RestKept
<1>16. plan'[p] = NoPlan
  BY <1>1, OnlyHis DEF Gives
<1> QED BY <1>14, <1>15, <1>16, NoPlanKept, RenameStep

(* A plan of which what is left to do changes.                              *)
LEMMA LeftChanged ==
    ASSUME RenameInv, NEW p \in Worker, plan[p].phase # "none", NEW L,
           plan' = [plan EXCEPT ![p].left = L], UNCHANGED <<plain, secrets, unlocked>>
    PROVE  /\ plan'[p].phase = plan[p].phase /\ plan'[p].from = plan[p].from /\ plan'[p].to = plan[p].to
           /\ plan'[p].calls = plan[p].calls /\ plan'[p].resumes = plan[p].resumes
           /\ plan'[p].reverts = plan[p].reverts /\ plan'[p].original = plan[p].original
           /\ plan'[p].held = plan[p].held /\ plan'[p].left = L /\ plan'[p].late = plan[p].late
           /\ Original(p)' = Original(p) /\ HeldIds(p)' = HeldIds(p) /\ Base' = Base /\ Hidden(p)' = Hidden(p)
           /\ PuttingBack' <=> plan[p].phase = "restoring" /\ L # {}
<1> DEFINE new == [plan[p] EXCEPT !.left = L]
<1>1. plan' = [plan EXCEPT ![p] = new] /\ plan[p] \in Plan
  BY AtIdle
<1> HIDE DEF new
<1>2. plan'[p] = new /\ (PuttingBack' <=> new.phase = "restoring" /\ new.left # {})
  BY <1>1, OnlyHis
<1>3. /\ plan'[p].phase = plan[p].phase /\ plan'[p].from = plan[p].from /\ plan'[p].to = plan[p].to
      /\ plan'[p].calls = plan[p].calls /\ plan'[p].resumes = plan[p].resumes
      /\ plan'[p].reverts = plan[p].reverts /\ plan'[p].original = plan[p].original
      /\ plan'[p].held = plan[p].held /\ plan'[p].left = L /\ plan'[p].late = plan[p].late
  BY <1>1, <1>2 DEF Plan, new
<1>4. Original(p)' = Original(p) /\ HeldIds(p)' = HeldIds(p) /\ Base' = Base /\ Hidden(p)' = Hidden(p)
  BY <1>3 DEF Original, HeldIds, Base, Hidden
<1>5. PuttingBack' <=> plan[p].phase = "restoring" /\ L # {}
  BY <1>2, <1>3
<1> QED BY <1>3, <1>4, <1>5

LEMMA MergedRemovedKept ==
    ASSUME RenameInv, SecretInv, ~strayed, NEW p \in Worker, RemoveMerged(p)
    PROVE  SecretInv'
<1>1. PICK i \in plan[p].left : /\ pending' = [pending EXCEPT ![i] = NoFile]
                                /\ plan' = [plan EXCEPT ![p].left = @ \ {i}]
  BY DEF RemoveMerged
<1>2. plan[p].phase = "written" /\ UNCHANGED <<configured, plain, secrets, unlocked, doc, step, job, may>>
  BY DEF RemoveMerged, program, history
<1>3. /\ QueueKept /\ BaseKept /\ PlanKept(p) /\ ~PuttingBack /\ step[p] = "idle" /\ job[p].op = "get"
      /\ PlanOK(p) /\ TypeOK /\ p \in Programs /\ plan[p] \in Plan /\ plan \in [Programs -> Plan]
  BY <1>2, Before, NotPuttingBack, AtIdle, Resting
<1> DEFINE L == plan[p].left \ {i}
<1>4. plan' = [plan EXCEPT ![p].left = L]
  BY <1>1, <1>3
<1> HIDE DEF L
<1>5. /\ plan'[p].phase = plan[p].phase /\ plan'[p].from = plan[p].from /\ plan'[p].to = plan[p].to
      /\ plan'[p].calls = plan[p].calls /\ plan'[p].resumes = plan[p].resumes
      /\ plan'[p].reverts = plan[p].reverts /\ plan'[p].original = plan[p].original
      /\ plan'[p].held = plan[p].held /\ plan'[p].left = L /\ plan'[p].late = plan[p].late
      /\ Original(p)' = Original(p) /\ HeldIds(p)' = HeldIds(p) /\ Base' = Base /\ Hidden(p)' = Hidden(p)
      /\ ~PuttingBack'
  BY <1>2, <1>4, LeftChanged
<1>6. i \in HeldIds(p)
  BY <1>1, <1>3 DEF PlanOK, HeldIds
<1>7. Queued' = Queued \ {i} /\ \A j \in Queued' : pending'[j] = pending[j]
  BY <1>1, <1>3 DEF Queued, TypeOK
<1>8. plan[p].left \subseteq Queued /\ (Queued \subseteq plan[p].left => Fits(Base, may))
  BY <1>2, <1>3 DEF PlanKept, EntryKept
<1>9. QueueKept' /\ BaseKept'
  BY <1>1, <1>2, <1>3, <1>5, <1>7, <1>8 DEF QueueKept, BaseKept
<1>10. WorkKept(p)'
  BY <1>2, <1>3, <1>5, Resting, RestKept
<1>11. NamesKept(p)' /\ FreshKept(p)'
  BY <1>2, <1>3, <1>5 DEF PlanKept, NamesKept, FreshKept, Holding
<1>12. EntryKept(p)'
  BY <1>1, <1>2, <1>3, <1>5, <1>7, <1>8 DEF PlanKept, EntryKept, L
<1>13. UndoKept(p)'
  BY <1>2, <1>3, <1>5, <1>6, <1>7 DEF PlanKept, UndoKept
<1> QED BY <1>9, <1>10, <1>11, <1>12, <1>13, RenameStep DEF PlanKept

LEMMA RestoredKept ==
    ASSUME RenameInv, SecretInv, ~strayed, NEW p \in Worker, Restore(p)
    PROVE  SecretInv'
<1>1. PICK i \in plan[p].left : /\ pending' = [pending EXCEPT ![i] = plan[p].held[i]]
                                /\ may' = may \cup (IF Queued = {} THEN {} ELSE {plan[p].held[i].val})
                                /\ plan' = [plan EXCEPT ![p].left = @ \ {i}]
  BY DEF Restore
<1>2. plan[p].phase = "restoring" /\ UNCHANGED <<configured, plain, secrets, unlocked, doc, step, job>>
  BY DEF Restore, program
<1>3. /\ QueueKept /\ BaseKept /\ PlanKept(p) /\ step[p] = "idle" /\ job[p].op = "get"
      /\ PlanOK(p) /\ TypeOK /\ p \in Programs /\ plan[p] \in Plan /\ plan \in [Programs -> Plan]
  BY <1>2, Before, AtIdle, Resting
<1> DEFINE L == plan[p].left \ {i}
<1>4. plan' = [plan EXCEPT ![p].left = L]
  BY <1>1, <1>3
<1> HIDE DEF L
<1>5. /\ plan'[p].phase = plan[p].phase /\ plan'[p].from = plan[p].from /\ plan'[p].to = plan[p].to
      /\ plan'[p].reverts = plan[p].reverts /\ plan'[p].held = plan[p].held
      /\ HeldIds(p)' = HeldIds(p) /\ Base' = Base /\ Hidden(p)' = Hidden(p)
  BY <1>2, <1>4, LeftChanged
<1>6. i \in HeldIds(p) /\ i \in Ids /\ plan[p].held[i] # NoFile
  BY <1>1, <1>3 DEF PlanOK, HeldIds
<1>7. /\ plan[p].held[i].name = configured
      /\ plan[p].held[i].val \in may \/ Queued # {}
  BY <1>2, <1>3, <1>6 DEF PlanKept, UndoKept
<1>8. may \subseteq may' /\ plan[p].held[i].val \in may'
  BY <1>1, <1>7
<1>9. /\ Queued' = Queued \cup {i} /\ pending'[i] = plan[p].held[i]
      /\ \A j \in Queued' : j # i => j \in Queued /\ pending'[j] = pending[j]
  BY <1>1, <1>3, <1>6 DEF Queued, TypeOK
<1>10. QueueKept'
  <2> SUFFICES ASSUME NEW j \in Queued' PROVE pending'[j].name = configured' /\ pending'[j].val \in may'
    BY DEF QueueKept
  <2>1. CASE j = i
    BY <1>2, <1>7, <1>8, <1>9, <2>1
  <2>2. CASE j # i
    BY <1>2, <1>3, <1>8, <1>9, <2>2 DEF QueueKept
  <2> QED BY <2>1, <2>2
<1>11. BaseKept'
  BY <1>2, <1>3, <1>5, <1>9 DEF BaseKept
<1>12. WorkKept(p)'
  BY <1>2, <1>3, <1>5, Resting, RestKept
<1>13. NamesKept(p)' /\ FreshKept(p)' /\ EntryKept(p)'
  BY <1>2, <1>3, <1>5 DEF PlanKept, NamesKept, FreshKept, EntryKept, Holding
<1>14. UndoKept(p)'
  BY <1>2, <1>3, <1>5, <1>8, <1>9 DEF PlanKept, UndoKept
<1> QED BY <1>10, <1>11, <1>12, <1>13, <1>14, RenameStep DEF PlanKept

LEMMA UndoneKept ==
    ASSUME RenameInv, SecretInv, ~strayed, NEW p \in Worker, Undo(p)
    PROVE  SecretInv'
<1> DEFINE new == [plan[p] EXCEPT !.phase = "restoring", !.left = HeldIds(p)]
           wrote == plan[p].original # NoFile \/ plan[p].held # Nothing
<1>1. /\ plan[p].phase = "undoing"
      /\ UNCHANGED <<configured, unlocked, pending, step, job, history>>
      /\ plan' = [plan EXCEPT ![p] = new]
  BY DEF Undo, HeldIds
<1>2. /\ QueueKept /\ BaseKept /\ PlanKept(p) /\ ~PuttingBack /\ step[p] = "idle" /\ job[p].op = "get"
      /\ PlanOK(p) /\ TypeOK /\ p \in Programs /\ plan[p] \in Plan
  BY <1>1, Before, NotPuttingBack, AtIdle, Resting
<1>3. plan'[p] = new /\ (PuttingBack' <=> new.phase = "restoring" /\ new.left # {})
  BY <1>1, OnlyHis
<1>4. /\ new.phase = "restoring" /\ new.from = plan[p].from /\ new.to = plan[p].to
      /\ new.reverts = plan[p].reverts /\ new.held = plan[p].held /\ new.left = HeldIds(p)
  BY <1>2 DEF Plan
<1> HIDE DEF new
<1>5. PuttingBack' <=> HeldIds(p) # {}
  BY <1>3, <1>4
<1>6. CASE wrote
  <2>1. plan[p].held # Nothing => \E i \in Ids : plan[p].held[i] # NoFile
    BY <1>2 DEF Nothing, Plan
  <2>2. plan[p].held # Nothing => unlocked[p] # 0
    BY <1>2, <2>1 DEF PlanOK
  <2>3. unlocked[p] = 0 => plan[p].original # NoFile /\ plain # NoFile
    BY <1>2, <1>6, <2>2 DEF PlanOK
  <2>4. Base' = Original(p) /\ (unlocked[p] # 0 => doc'[p] = Original(p))
    <3>1. CASE unlocked[p] = 0
      <4>1. State(p) = "unencrypted" /\ plain' = plan[p].original
        BY <1>6, <2>3, <3>1 DEF Undo, State
      <4> QED BY <2>3, <3>1, <4>1 DEF Base, Original
    <3>2. CASE unlocked[p] # 0
      <4>1. /\ secrets' = plan[p].original /\ plain' = plain
            /\ doc' = [doc EXCEPT ![p] = IF secrets' = NoFile THEN NoEntries ELSE secrets'.doc]
        BY <1>6, <3>2 DEF Undo, State
      <4>2. plain = NoFile
        BY <1>1, <1>2, <3>2 DEF PlanKept, NamesKept, Holding, Hidden
      <4>3. doc'[p] = IF secrets' = NoFile THEN NoEntries ELSE secrets'.doc
        BY <1>2, <4>1 DEF TypeOK
      <4> QED BY <3>2, <4>1, <4>2, <4>3 DEF Base, Original
    <3> QED BY <3>1, <3>2
  <2>5. Tidy(Original(p), configured) /\ (Queued = {} /\ HeldIds(p) = {} => Fits(Original(p), may))
    BY <1>1, <1>2, <1>6 DEF PlanKept, UndoKept
  <2>6. Tidy(Base', configured) /\ (Queued = {} /\ HeldIds(p) = {} => Fits(Base', may))
    BY <2>4, <2>5
  <2>7. unlocked[p] # 0 => Same(doc'[p], Base')
    BY <2>4, SameSelf
  <2> QED
    <3>1. Queued' = Queued /\ may' = may
      BY <1>1 DEF Queued, history
    <3>2. QueueKept' /\ BaseKept'
      BY <1>1, <1>2, <1>5, <2>6, <3>1 DEF QueueKept, BaseKept
    <3>3. WorkKept(p)'
      BY <1>1, <1>2, <2>7, RestKept
    <3>4. HeldIds(p)' = HeldIds(p)
      BY <1>3, <1>4 DEF HeldIds
    <3>5. ~Hidden(p)'
      <4>1. ~Hidden(p)
        BY <1>1, <1>2 DEF PlanKept, NamesKept, Holding
      <4>2. unlocked[p] # 0 => plain' = plain
        BY DEF Undo, State
      <4> QED BY <1>1, <4>1, <4>2 DEF Hidden
    <3>6. PlanKept(p)'
      BY <1>1, <1>2, <1>3, <1>4, <3>1, <3>4, <3>5 DEF PlanKept, NamesKept, FreshKept, EntryKept, UndoKept, Holding
    <3> QED BY <3>2, <3>3, <3>6, RenameStep
<1>7. CASE ~wrote
  <2>1. UNCHANGED <<plain, secrets, doc>>
    BY <1>7 DEF Undo
  <2>2. Base' = Base /\ Queued' = Queued /\ may' = may /\ Hidden(p)' = Hidden(p)
    BY <1>1, <2>1 DEF Base, Queued, Hidden, history
  <2>3. QueueKept' /\ BaseKept'
    BY <1>1, <1>2, <2>2 DEF QueueKept, BaseKept
  <2>4. WorkKept(p)'
    BY <1>1, <1>2, <2>1, <2>2, Resting, RestKept
  <2>5. HeldIds(p)' = HeldIds(p)
    BY <1>3, <1>4 DEF HeldIds
  <2>6. PlanKept(p)'
    BY <1>1, <1>2, <1>3, <1>4, <2>2, <2>5 DEF PlanKept, NamesKept, FreshKept, EntryKept, UndoKept, Holding
  <2> QED BY <2>3, <2>4, <2>6, RenameStep
<1> QED BY <1>6, <1>7

(* What RenameEntry makes of an entry and of the one it leaves: it marks    *)
(* it, takes the mark, or lets it keep its own.                             *)
Marked(d, f, t) == [d EXCEPT ![t] = [val |-> d[f].val, mark |-> TRUE], ![f] = NoEntry]
Unmarked(d, f, t) == [d EXCEPT ![t] = [val |-> d[f].val, mark |-> FALSE], ![f] = NoEntry]
Refilled(d, f, t) == [d EXCEPT ![t].val = d[f].val, ![f] = NoEntry]

Written(p, d) ==
    IF plan[p].resumes
    THEN [d EXCEPT ![plan[p].to].val = d[plan[p].from].val, ![plan[p].from] = NoEntry]
    ELSE Renamed(d, plan[p].from, plan[p].to, ~plan[p].reverts)

LEMMA WrittenEntry ==
    ASSUME NEW p, NEW d
    PROVE  /\ plan[p].resumes => Written(p, d) = Refilled(d, plan[p].from, plan[p].to)
           /\ ~plan[p].resumes /\ ~plan[p].reverts => Written(p, d) = Marked(d, plan[p].from, plan[p].to)
           /\ ~plan[p].resumes /\ plan[p].reverts => Written(p, d) = Unmarked(d, plan[p].from, plan[p].to)
BY DEF Written, Renamed, Refilled, Marked, Unmarked

LEMMA MarkedEntry ==
    ASSUME NEW d \in Documents, NEW f \in Names, NEW t \in Names, f # t
    PROVE  /\ Marked(d, f, t) \in Documents /\ Unmarked(d, f, t) \in Documents
           /\ Marked(d, f, t)[t].val = d[f].val /\ Unmarked(d, f, t)[t].val = d[f].val
           /\ Marked(d, f, t)[t].mark
           /\ ~Entered(Marked(d, f, t), f)
<1>1. Marked(d, f, t) \in Documents /\ Unmarked(d, f, t) \in Documents
  BY DEF Documents, Marked, Unmarked, NoEntry, Roles
<1>2. /\ Marked(d, f, t)[t] = [val |-> d[f].val, mark |-> TRUE] /\ Marked(d, f, t)[f] = NoEntry
      /\ Unmarked(d, f, t)[t] = [val |-> d[f].val, mark |-> FALSE]
  BY DEF Documents, Marked, Unmarked
<1> QED BY <1>1, <1>2 DEF Entered, NoEntry

LEMMA RefilledEntry ==
    ASSUME NEW d \in Documents, NEW f \in Names, NEW t \in Names, f # t
    PROVE  /\ Refilled(d, f, t) \in Documents
           /\ Refilled(d, f, t)[t].val = d[f].val /\ (d[t].mark => Refilled(d, f, t)[t].mark)
           /\ ~Entered(Refilled(d, f, t), f)
<1>1. d[t] \in [val : Roles, mark : BOOLEAN]
  BY DEF Documents
<1>2. Refilled(d, f, t)[t] = [d[t] EXCEPT !.val = d[f].val] /\ Refilled(d, f, t)[f] = NoEntry
  BY DEF Documents, Refilled
<1>3. Refilled(d, f, t) \in Documents
  BY DEF Documents, Refilled, NoEntry, Roles
<1> QED BY <1>1, <1>2, <1>3 DEF Entered, NoEntry

(* The one entry of a document, renamed and marked.                         *)
LEMMA LeftEntry ==
    ASSUME NEW d, NEW c \in Names, NEW t \in Names, NEW V, Single(d), Entered(d, t),
           d[t].mark \/ t = c, d[t].val \in V
    PROVE  Tidy(d, c) /\ Fits(d, V)
BY DEF Single, Tidy, Fits

(* What RenameEntry writes.                                                 *)
LEMMA EntryWritten ==
    ASSUME RenameInv, SecretInv, ~strayed, NEW p \in Worker, plan[p].phase = "renaming", ~Taken(p),
           NEW merged, merged = IF State(p) = "unlocked" THEN QueuedFor(plan[p].from) ELSE {},
           NEW d, d = MergedWith(Document(p), merged),
           NEW next, next = Written(p, d),
           ~Doubled(next)
    PROVE  /\ next \in Documents /\ Tidy(next, configured) /\ Fits(next, may)
           /\ merged = Queued
           /\ ~plan[p].reverts => ~Entered(next, configured)
<1>1. /\ QueueKept /\ BaseKept /\ PlanKept(p) /\ ~PuttingBack /\ step[p] = "idle" /\ configured \in Names
      /\ PlanOK(p) /\ plan[p] \in Plan /\ \A i \in Queued : pending[i] \in Payloads
  BY Before, NotPuttingBack, AtIdle
<1>2. (plain # NoFile \/ unlocked[p] # 0) /\ ~Hidden(p)
  BY <1>1 DEF PlanOK, PlanKept, NamesKept, Holding
<1> DEFINE doc0 == Document(p)
           from == plan[p].from
           to   == plan[p].to
<1>3. doc0 \in Documents /\ Same(doc0, Base)
  BY <1>1, <1>2, Resting
<1>4. from \in Names /\ to \in Names /\ plan[p].reverts \in BOOLEAN
  BY <1>1 DEF Plan
<1>5. \A n \in Names : Entered(doc0, n) <=> Entered(Base, n)
  BY <1>3, SameTidy
<1>6. Queued = {} => Fits(doc0, may)
  BY <1>1, <1>3, SameTidy DEF BaseKept
<1>7. Tidy(doc0, configured)
  BY <1>1, <1>3, SameTidy DEF BaseKept
<1>8. State(p) # "unlocked" => Queued = {}
  BY <1>2, BaseTyped DEF State
<1>9. State(p) = "unlocked" => QueuedFor(to) = {}
  BY DEF Taken
<1>10. QueuedFor(configured) = Queued
  BY <1>1 DEF QueueKept, QueuedFor
<1>11. IF plan[p].reverts THEN to = configured /\ from # configured
                          ELSE from = configured /\ to # configured
  BY <1>1 DEF PlanKept, NamesKept, Holding
<1>12. CASE ~plan[p].reverts
  <2>1. from = configured /\ to # configured
    BY <1>11, <1>12
  <2>2. merged = Queued
    BY <1>8, <1>10, <2>1
  <2>3. Entered(doc0, configured) \/ Queued # {}
    BY <1>1, <1>2, <1>5, <1>12 DEF PlanKept, FreshKept, EntryKept
  <2>4. Queued # {} => /\ d[from].val \in may /\ Entered(d, from)
                       /\ \A n \in Names : n # from => d[n] = doc0[n]
    <3>1. Queued \in SUBSET Ids
      BY DEF Queued
    <3> HIDE DEF doc0
    <3> QED BY <1>1, <1>3, <2>1, <2>2, <3>1, MergedOne DEF QueueKept, doc0
  <2>5. Queued = {} => d = doc0
    BY <1>3, <2>2, MergedNone
  <2>6. d[from].val \in may /\ Entered(d, from) /\ d[to] = doc0[to]
    <3>1. Queued = {} => d[from].val \in may /\ Entered(d, from)
      BY <1>1, <1>6, <2>1, <2>3, <2>5 DEF Fits
    <3> QED BY <1>4, <2>1, <2>4, <2>5, <3>1
  <2>7. d \in Documents
    BY <1>1, <1>3, <2>2, MergedTyped DEF Queued
  <2> HIDE DEF doc0, from, to
  <2>8. CASE plan[p].resumes
    <3>1. Entered(doc0, to)
      BY <2>8 DEF Taken, doc0, to
    <3>2. doc0[to].mark
      BY <1>4, <1>7, <2>1, <3>1 DEF Tidy
    <3>3. next = Refilled(d, from, to)
      BY <2>8, WrittenEntry DEF from, to
    <3>4. /\ next \in Documents /\ next[to].val = d[from].val /\ (d[to].mark => next[to].mark)
          /\ ~Entered(next, from)
      BY <1>4, <2>1, <2>7, <3>3, RefilledEntry
    <3>5. next[to].mark /\ next[to].val \in may /\ Entered(next, to)
      BY <2>6, <3>2, <3>4 DEF Entered
    <3> QED BY <1>1, <1>4, <2>1, <2>2, <3>4, <3>5, NotDoubled, FilesAssumption, LeftEntry
  <2>9. CASE ~plan[p].resumes
    <3>1. next = Marked(d, from, to)
      BY <1>12, <2>9, WrittenEntry DEF from, to
    <3>2. next \in Documents /\ next[to].val = d[from].val /\ next[to].mark /\ ~Entered(next, from)
      BY <1>4, <2>1, <2>7, <3>1, MarkedEntry
    <3>3. next[to].mark /\ next[to].val \in may /\ Entered(next, to)
      BY <2>6, <3>2 DEF Entered
    <3> QED BY <1>1, <1>4, <2>1, <2>2, <3>2, <3>3, NotDoubled, FilesAssumption, LeftEntry
  <2> QED BY <2>8, <2>9
<1>13. CASE plan[p].reverts
  <2>1. to = configured /\ from # configured
    BY <1>11, <1>13
  <2>2. Queued = {}
    BY <1>8, <1>9, <1>10, <2>1
  <2>3. QueuedFor(from) = {}
    BY <2>2 DEF QueuedFor
  <2>4. merged = {} /\ d = doc0
    BY <1>3, <2>3, MergedNone
  <2>5. Entered(doc0, from) /\ ~plan[p].resumes
    BY <1>1, <1>2, <1>4, <1>5, <1>13 DEF PlanKept, EntryKept
  <2>6. doc0[from].val \in may
    BY <1>4, <1>6, <2>2, <2>5 DEF Fits
  <2> HIDE DEF doc0, from, to
  <2>7. next = Unmarked(doc0, from, to)
    BY <1>13, <2>4, <2>5, WrittenEntry DEF from, to
  <2>8. next \in Documents /\ next[to].val = doc0[from].val
    BY <1>3, <1>4, <2>1, <2>7, MarkedEntry
  <2>9. next[to].val \in may /\ Entered(next, to)
    BY <2>5, <2>6, <2>8 DEF Entered
  <2> QED BY <1>1, <1>4, <1>13, <2>1, <2>2, <2>4, <2>8, <2>9, NotDoubled, FilesAssumption, LeftEntry
<1> QED BY <1>4, <1>12, <1>13

LEMMA EntryRenamed ==
    ASSUME RenameInv, SecretInv, ~strayed, NEW p \in Worker, RenameEntry(p), ~strayed'
    PROVE  SecretInv'
<1> DEFINE merged == IF State(p) = "unlocked" THEN QueuedFor(plan[p].from) ELSE {}
           d == MergedWith(Document(p), merged)
           next == Written(p, d)
           held == [i \in Ids |-> IF i \in merged THEN pending[i] ELSE NoFile]
<1>1. /\ plan[p].phase = "renaming" /\ ~Taken(p) /\ ~Doubled(next)
      /\ UNCHANGED <<configured, pending, unlocked, step, job, history>>
  BY DEF RenameEntry, Written
<1>2. /\ QueueKept /\ BaseKept /\ PlanKept(p) /\ ~PuttingBack /\ step[p] = "idle" /\ job[p].op = "get"
      /\ PlanOK(p) /\ TypeOK /\ p \in Programs /\ plan[p] \in Plan /\ configured \in Names
  BY <1>1, Before, NotPuttingBack, AtIdle, Resting
<1>3. plain # NoFile \/ unlocked[p] # 0
  BY <1>1, <1>2 DEF PlanOK
<1>4. unlocked[p] # 0 => plain = NoFile
  BY <1>1, <1>2 DEF PlanKept, NamesKept, Holding, Hidden
<1>5. \/ /\ unlocked[p] = 0 /\ plain # NoFile /\ plain' = next /\ UNCHANGED <<secrets, doc>>
         /\ plan' = [plan EXCEPT ![p] = [plan[p] EXCEPT !.phase = "written", !.original = plain]]
      \/ /\ unlocked[p] # 0 /\ secrets' = [key |-> unlocked[p], doc |-> next] /\ plain' = plain
         /\ doc' = [doc EXCEPT ![p] = next]
         /\ plan' = [plan EXCEPT ![p] = [plan[p] EXCEPT !.phase = "written", !.original = secrets,
                                                        !.left = merged, !.held = held]]
  BY <1>3, <1>4 DEF RenameEntry, State, Written
<1>6. /\ next \in Documents /\ Tidy(next, configured) /\ Fits(next, may) /\ merged = Queued
      /\ ~plan[p].reverts => ~Entered(next, configured)
  BY <1>1, EntryWritten
<1> HIDE DEF next, d, merged
<1>7. next # NoFile /\ (unlocked[p] # 0 => secrets' # NoFile)
  <2>1. unlocked[p] # 0 => unlocked[p] \in Keys
    BY <1>2, FilesAssumption DEF TypeOK, Keys
  <2>2. unlocked[p] # 0 => secrets' \in Secrets
    BY <1>5, <1>6, <2>1 DEF Secrets
  <2> QED BY <1>6, <2>2, FilesAssumption
<1>8. Base' = next /\ (unlocked[p] # 0 => doc'[p] = next)
  BY <1>2, <1>3, <1>4, <1>5, <1>7 DEF Base, TypeOK
<1>9. Queued' = Queued /\ may' = may /\ (unlocked[p] = 0 => Queued = {})
  BY <1>1, <1>3, BaseTyped DEF Queued, history
<1>10. QueueKept'
  BY <1>1, <1>2, <1>9 DEF QueueKept
<1>11. BaseKept'
  BY <1>1, <1>6, <1>8, <1>9 DEF BaseKept
<1>12. WorkKept(p)'
  BY <1>1, <1>2, <1>8, SameSelf, RestKept
<1>13. /\ plan'[p].phase = "written" /\ plan'[p].from = plan[p].from /\ plan'[p].to = plan[p].to
       /\ plan'[p].calls = plan[p].calls /\ plan'[p].reverts = plan[p].reverts /\ plan'[p].late = plan[p].late
       /\ plan'[p].original = (IF unlocked[p] = 0 THEN plain ELSE secrets)
       /\ plan'[p].left = Queued
       /\ \A i \in Ids : plan'[p].held[i] # NoFile => i \in Queued /\ plan'[p].held[i] = pending[i]
  <2>1. CASE unlocked[p] = 0
    <3> DEFINE new == [plan[p] EXCEPT !.phase = "written", !.original = plain]
    <3>1. plan' = [plan EXCEPT ![p] = new]
      BY <1>5, <2>1
    <3>2. plan'[p] = new
      BY <3>1, OnlyHis
    <3>3. plan[p].left = {} /\ \A i \in Ids : plan[p].held[i] = NoFile
      BY <1>1, <1>2 DEF PlanKept, FreshKept, Nothing
    <3> QED BY <1>2, <1>9, <2>1, <3>2, <3>3 DEF Plan
  <2>2. CASE unlocked[p] # 0
    <3> DEFINE new == [plan[p] EXCEPT !.phase = "written", !.original = secrets, !.left = merged, !.held = held]
    <3>1. plan' = [plan EXCEPT ![p] = new]
      BY <1>5, <2>2
    <3>2. plan'[p] = new
      BY <3>1, OnlyHis
    <3>3. \A i \in Ids : held[i] # NoFile => i \in Queued /\ held[i] = pending[i]
      BY <1>6
    <3> HIDE DEF held
    <3> QED BY <1>2, <1>6, <2>2, <3>2, <3>3 DEF Plan
  <2> QED BY <2>1, <2>2
<1>14. NamesKept(p)' /\ FreshKept(p)'
  BY <1>1, <1>2, <1>4, <1>5, <1>13 DEF PlanKept, NamesKept, FreshKept, Holding, Hidden
<1>15. EntryKept(p)'
  BY <1>1, <1>6, <1>8, <1>9, <1>13 DEF EntryKept
<1>16. UndoKept(p)'
  <2>1. Original(p)' = Base
    BY <1>1, <1>3, <1>4, <1>13 DEF Original, Base
  <2>2. Tidy(Base, configured) /\ (Queued = {} => Fits(Base, may))
    BY <1>2 DEF BaseKept
  <2>3. \A i \in HeldIds(p)' : plan'[p].held[i].name = configured /\ plan'[p].held[i].val \in may
    BY <1>2, <1>13 DEF HeldIds, QueueKept
  <2> QED BY <1>1, <1>9, <2>1, <2>2, <2>3 DEF UndoKept
<1> QED BY <1>10, <1>11, <1>12, <1>14, <1>15, <1>16, RenameStep DEF PlanKept

(* The steps of a rename. *)
LEMMA RenameStepsKept ==
    ASSUME RenameInv, SecretInv, ~strayed, NEW p \in Worker, RenameSteps(p), ~strayed'
    PROVE  SecretInv'
<1>1. CASE \E n \in Names : PlanRename(p, n) \/ PlanRevert(p, n)
  BY <1>1, PlannedKept, RevertPlannedKept
<1>2. CASE Refused(p) \/ Reverted(p) \/ Undone(p) \/ Leaves(p)
  BY <1>2, GivenUpKept DEF Refused, Reverted, Undone, Leaves
<1>3. CASE \/ Transact(p) \/ RenameEntry(p) \/ RemoveMerged(p) \/ RemoveFails(p) \/ Save(p) \/ Replace(p)
           \/ SaveFails(p) \/ Undo(p) \/ Restore(p) \/ ClearMarker(p) \/ Killed(p)
  BY <1>3, TransactKept, EntryRenamed, MergedRemovedKept, UndoingKept, SavingKept, ReplacedKept, UndoneKept, RestoredKept,
     MarkerCleared, KilledKept
<1> QED BY <1>1, <1>2, <1>3 DEF RenameSteps

(* Edits of the configuration that leave the name leave the vault and the   *)
(* plans alone.                                                             *)
LEMMA EditsKept ==
    ASSUME SecretInv, strayed' \/ (~strayed /\ configured' = configured),
           UNCHANGED <<files, program, history, plan>>
    PROVE  SecretInv'
<1>1. /\ UNCHANGED <<plan, may, pending, plain, secrets, step, job, names, unlocked, doc>>
      /\ Base' = Base /\ Queued' = Queued
  BY DEF files, program, history, Base, Queued
<1>2. CASE strayed'
  BY <1>2 DEF SecretInv
<1>3. CASE ~strayed /\ configured' = configured
  <2>1. QueueKept' /\ BaseKept'
    BY <1>1, <1>3 DEF SecretInv, QueueKept, BaseKept, PuttingBack
  <2>2. ASSUME NEW p \in Worker
        PROVE  (WorkKept(p) /\ PlanKept(p))'
    <3>1. WorkKept(p) /\ PlanKept(p)
      BY <1>3 DEF SecretInv
    <3>2. WorkKept(p)'
      BY <1>1, <1>3, <3>1 DEF WorkKept, AtBase
    <3>3. Original(p)' = Original(p) /\ HeldIds(p)' = HeldIds(p)
      BY <1>1 DEF Original, HeldIds
    <3>4. PlanKept(p)'
      BY <1>1, <1>3, <3>1, <3>3 DEF Hidden, PlanKept, NamesKept, FreshKept, EntryKept, UndoKept
    <3> QED BY <3>2, <3>4
  <2> QED BY <2>1, <2>2 DEF SecretInv
<1> QED BY <1>2, <1>3

---------------------------------------------------------------------------
(* The invariant and what follows *)

LEMMA SecretInit == RenameInit => SecretInv
<1> SUFFICES ASSUME RenameInit PROVE SecretInv
  OBVIOUS
<1>1. /\ Queued = {} /\ Base = NoEntries /\ may = {NoValue}
      /\ \A p \in Worker : step[p] = "idle" /\ job[p] = NoJob /\ unlocked[p] = 0 /\ plan[p] = NoPlan
  BY DEF RenameInit, Init, Queued, Base, Worker
<1>2. \A n \in Names : ~Entered(Base, n)
  BY <1>1 DEF NoEntries, NoEntry, Entered
<1>3. QueueKept /\ BaseKept
  BY <1>1, <1>2, NoEntry1 DEF QueueKept, BaseKept
<1>4. ASSUME NEW p \in Worker
      PROVE  WorkKept(p) /\ PlanKept(p)
  BY <1>1, NoJobTyped, NothingHeld DEF WorkKept, AtBase, PlanKept, NamesKept, FreshKept, EntryKept, UndoKept, Holding
<1> QED BY <1>3, <1>4 DEF SecretInv

LEMMA SecretStep == RenameInv /\ SecretInv /\ [RenameNext]_renameVars => SecretInv'
<1> SUFFICES ASSUME RenameInv, SecretInv, [RenameNext]_renameVars
             PROVE  SecretInv'
  OBVIOUS
<1>1. CASE strayed'
  BY <1>1 DEF SecretInv
<1>2. CASE ~strayed'
  <2>1. ASSUME NEW p \in Programs, VaultSteps(p)
        PROVE  SecretInv'
    BY <2>1, WorkerKept, QueuerKept DEF Worker
  <2>2. ASSUME NEW p \in Programs, RenameSteps(p)
        PROVE  SecretInv'
    <3>1. ~strayed
      BY <1>2, <2>2 DEF RenameSteps, PlanRename, PlanRevert, Transact, Refused, RenameEntry, RemoveMerged,
         RemoveFails, Save, Replace, SaveFails, Reverted, Undo, Restore, Undone, ClearMarker, Leaves, Killed
    <3>2. p \in Worker
      BY <2>2, RenamesAreHis
    <3> QED BY <1>2, <2>2, <3>1, <3>2, RenameStepsKept
  <2>3. CASE Editing
    <3>1. UNCHANGED <<files, program, history, plan>>
      BY <2>3 DEF Editing, LoadVersioned, SaveIfUnchanged, ReplaceUnchanged, GivesUp, OpenInEditor, EditByHand, vars
    <3>2. ~strayed /\ configured' = configured
      <4>1. CASE ReplaceUnchanged
        BY <1>2, <4>1 DEF ReplaceUnchanged, Replaces, RenameInv, PlanInv, ConfigInv
      <4>2. CASE EditByHand
        BY <1>2, <4>2 DEF EditByHand
      <4>3. CASE LoadVersioned \/ SaveIfUnchanged \/ GivesUp \/ OpenInEditor
        BY <1>2, <4>3 DEF LoadVersioned, SaveIfUnchanged, GivesUp, OpenInEditor, vars
      <4> QED BY <2>3, <4>1, <4>2, <4>3 DEF Editing
    <3> QED BY <3>1, <3>2, EditsKept
  <2>4. CASE UNCHANGED renameVars
    BY <1>2, <2>4, EditsKept DEF renameVars, vars
  <2> QED BY <2>1, <2>2, <2>3, <2>4 DEF RenameNext, Editing
<1> QED BY <1>1, <1>2

LEMMA SecretFound ==
    ASSUME RenameInv, SecretInv
    PROVE  SecretKept
<1> SUFFICES ASSUME ~strayed, ~PuttingBack PROVE Kept
  BY DEF SecretKept
<1>1. /\ QueueKept /\ BaseKept /\ configured \in Names /\ \A i \in Queued : pending[i] \in Payloads
      /\ Base \in Documents
  BY BaseTyped DEF SecretInv, RenameInv, VaultInv, TypeOK, Queued, Files
<1>2. CASE Queued = {}
  <2>1. Found = Base
    BY <1>1, <1>2, BaseTyped, MergedNone DEF Found, Base
  <2>2. Fits(Base, may) /\ Tidy(Base, configured)
    BY <1>1, <1>2 DEF BaseKept
  <2>3. CASE Entered(Base, configured)
    BY <1>1, <2>1, <2>2, <2>3 DEF Fits, Kept, Stored
  <2>4. CASE ~Entered(Base, configured)
    <3>1. Stored = NoValue
      BY <2>1, <2>4 DEF Stored, Entered
    <3>2. CASE \E n \in Names : Entered(Base, n)
      <4>1. PICK n \in Names : Entered(Base, n)
        BY <3>2
      <4>2. Base[n].mark /\ Base[n].val \in may
        BY <2>2, <2>4, <4>1 DEF Tidy, Fits
      <4>3. Found[n].val \in Leftover
        BY <2>1, <3>1, <4>2 DEF Leftover
      <4> QED BY <2>1, <4>2, <4>3 DEF Kept
    <3>3. CASE \A n \in Names : ~Entered(Base, n)
      BY <2>2, <3>1, <3>3 DEF Fits, Kept
    <3> QED BY <3>2, <3>3
  <2> QED BY <2>3, <2>4
<1>3. CASE Queued # {}
  <2>1. Found = MergedWith(Base, Queued)
    BY <1>3, BaseTyped DEF Found, Base
  <2>2. Queued \in SUBSET Ids
    BY DEF Queued
  <2>3. Stored \in may
    BY <1>1, <1>3, <2>1, <2>2, MergedOne DEF QueueKept, Stored
  <2> QED BY <2>3 DEF Kept
<1> QED BY <1>2, <1>3

(* Wherever a program is killed, whatever of the rename fails, and whatever *)
(* others queue meanwhile: the credential reads a value it may have, or the *)
(* entry a rename left has one, but for the ways SecretKept names           *)
(* (RenameCredential, RenamePlan's undo, unlock, Encrypt, Decrypt).         *)
THEOREM SecretStaysKept == RenameSpec => []SecretKept
<1> QED BY RenameAlways, SecretInit, SecretStep, SecretFound, PTL DEF RenameSpec
=============================================================================
