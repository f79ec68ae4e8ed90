------------------------- MODULE CredentialRename -------------------------
(***************************************************************************)
(* The rename of a credential (internal/manage, internal/vault/rename.go)  *)
(* over the files of VaultFiles and the configuration file with its lock   *)
(* and revision (internal/config/transaction.go, store.go).                *)
(*                                                                         *)
(* The vault is written before the configuration, whose save is the commit *)
(* point.  A rename that fails puts the vault back; one that is killed     *)
(* leaves a marked entry, and is renamed again or reverted.  One program   *)
(* works on the vault; others set secrets while they find it locked, edit  *)
(* the configuration in a transaction, or by hand.                         *)
(***************************************************************************)
EXTENDS VaultFiles

CONSTANTS Queuers,     \* the programs that only set secrets of a locked vault
          MaxEdits,    \* how many edits of the configuration are made at most
          NoProgram,
          OtherProgram, \* one that edits the configuration in a transaction
          NoRevision,
          GoesOn        \* a bound: whether the vault is used on where a secret strayed

ASSUME RenameAssumption ==
    /\ Queuers \subseteq Programs
    /\ \A p, q \in Programs \ Queuers : p = q
    /\ MaxEdits \in Nat
    /\ NoProgram \notin Programs
    /\ OtherProgram \notin Programs \cup {NoProgram}
    /\ NoRevision \notin Names \X SUBSET Nat
    /\ GoesOn \in BOOLEAN

VARIABLES
    edits,      \* the edits the configuration file holds, beside the name
    configLock, \* the program that holds config.yaml.lock, or NoProgram
    plan,       \* a program's RenamePlan and what its execution keeps
    loaded,     \* the revision the other program edits, or NoRevision
    copy,       \* the content an editor shows, or NoRevision
    (* History. *)
    due,        \* the content the file has if no change was lost
    overtaken,  \* an editor saved between a check and the replace it is for
    stranded,   \* a secret was left queued beside a Decrypt: see Openable
    strayed     \* a secret went where no rename looks: see SecretKept

edited == <<edits, loaded, copy, due, overtaken>>
renameVars == <<vars, edited, configLock, plan, stranded, strayed>>

(* The revision of the configuration is its content. *)
Edits == 1..MaxEdits
Revision == <<configured, edits>>
Revisions == Names \X SUBSET Edits

Nothing == [i \in Ids |-> NoFile]

NoPlan == [phase |-> "none", from |-> NoJob.name, to |-> NoJob.name, base |-> NoRevision,
           calls |-> FALSE, resumes |-> FALSE, reverts |-> FALSE,
           original |-> NoFile, held |-> Nothing, left |-> {}, late |-> {}]

Phases == {"none", "planned", "renaming", "written", "saving", "undoing", "restoring", "saved"}

RenameTypeOK ==
    /\ TypeOK
    /\ edits \subseteq Edits
    /\ configLock \in Programs \cup {NoProgram, OtherProgram}
    /\ configLock = OtherProgram => loaded # NoRevision
    /\ \A p \in Programs :
          /\ plan[p].phase \in Phases
          /\ plan[p].phase = "none" => plan[p] = NoPlan
          /\ plan[p].phase \in {"renaming", "written", "saving", "undoing", "restoring"} <=> configLock = p
          /\ plan[p].left \subseteq {i \in Ids : plan[p].held[i] # NoFile}
    /\ {loaded, copy} \subseteq Revisions \cup {NoRevision}
    /\ due \in Revisions
    /\ {overtaken, stranded, strayed} \subseteq BOOLEAN

RenameInit ==
    /\ Init
    /\ edits = {}
    /\ configLock = NoProgram
    /\ plan = [p \in Programs |-> NoPlan]
    /\ loaded = NoRevision /\ copy = NoRevision
    /\ due = <<configured, {}>>
    /\ overtaken = FALSE /\ stranded = FALSE /\ strayed = FALSE

---------------------------------------------------------------------------
Entered(d, n) == d[n].val # NoValue

(* A document that holds an entry for each of two names. *)
Doubled(d) == d # NoFile /\ \E m, n \in Names : m # n /\ Entered(d, m) /\ Entered(d, n)

(* The document a program works on, plain or unlocked. *)
Document(p) == IF State(p) = "unencrypted" THEN plain ELSE doc[p]

(* The plain document hides what a program writes that holds the vault open *)
(* after its Decrypt failed.                                                *)
Hidden(p) == unlocked[p] # 0 /\ plain # NoFile

QueuedFor(n) == {i \in Queued : pending[i].name = n}

(* A slip of the next: the entry is not marked. *)
RenamedUnmarked(d, from, to, mark) ==
    [d EXCEPT ![to] = [val |-> d[from].val, mark |-> FALSE], ![from] = NoEntry]

(* renameEntry: the entry keeps its secret and gets or loses the mark. *)
Renamed(d, from, to, mark) ==
    [d EXCEPT ![to] = [val |-> d[from].val, mark |-> mark], ![from] = NoEntry]

Advances(p, s) == plan' = [plan EXCEPT ![p].phase = s]

(* A slip: a plan that is refused keeps the lock. *)
GivesPlan(p) == plan' = [plan EXCEPT ![p] = NoPlan] /\ UNCHANGED configLock

(* The plan is carried out, refused or given up; Transact lets go. *)
Gives(p) ==
    /\ plan' = [plan EXCEPT ![p] = NoPlan]
    /\ configLock' = IF configLock = p THEN NoProgram ELSE configLock

(* planRename and planCredentialVault, of a program that found the vault    *)
(* plain or unlocked it; a locked one refuses every rename.  The new name   *)
(* is refused where the vault holds anything under it but the entry a       *)
(* rename that stopped left.                                                *)
Plans(p, n) ==
    /\ GoesOn \/ ~strayed
    /\ p \notin Queuers
    /\ step[p] = "idle"
    /\ plan[p] = NoPlan
    /\ n # configured
    /\ State(p) \in {"absent", "unencrypted", "unlocked"}
    /\ State(p) = "unlocked" => \A i \in Queued : pending[i].key = unlocked[p]
    /\ Entered(Document(p), n) => ~Entered(Document(p), configured)

PlanRename(p, n) ==
    /\ Plans(p, n)
    /\ State(p) = "unlocked" => QueuedFor(n) = {}
    /\ LET d == IF State(p) = "absent" THEN NoEntries ELSE Document(p) IN
          plan' = [plan EXCEPT ![p] =
                     [NoPlan EXCEPT !.phase = "planned", !.from = configured, !.to = n, !.base = Revision,
                         !.calls = Entered(d, configured) \/ (State(p) = "unlocked" /\ QueuedFor(configured) # {}),
                         !.resumes = Entered(d, n)]]
    /\ UNCHANGED <<vars, edited, configLock, stranded, strayed>>

(* PlanRevertRename: the entry a rename that stopped left goes back. *)
PlanRevert(p, n) ==
    /\ Plans(p, n)
    /\ State(p) # "absent"
    /\ Entered(Document(p), n)
    /\ plan' = [plan EXCEPT ![p] =
                  [NoPlan EXCEPT !.phase = "planned", !.from = n, !.to = configured, !.base = Revision,
                      !.calls = TRUE, !.reverts = TRUE]]
    /\ UNCHANGED <<vars, edited, configLock, stranded, strayed>>

(* Transact: the lock, and the revision the plan was made from. *)
Transact(p) ==
    /\ plan[p].phase = "planned"
    /\ configLock = NoProgram
    /\ IF plan[p].base = Revision
       THEN configLock' = p /\ Advances(p, IF plan[p].calls THEN "renaming" ELSE "written")
       ELSE Gives(p)
    /\ strayed' = (strayed \/ Hidden(p))
    /\ UNCHANGED <<vars, edited, stranded>>

(* What RenameCredential refuses although the plan did not. *)
Taken(p) ==
    LET d == Document(p) IN
    \/ IF plan[p].resumes THEN ~Entered(d, plan[p].to) \/ Entered(d, plan[p].from)
                          ELSE Entered(d, plan[p].to)
    \/ State(p) = "unlocked" /\ (QueuedFor(plan[p].to) # {} \/ \E i \in Queued : pending[i].key # unlocked[p])

Refused(p) ==
    /\ plan[p].phase = "renaming"
    /\ Taken(p)
    /\ Gives(p)
    /\ UNCHANGED <<vars, edited, stranded, strayed>>

(* RenameCredential: one write of the plain or of the encrypted document,   *)
(* into which what is queued for the old name is merged first.  A resumed   *)
(* rename calls it for that alone.                                          *)
RenameEntry(p) ==
    /\ plan[p].phase = "renaming"
    /\ ~Taken(p)
    /\ LET from   == plan[p].from
           to     == plan[p].to
           merged == IF State(p) = "unlocked" THEN QueuedFor(from) ELSE {}
           d      == MergedWith(Document(p), merged)
           next   == IF plan[p].resumes
                     THEN [d EXCEPT ![to].val = d[from].val, ![from] = NoEntry]
                     ELSE Renamed(d, from, to, ~plan[p].reverts)
       IN /\ IF State(p) = "unencrypted"
             THEN /\ plain' = next
                  /\ plan' = [plan EXCEPT ![p].phase = "written", ![p].original = plain]
                  /\ UNCHANGED <<secrets, doc>>
             ELSE /\ secrets' = [key |-> unlocked[p], doc |-> next]
                  /\ doc' = [doc EXCEPT ![p] = next]
                  /\ plan' = [plan EXCEPT ![p].phase = "written", ![p].original = secrets, ![p].left = merged,
                                 ![p].held = [i \in Ids |-> IF i \in merged THEN pending[i] ELSE NoFile]]
                  /\ UNCHANGED plain
          /\ strayed' = (strayed \/ Doubled(next))
    /\ UNCHANGED <<configured, recipient, keyFile, pending, lastKey, unlocked, step, job, key, names, history,
                   edited, configLock, stranded>>

(* What was merged is removed, or all of it is put back. *)
RemoveMerged(p) ==
    /\ plan[p].phase = "written"
    /\ \E i \in plan[p].left :
          /\ pending' = [pending EXCEPT ![i] = NoFile]
          /\ plan' = [plan EXCEPT ![p].left = @ \ {i}]
    /\ UNCHANGED <<configured, plain, recipient, keyFile, secrets, lastKey, program, history,
                   edited, configLock, stranded, strayed>>

RemoveFails(p) ==
    /\ plan[p].phase = "written"
    /\ plan[p].left # {}
    /\ Advances(p, "undoing")
    /\ UNCHANGED <<vars, edited, configLock, stranded, strayed>>

(* A slip: save trusts the check Transact made. *)
SaveUnchecked(p) ==
    /\ plan[p].phase = "written"
    /\ plan[p].left = {}
    /\ ~plan[p].reverts
    /\ Advances(p, "saving")
    /\ UNCHANGED <<vars, edited, configLock, stranded, strayed>>

(* save checks the revision again. *)
Save(p) ==
    /\ plan[p].phase = "written"
    /\ plan[p].left = {}
    /\ ~plan[p].reverts
    /\ plan[p].base = Revision
    /\ Advances(p, "saving")
    /\ UNCHANGED <<vars, edited, configLock, stranded, strayed>>

(* A replace is not due to hold what an editor saved after its check. *)
Replaces(name, others) ==
    /\ configured' = name
    /\ edits' = others
    /\ due' = IF overtaken THEN Revision' ELSE <<name, due[2] \cup others>>
    /\ overtaken' = FALSE
    /\ configLock' = NoProgram

(* The new content is encoded, backed up and written beside the file, and   *)
(* replaces it.  A secret that was queued for the old name while the rename *)
(* ran is not seen any more.                                                *)
Replace(p) ==
    /\ plan[p].phase = "saving"
    /\ Replaces(plan[p].to, plan[p].base[2])
    /\ IF plan[p].calls \/ plan[p].resumes
       THEN Advances(p, "saved") ELSE plan' = [plan EXCEPT ![p] = NoPlan]
    /\ strayed' = (strayed \/ QueuedFor(plan[p].from) \cap plan[p].late # {})
    /\ UNCHANGED <<files, program, history, loaded, copy, stranded>>

SaveFails(p) ==
    /\ \/ plan[p].phase = "written" /\ plan[p].left = {} /\ ~plan[p].reverts
       \/ plan[p].phase = "saving"
    /\ Advances(p, "undoing")
    /\ overtaken' = FALSE
    /\ UNCHANGED <<vars, edits, loaded, copy, due, configLock, stranded, strayed>>

(* A revert is done with its write of the vault. *)
Reverted(p) ==
    /\ plan[p].phase = "written"
    /\ plan[p].left = {}
    /\ plan[p].reverts
    /\ Gives(p)
    /\ UNCHANGED <<vars, edited, stranded, strayed>>

(* A slip: the document is put back and the queued secrets are not. *)
UndoDocument(p) ==
    /\ plan[p].phase = "undoing"
    /\ LET wrote == plan[p].original # NoFile IN
          /\ plain' = IF wrote /\ State(p) = "unencrypted" THEN plan[p].original ELSE plain
          /\ secrets' = IF wrote /\ State(p) = "unlocked" THEN plan[p].original ELSE secrets
          /\ doc' = [doc EXCEPT ![p] = IF wrote /\ State(p) = "unlocked" THEN plan[p].original.doc ELSE @]
    /\ plan' = [plan EXCEPT ![p].phase = "restoring", ![p].left = {}]
    /\ UNCHANGED <<configured, recipient, keyFile, pending, lastKey, unlocked, step, job, key, names, history,
                   edited, configLock, stranded, strayed>>

(* undo: the document first, byte for byte, then the queued secrets. *)
Undo(p) ==
    /\ plan[p].phase = "undoing"
    /\ LET wrote == plan[p].original # NoFile \/ plan[p].held # Nothing IN
       IF wrote /\ State(p) = "unencrypted"
       THEN plain' = plan[p].original /\ UNCHANGED <<secrets, doc>>
       ELSE IF wrote
       THEN /\ secrets' = plan[p].original
            /\ doc' = [doc EXCEPT ![p] = IF secrets' = NoFile THEN NoEntries ELSE secrets'.doc]
            /\ UNCHANGED plain
       ELSE UNCHANGED <<plain, secrets, doc>>
    /\ plan' = [plan EXCEPT ![p].phase = "restoring", ![p].left = {i \in Ids : plan[p].held[i] # NoFile}]
    /\ UNCHANGED <<configured, recipient, keyFile, pending, lastKey, unlocked, step, job, key, names, history,
                   edited, configLock, stranded, strayed>>

Restore(p) ==
    /\ plan[p].phase = "restoring"
    /\ \E i \in plan[p].left :
          /\ pending' = [pending EXCEPT ![i] = plan[p].held[i]]
          /\ may' = may \cup (IF Queued = {} THEN {} ELSE {plan[p].held[i].val})
          /\ plan' = [plan EXCEPT ![p].left = @ \ {i}]
    /\ UNCHANGED <<configured, plain, recipient, keyFile, secrets, lastKey, program, last,
                   edited, configLock, stranded, strayed>>

Undone(p) ==
    /\ plan[p].phase = "restoring"
    /\ plan[p].left = {}
    /\ Gives(p)
    /\ UNCHANGED <<vars, edited, stranded, strayed>>

(* ClearRenameMarker, a write of its own. *)
ClearMarker(p) ==
    /\ plan[p].phase = "saved"
    /\ LET d == [Document(p) EXCEPT ![plan[p].to].mark = FALSE] IN
       IF State(p) = "unencrypted"
       THEN plain' = d /\ UNCHANGED <<secrets, doc>>
       ELSE /\ secrets' = [key |-> unlocked[p], doc |-> d]
            /\ doc' = [doc EXCEPT ![p] = d]
            /\ UNCHANGED plain
    /\ Gives(p)
    /\ UNCHANGED <<configured, recipient, keyFile, pending, lastKey, unlocked, step, job, key, names, history,
                   edited, stranded, strayed>>

(* The user thinks better of it, or the mark cannot be removed. *)
Leaves(p) ==
    /\ plan[p].phase \in {"planned", "saved"}
    /\ Gives(p)
    /\ UNCHANGED <<vars, edited, stranded, strayed>>

(* The program is killed; the system lets go of its lock. *)
Killed(p) ==
    /\ plan[p].phase # "none"
    /\ Gives(p)
    /\ unlocked' = [unlocked EXCEPT ![p] = 0]
    /\ doc' = [doc EXCEPT ![p] = NoEntries]
    /\ overtaken' = (overtaken /\ plan[p].phase # "saving")
    /\ strayed' = (strayed \/ (plan[p].phase = "restoring" /\ plan[p].left # {}))
    /\ UNCHANGED <<configured, files, step, job, key, names, history, edits, loaded, copy, due, stranded>>

RenameSteps(p) ==
    \/ \E n \in Names : PlanRename(p, n) \/ PlanRevert(p, n)
    \/ Transact(p) \/ Refused(p) \/ RenameEntry(p) \/ RemoveMerged(p) \/ RemoveFails(p)
    \/ Save(p) \/ Replace(p) \/ SaveFails(p) \/ Reverted(p) \/ Undo(p) \/ Restore(p) \/ Undone(p)
    \/ ClearMarker(p) \/ Leaves(p) \/ Killed(p)

---------------------------------------------------------------------------
(* Another program edits the rest of the configuration. *)

LoadVersioned ==
    /\ loaded = NoRevision
    /\ edits # Edits
    /\ loaded' = Revision
    /\ UNCHANGED <<vars, edits, copy, due, overtaken, configLock, plan, stranded, strayed>>

(* SaveIfUnchanged checks the revision under the lock, then replaces.       *)
SaveIfUnchanged ==
    /\ loaded # NoRevision
    /\ configLock = NoProgram
    /\ IF loaded = Revision
       THEN configLock' = OtherProgram /\ UNCHANGED loaded
       ELSE loaded' = NoRevision /\ UNCHANGED configLock
    /\ UNCHANGED <<vars, edits, copy, due, overtaken, plan, stranded, strayed>>

ReplaceUnchanged ==
    /\ configLock = OtherProgram
    /\ \E e \in Edits \ loaded[2] : Replaces(loaded[1], loaded[2] \cup {e})
    /\ loaded' = NoRevision
    /\ UNCHANGED <<files, program, history, copy, plan, stranded, strayed>>

(* It fails before it replaces the file, or is killed. *)
GivesUp ==
    /\ configLock = OtherProgram
    /\ configLock' = NoProgram
    /\ loaded' = NoRevision
    /\ overtaken' = FALSE
    /\ UNCHANGED <<vars, edits, copy, due, plan, stranded, strayed>>

(* An editor takes no lock.  What it saves is the copy it loaded, which     *)
(* takes back what was saved since.                                         *)
OpenInEditor ==
    /\ edits # Edits
    /\ copy' = Revision
    /\ UNCHANGED <<vars, edits, loaded, due, overtaken, configLock, plan, stranded, strayed>>

Replacing == configLock = OtherProgram \/ \E p \in Programs : plan[p].phase = "saving"

EditByHand ==
    /\ copy # NoRevision
    /\ \E e \in Edits \ copy[2] : edits' = copy[2] \cup {e}
    /\ configured' = copy[1]
    /\ due' = Revision'
    /\ copy' = NoRevision
    /\ overtaken' = Replacing
    /\ strayed' = (strayed \/ copy[1] # configured)
    /\ UNCHANGED <<files, program, history, loaded, configLock, plan, stranded>>

---------------------------------------------------------------------------
(* The steps of VaultFiles.  Programs set secrets of a locked vault without *)
(* a look at the configuration's lock, or at what another does to the vault.*)

Queues(p) ==
    \/ State(p) = "locked" /\ \E v \in Values : Set(p, v)
    \/ ReadRecipient(p) \/ AddPending(p) \/ Ends(p)

Works(p) == plan[p] = NoPlan /\ Steps(p)

(* A file is queued for a key, or for a vault, that is no more; or the      *)
(* vault becomes a plain one while a file is queued.                        *)
Strands(new) ==
    \/ \E i \in new : plain # NoFile \/ pending'[i].key # keyFile
    \/ plain = NoFile /\ plain' # NoFile /\ Queued # {}

(* A pending file that is new has a new name, which no undo writes to. *)
VaultSteps(p) ==
    /\ GoesOn \/ ~strayed
    /\ IF p \in Queuers THEN Queues(p) ELSE Works(p)
    /\ LET new == {i \in Ids : pending[i] = NoFile /\ pending'[i] # NoFile} IN
          /\ \A q \in Programs : \A i \in new : plan[q].held[i] = NoFile
          /\ plan' = [q \in Programs |->
                         IF plan[q] = NoPlan THEN NoPlan ELSE [plan[q] EXCEPT !.late = @ \cup new]]
          /\ stranded' = (stranded \/ Strands(new))
          /\ strayed' = \/ strayed
                        \/ stranded'
                        \/ Hidden(p) /\ (plain' # plain \/ step[p] = "writeSecrets")
                        \/ \E i \in new : pending'[i].name # configured
                        \/ Doubled(plain')
                        \/ Doubled(IF secrets' = NoFile THEN NoFile ELSE secrets'.doc)
    /\ UNCHANGED <<configured, edited, configLock>>

RenameNext ==
    \/ \E p \in Programs : VaultSteps(p) \/ RenameSteps(p)
    \/ LoadVersioned \/ SaveIfUnchanged \/ ReplaceUnchanged \/ GivesUp
    \/ OpenInEditor \/ EditByHand

RenameSpec == RenameInit /\ [][RenameNext]_renameVars

---------------------------------------------------------------------------
PuttingBack == \E p \in Programs : plan[p].phase = "restoring" /\ plan[p].left # {}

(* Kept, wherever a rename is killed, fails or is finished later: "a failed *)
(* commit leaves nothing behind" and a run that stops can be finished or    *)
(* put back (renameCredential, CredentialLeftovers).  It does not hold      *)
(*  - where a secret was queued for the old name while the rename ran or    *)
(*    after it, by a program that took no lock on the configuration;        *)
(*  - where undo was killed between the document and the queued secrets;    *)
(*  - where an unlock, a set or a rename gave the credential a second entry *)
(*    beside the one a stopped rename left;                                 *)
(*  - where a file was left queued beside a Decrypt (Openable);             *)
(*  - where a program whose Decrypt failed after the plain document was     *)
(*    written goes on: it renames or changes the encrypted document, which  *)
(*    the plain one hides, or decrypts again after secrets.age was removed; *)
(*  - where an editor put the old name back.                                *)
SecretKept == strayed \/ PuttingBack \/ Kept

(* A vault that looks encrypted can be opened with its passphrase: its key  *)
(* and recipient match, and whatever is encrypted is encrypted to them      *)
(* (the order of the writes in create, Encrypt and Decrypt).  A queued file *)
(* may be of another key only where a set took no notice of a Decrypt, or   *)
(* an unlock could not remove what it merged and a Decrypt followed.        *)
Openable ==
    plain = NoFile /\ keyFile # NoFile =>
        /\ recipient = keyFile
        /\ secrets # NoFile => secrets.key = keyFile
        /\ stranded \/ \A i \in Queued : pending[i].key = keyFile

(* "Concurrent Update and SaveIfUnchanged calls therefore never lose each   *)
(* other's change" (Store.Update), nor does a rename, whose base an edit by *)
(* hand may overtake: the file holds every edit and the name saved last.    *)
(* It does not hold an edit that is saved by hand between the check of a    *)
(* program and its replace; an editor that saves takes back itself what its *)
(* copy did not hold.                                                       *)
ConfigKept == Revision = due
=============================================================================
