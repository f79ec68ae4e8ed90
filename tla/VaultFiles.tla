---------------------------- MODULE VaultFiles ----------------------------
(***************************************************************************)
(* The files of a vault and what programs do to them (internal/vault,      *)
(* operations.go, pending.go, switch.go): one role of one credential is    *)
(* set, deleted and read while the vault is absent, plain, locked or       *)
(* unlocked, and the vault is encrypted and decrypted.  The configuration  *)
(* names the credential; CredentialRename changes that name.               *)
(*                                                                         *)
(* Each step writes at most one file; State and the reads that open a      *)
(* vault are one step each.  writeFile replaces a file whole, so a crash   *)
(* leaves the old or the new one.  Programs share nothing but the files,   *)
(* and take no lock on them.  Ciphertext is a record of the key it was     *)
(* encrypted to and its content.                                           *)
(***************************************************************************)
EXTENDS Naturals, FiniteSets

CONSTANTS Programs,
          Names,       \* the names the credential may have
          Values,
          NoValue,     \* the role is not stored
          NoFile,
          MaxId,       \* how many names pending files may get
          MaxKey,      \* how many keys are generated at most
          Ops          \* the operations of this instance

Ids == 1..MaxId        \* in the order of the names
Keys == 1..MaxKey
Roles == Values \cup {NoValue}

(* A document holds an entry per name: its role and the mark of a rename.   *)
(* An entry without its role is none.                                       *)
NoEntry == [val |-> NoValue, mark |-> FALSE]
Documents == [Names -> [val : Roles, mark : BOOLEAN]]
NoEntries == [n \in Names |-> NoEntry]
NoJob == [op |-> "get", name |-> CHOOSE n \in Names : TRUE, val |-> NoValue]
Secrets == [key : Keys, doc : Documents]
Payloads == [key : Keys, name : Names, val : Values]
Files(S) == S \cup {NoFile}

ASSUME FilesAssumption ==
    /\ Names # {}
    /\ NoValue \notin Values
    /\ NoFile \notin Roles \cup Keys \cup Documents \cup Secrets \cup Payloads
    /\ MaxId \in Nat
    /\ MaxKey \in Nat
    /\ Ops \subseteq {"set", "delete", "get", "encrypt", "decrypt"}

VARIABLES
    configured,    \* the name the configuration gives the credential
    plain,         \* secrets.json
    recipient,     \* recipient
    keyFile,       \* key.age
    secrets,       \* secrets.age
    pending,       \* pending/<id>.age
    lastKey,       \* the key generated last
    (* One of each per program. *)
    unlocked,      \* the key a program holds the vault open with, or 0
    doc,           \* Vault.doc, or the document it works on
    step,          \* what the program does next
    job,           \* the operation it was asked for, its name and its value
    key,           \* the key it read or generated
    names,         \* the pending files unlock listed
    (* History. *)
    last,          \* the values the role may have by what was acknowledged
    may            \* the same where of several values queued any may win

files == <<plain, recipient, keyFile, secrets, pending, lastKey>>
program == <<unlocked, doc, step, job, key, names>>
history == <<last, may>>
vars == <<configured, files, program, history>>

StepNames == {"idle", "loaded", "queueing", "listing", "merging", "merged", "clearing", "open",
          "writeRecipient", "writeKey", "writeSecrets", "removePlain",
          "writePlain", "removeSecrets", "removeKey", "removeRecipient"}

TypeOK ==
    /\ configured \in Names
    /\ plain \in Files(Documents)
    /\ recipient \in Files(Keys)
    /\ keyFile \in Files(Keys)
    /\ secrets \in Files(Secrets)
    /\ pending \in [Ids -> Files(Payloads)]
    /\ lastKey \in 0..MaxKey
    /\ unlocked \in [Programs -> 0..MaxKey]
    /\ doc \in [Programs -> Documents]
    /\ step \in [Programs -> StepNames]
    /\ job \in [Programs -> [op : {"set", "delete", "get", "encrypt", "decrypt"},
                             name : Names, val : Roles]]
    /\ key \in [Programs -> 0..MaxKey]
    /\ names \in [Programs -> SUBSET Ids]
    /\ last \subseteq Roles
    /\ may \subseteq Roles

Init ==
    /\ configured = NoJob.name
    /\ plain = NoFile /\ recipient = NoFile /\ keyFile = NoFile /\ secrets = NoFile
    /\ pending = [i \in Ids |-> NoFile]
    /\ lastKey = 0
    /\ unlocked = [p \in Programs |-> 0]
    /\ doc = [p \in Programs |-> NoEntries]
    /\ step = [p \in Programs |-> "idle"]
    /\ job = [p \in Programs |-> NoJob]
    /\ key = [p \in Programs |-> 0]
    /\ names = [p \in Programs |-> {}]
    /\ last = {NoValue}
    /\ may = {NoValue}

---------------------------------------------------------------------------
(* State: what the vault is to a program. *)
State(p) ==
    IF unlocked[p] # 0 THEN "unlocked"
    ELSE IF plain # NoFile THEN "unencrypted"
    ELSE IF keyFile # NoFile THEN "locked"
    ELSE "absent"

Queued == {i \in Ids : pending[i] # NoFile}

With(d, n, v) == [d EXCEPT ![n] = IF v = NoValue THEN NoEntry ELSE [@ EXCEPT !.val = v]]

(* Pending files are merged in the order of their names. *)
MergedWith(d, ids) ==
    [n \in Names |->
        LET mine == {i \in ids : pending[i].name = n} IN
        IF mine = {} THEN d[n] ELSE [d[n] EXCEPT !.val = pending[CHOOSE i \in mine : \A j \in mine : j <= i].val]]

Changes(o) == o \in {"set", "delete"}

(* What an operation makes of the document. *)
Result(p) == IF Changes(job[p].op) THEN With(doc[p], job[p].name, job[p].val) ELSE doc[p]

Goes(p, s) == step' = [step EXCEPT ![p] = s]

Stops(p) == Goes(p, "idle") /\ job' = [job EXCEPT ![p] = NoJob]

(* The operation is over.  A change that was acknowledged is what the role  *)
(* has from now on; until then it may have it, acknowledged or not.         *)
Returns(p) ==
    /\ Stops(p)
    /\ IF Changes(job[p].op)
       THEN last' = {job[p].val} /\ may' = {job[p].val} \cup {pending[i].val : i \in Queued}
       ELSE UNCHANGED history

(* It failed, before it changed anything. *)
Fails(p) ==
    /\ Stops(p)
    /\ key' = [key EXCEPT ![p] = 0]
    /\ names' = [names EXCEPT ![p] = {}]
    /\ UNCHANGED <<history, unlocked>>

(* A program reads the configuration, is asked for an operation and looks   *)
(* at the state of the vault.  Set creates an absent vault, plain or        *)
(* encrypted, as it is answered.                                            *)
Begin(p, o, v) ==
    /\ step[p] = "idle"
    /\ job' = [job EXCEPT ![p] = [op |-> o, name |-> configured, val |-> v]]
    /\ last' = last \cup (IF Changes(o) THEN {v} ELSE {})
    /\ may' = may \cup last'
    /\ UNCHANGED <<files, unlocked, key, names>>

Set(p, v) ==
    /\ "set" \in Ops
    /\ Begin(p, "set", v)
    /\ CASE State(p) = "absent" ->
              /\ doc' = [doc EXCEPT ![p] = With(NoEntries, configured, v)]
              /\ \E s \in {"writePlain"} \cup (IF lastKey < MaxKey THEN {"writeRecipient"} ELSE {}) :
                    Goes(p, s)
         [] State(p) = "unencrypted" -> doc' = [doc EXCEPT ![p] = plain] /\ Goes(p, "loaded")
         [] State(p) = "locked" -> Goes(p, "queueing") /\ UNCHANGED doc
         [] State(p) = "unlocked" -> doc' = [doc EXCEPT ![p] = With(@, configured, v)] /\ Goes(p, "writeSecrets")

(* A role the vault does not hold is left alone, here and in Opened, and    *)
(* reported as not there: nothing is acknowledged.                          *)
Delete(p) ==
    /\ "delete" \in Ops
    /\ State(p) # "absent"
    /\ State(p) = "unencrypted" => plain[configured].val # NoValue
    /\ State(p) = "unlocked" => doc[p][configured].val # NoValue
    /\ Begin(p, "delete", NoValue)
    /\ CASE State(p) = "unencrypted" -> doc' = [doc EXCEPT ![p] = plain] /\ Goes(p, "loaded")
         [] State(p) = "locked" -> Goes(p, "open") /\ UNCHANGED doc
         [] State(p) = "unlocked" -> /\ doc' = [doc EXCEPT ![p] = With(@, configured, NoValue)]
                                      /\ Goes(p, "writeSecrets")

(* Get of a locked vault, or Unlock. *)
Get(p) ==
    /\ "get" \in Ops
    /\ State(p) = "locked"
    /\ Begin(p, "get", NoValue)
    /\ Goes(p, "open")
    /\ UNCHANGED doc

Encrypt(p) ==
    /\ "encrypt" \in Ops
    /\ State(p) \in {"absent", "unencrypted"}
    /\ lastKey < MaxKey
    /\ Begin(p, "encrypt", NoValue)
    /\ doc' = [doc EXCEPT ![p] = IF plain = NoFile THEN NoEntries ELSE plain]
    /\ Goes(p, "writeRecipient")

Decrypt(p) ==
    /\ "decrypt" \in Ops
    /\ State(p) \in {"locked", "unlocked"}
    /\ Begin(p, "decrypt", NoValue)
    /\ Goes(p, "open")
    /\ UNCHANGED doc

---------------------------------------------------------------------------
(* Set and Delete of a plain vault *)

WriteLoaded(p) ==
    /\ step[p] = "loaded"
    /\ plain' = Result(p)
    /\ Returns(p)
    /\ UNCHANGED <<recipient, keyFile, secrets, pending, lastKey, unlocked, doc, key, names>>

(* Set of a locked vault: addPending, which needs the recipient only. *)
ReadRecipient(p) ==
    /\ step[p] = "queueing"
    /\ key[p] = 0
    /\ IF recipient = NoFile
       THEN Fails(p)
       ELSE key' = [key EXCEPT ![p] = recipient] /\ UNCHANGED <<step, job, names, history, unlocked>>
    /\ UNCHANGED <<files, doc>>

AddPending(p) ==
    /\ step[p] = "queueing"
    /\ key[p] # 0
    /\ \E i \in Ids \ Queued :
          pending' = [pending EXCEPT ![i] = [key |-> key[p], name |-> job[p].name, val |-> job[p].val]]
    /\ key' = [key EXCEPT ![p] = 0]
    /\ Stops(p)
    /\ last' = {job[p].val}
    /\ may' = {job[p].val} \cup {pending[i].val : i \in Queued}
    /\ UNCHANGED <<plain, recipient, keyFile, secrets, lastKey, unlocked, doc, names>>

---------------------------------------------------------------------------
(* unlock *)

(* The key, the recipient and the document are read; a vault that none of   *)
(* them opens is an error.                                                  *)
Open(p) ==
    /\ step[p] = "open"
    /\ IF \/ keyFile = NoFile
          \/ keyFile # recipient
          \/ secrets # NoFile /\ secrets.key # keyFile
       THEN Fails(p) /\ UNCHANGED doc
       ELSE /\ key' = [key EXCEPT ![p] = keyFile]
            /\ doc' = [doc EXCEPT ![p] = IF secrets = NoFile THEN NoEntries ELSE secrets.doc]
            /\ Goes(p, "listing")
            /\ UNCHANGED <<job, names, history, unlocked>>
    /\ UNCHANGED files

List(p) ==
    /\ step[p] = "listing"
    /\ names' = [names EXCEPT ![p] = Queued]
    /\ Goes(p, "merging")
    /\ UNCHANGED <<files, history, unlocked, doc, job, key>>

(* A slip: what was merged is left to the next change to be written. *)
MergeUnwritten(p) ==
    /\ step[p] = "merging"
    /\ \A i \in Queued : pending[i].key = key[p]
    /\ doc' = [doc EXCEPT ![p] = MergedWith(doc[p], Queued)]
    /\ Goes(p, "clearing")
    /\ UNCHANGED <<files, history, unlocked, job, key, names>>

(* mergePending lists the files again; one it cannot decrypt is an error.   *)
Merge(p) ==
    /\ step[p] = "merging"
    /\ IF \E i \in Queued : pending[i].key # key[p]
       THEN Fails(p) /\ UNCHANGED doc
       ELSE /\ doc' = [doc EXCEPT ![p] = MergedWith(doc[p], Queued)]
            /\ Goes(p, IF Queued = {} THEN "clearing" ELSE "merged")
            /\ names' = [names EXCEPT ![p] = IF Queued = {} THEN {} ELSE @]
            /\ UNCHANGED <<history, unlocked, job, key>>
    /\ UNCHANGED files

WriteMerged(p) ==
    /\ step[p] = "merged"
    /\ secrets' = [key |-> key[p], doc |-> doc[p]]
    /\ Goes(p, "clearing")
    /\ UNCHANGED <<plain, recipient, keyFile, pending, lastKey, history, unlocked, doc, job, key,
                   names>>

(* The files listed first are removed once the document holds them, and one *)
(* that cannot be removed is left; then the operation that wanted the vault *)
(* open goes on.                                                            *)
RemovePending(p) ==
    /\ step[p] = "clearing"
    /\ \E i \in names[p] :
          /\ pending' \in {pending, [pending EXCEPT ![i] = NoFile]}
          /\ names' = [names EXCEPT ![p] = @ \ {i}]
    /\ UNCHANGED <<plain, recipient, keyFile, secrets, lastKey, history, unlocked, doc, step, job,
                   key>>

Opened(p) ==
    /\ step[p] = "clearing"
    /\ names[p] = {}
    /\ unlocked' = [unlocked EXCEPT ![p] = key[p]]
    /\ doc' = [doc EXCEPT ![p] = Result(p)]
    /\ key' = [key EXCEPT ![p] = 0]
    /\ CASE job[p].op = "delete" /\ doc[p][job[p].name].val # NoValue ->
              Goes(p, "writeSecrets") /\ UNCHANGED <<job, history>>
         [] job[p].op = "decrypt" -> Goes(p, "writePlain") /\ UNCHANGED <<job, history>>
         [] OTHER -> Stops(p) /\ UNCHANGED history
    /\ UNCHANGED <<files, names>>

---------------------------------------------------------------------------
(* create and Encrypt: recipient, key, document, and the plain one last *)

(* A slip: the recipient is written and its key is not kept. *)
KeyNotKept(p) ==
    /\ step[p] = "writeRecipient"
    /\ lastKey < MaxKey
    /\ lastKey' = lastKey + 1
    /\ recipient' = lastKey'
    /\ Goes(p, "writeKey")
    /\ UNCHANGED <<plain, keyFile, secrets, pending, history, unlocked, doc, job, key, names>>

WriteRecipient(p) ==
    /\ step[p] = "writeRecipient"
    /\ lastKey < MaxKey
    /\ lastKey' = lastKey + 1
    /\ key' = [key EXCEPT ![p] = lastKey']
    /\ recipient' = lastKey'
    /\ Goes(p, "writeKey")
    /\ UNCHANGED <<plain, keyFile, secrets, pending, history, unlocked, doc, job, names>>

WriteKey(p) ==
    /\ step[p] = "writeKey"
    /\ keyFile' = key[p]
    /\ Goes(p, "writeSecrets")
    /\ UNCHANGED <<plain, recipient, secrets, pending, lastKey, history, unlocked, doc, job, key,
                   names>>

(* Also the whole write of a vault unlocked before. *)
WriteSecrets(p) ==
    /\ step[p] = "writeSecrets"
    /\ LET k == IF unlocked[p] # 0 THEN unlocked[p] ELSE key[p] IN
          /\ secrets' = [key |-> k, doc |-> doc[p]]
          /\ unlocked' = [unlocked EXCEPT ![p] = IF job[p].op = "encrypt" THEN 0 ELSE k]
    /\ key' = [key EXCEPT ![p] = IF job[p].op = "encrypt" THEN @ ELSE 0]
    /\ IF job[p].op = "encrypt" THEN Goes(p, "removePlain") /\ UNCHANGED <<job, history>> ELSE Returns(p)
    /\ UNCHANGED <<plain, recipient, keyFile, pending, lastKey, doc, names>>

RemovePlain(p) ==
    /\ step[p] = "removePlain"
    /\ plain' = NoFile
    /\ unlocked' = [unlocked EXCEPT ![p] = key[p]]
    /\ key' = [key EXCEPT ![p] = 0]
    /\ Returns(p)
    /\ UNCHANGED <<recipient, keyFile, secrets, pending, lastKey, doc, names>>

---------------------------------------------------------------------------
(* Decrypt: the plain document first, then the others are removed.  A plain *)
(* vault is created by its first write alone.                               *)

WritePlain(p) ==
    /\ step[p] = "writePlain"
    /\ plain' = doc[p]
    /\ IF job[p].op = "decrypt" THEN Goes(p, "removeSecrets") /\ UNCHANGED <<job, history>> ELSE Returns(p)
    /\ UNCHANGED <<recipient, keyFile, secrets, pending, lastKey, unlocked, doc, key, names>>

RemoveSecrets(p) ==
    /\ step[p] = "removeSecrets"
    /\ secrets' = NoFile
    /\ Goes(p, "removeKey")
    /\ UNCHANGED <<plain, recipient, keyFile, pending, lastKey, history, unlocked, doc, job, key,
                   names>>

RemoveKey(p) ==
    /\ step[p] = "removeKey"
    /\ keyFile' = NoFile
    /\ Goes(p, "removeRecipient")
    /\ UNCHANGED <<plain, recipient, secrets, pending, lastKey, history, unlocked, doc, job, key,
                   names>>

RemoveRecipient(p) ==
    /\ step[p] = "removeRecipient"
    /\ recipient' = NoFile
    /\ unlocked' = [unlocked EXCEPT ![p] = 0]
    /\ key' = [key EXCEPT ![p] = 0]
    /\ doc' = [doc EXCEPT ![p] = NoEntries]
    /\ Returns(p)
    /\ UNCHANGED <<plain, keyFile, secrets, pending, lastKey, names>>

(* A write or a removal fails, and Decrypt with it: what it did before      *)
(* stays, and the program goes on with the vault unlocked.                  *)
DecryptFails(p) ==
    /\ job[p].op = "decrypt"
    /\ step[p] \in {"writePlain", "removeSecrets", "removeKey", "removeRecipient"}
    /\ Stops(p)
    /\ UNCHANGED <<files, history, unlocked, doc, key, names>>

(* The program ends, done or killed in the middle of anything. *)
Ends(p) ==
    /\ step[p] # "idle" \/ unlocked[p] # 0
    /\ Stops(p)
    /\ unlocked' = [unlocked EXCEPT ![p] = 0]
    /\ doc' = [doc EXCEPT ![p] = NoEntries]
    /\ key' = [key EXCEPT ![p] = 0]
    /\ names' = [names EXCEPT ![p] = {}]
    /\ UNCHANGED <<files, history>>

Steps(p) ==
    \/ \E v \in Values : Set(p, v)
    \/ Delete(p) \/ Get(p) \/ Encrypt(p) \/ Decrypt(p)
    \/ WriteLoaded(p) \/ ReadRecipient(p) \/ AddPending(p)
    \/ Open(p) \/ List(p) \/ Merge(p) \/ WriteMerged(p) \/ RemovePending(p) \/ Opened(p)
    \/ WriteRecipient(p) \/ WriteKey(p) \/ WriteSecrets(p) \/ RemovePlain(p)
    \/ WritePlain(p) \/ RemoveSecrets(p) \/ RemoveKey(p) \/ RemoveRecipient(p)
    \/ DecryptFails(p) \/ Ends(p)

Next == (\E p \in Programs : Steps(p)) /\ UNCHANGED configured

Spec == Init /\ [][Next]_vars

---------------------------------------------------------------------------
(* What a program that opens the vault now would find. *)
Found ==
    IF plain # NoFile THEN plain
    ELSE IF keyFile = NoFile THEN NoEntries
    ELSE MergedWith(IF secrets = NoFile THEN NoEntries ELSE secrets.doc, Queued)

(* What the credential reads; CredentialLeftovers, where it reads nothing,  *)
(* names the marked entry of a rename that stopped.                         *)
Stored == Found[configured].val
Leftover == IF Stored # NoValue THEN {} ELSE {Found[n].val : n \in {m \in Names : Found[m].mark}}

(* Wherever a program is killed, the role has the value acknowledged last,  *)
(* or one asked for and not acknowledged since; of several values queued    *)
(* while the vault was locked, any of them (the order of the writes in      *)
(* unlock, Encrypt, Decrypt and a rename, which may leave it to be finished *)
(* or put back).                                                            *)
Kept == ({Stored} \cup Leftover) \cap may # {}

(* "Set stores the secret of one credential role": "it writes a pending     *)
(* entry, encrypted to the vault's public recipient, which is merged in on  *)
(* the next unlock" (Set): what was set last is what the role has.          *)
LastSetWins == Stored \in last

(* "after merging every pending entry so nothing queued while it was locked *)
(* is lost" (Decrypt): once the key is gone, nothing is left queued.        *)
NothingLeftQueued == plain # NoFile /\ keyFile = NoFile => Queued = {}
=============================================================================
