# TLA+ models of qconnect

`qconnect` (module `qatlas-connect`) connects agents and people to some hundred
web services. It keeps their credentials in an encrypted vault, serves an
unlocked vault from a process of its own over a Unix socket, offers the
services' operations on the command line and as an MCP server, and logs every
call in a hash chain. This directory holds TLA+ models of the parts where the
order of events matters, TLC configurations that check them on small instances,
and proofs for every instance. Paths below are relative to `src/internal/`.

    VaultRequests --+--> UnlockedVault          abstract: one unlocked vault
                    +--> VaultProcess --------> MCVaultProcess (4 cfgs)
                              +--> VaultProcess_proofs ---> VaultProcess_refines (TLAPS)
    VaultSocket --+------> MCVaultSocket (2 cfgs)
                  +------> VaultSocket_proofs (TLAPS)
    VaultFiles --+-------> MCVaultFiles (2 cfgs)
                 +-------> CredentialRename ---> MCCredentialRename (1 cfg)
                              +--> CredentialRename_proofs --> CredentialRename_secret (TLAPS)
    InvokeLog  --+-------> MCInvokeLog (2 cfgs)
                 +-------> InvokeLog_proofs (TLAPS)
    McpServer  --+-------> MCMcpServer (1 cfg)
                 +-------> McpServer_types --> McpServer_proofs (TLAPS)

## The system

| Part | State | Operations | What is hard |
|---|---|---|---|
| Vault process (`vaultproc/server.go`, `client.go`, `protocol.go`) | secrets, bindings, deadlines, in-flight count, `handingOver`, the pending handover; all under one mutex | get, check, set, delete, bind, lock, log, logcheck, approve-token, names, status | handlers, the timer, signals, lock requests and a handover run into each other; the secrets must be overwritten in the end |
| Handover (`vaultproc/handover.go`, `cli/vaultproc_serve.go`) | the phases of the predecessor, the successor it started, the program's hash | claim, prepare, commit (drain, snapshot, start, swap), stop | every step may fail or be overtaken by a stop; two processes hold the secrets for a while |
| Socket and lock file (`vaultproc/listen_unix.go`, `cli/vaultproc_unix.go`) | two paths, `socket` and `next`, each with a lock file; a flock per process | Listen, Close, handOver, removeNext, AwaitHandover, watchSocket | each is several system calls; names and inodes differ; processes die in between |
| Vault files (`vault/*.go`) | `secrets.json` or `recipient`, `key.age`, `secrets.age`, `pending/` | set, delete, get, unlock, encrypt, decrypt, rename, approvals, tokens, settings | several files per operation and no lock: crashes and other programs between two writes |
| Invocation log (`invokelog/*.go`) | one file per day, a lock file | Append with retention, Verify, summaries | writers of several programs, an end between removing and documenting, short writes |
| Connection log (`connlog`) | none | one entry, by the vault process or by itself | a request that times out after it was carried out |
| Configuration store (`config/transaction.go`, `store.go`, ...) | one YAML document, a lock, a revision | Update, Transact, SaveIfUnchanged, undo | two programs load, change and save, and an editor takes no lock |
| Management (`manage/*.go`) | a plan, from its preview to its end | create, change, rename, import, migrate | a rename writes vault and configuration one after the other; it may fail, be undone, be killed and be resumed or reverted later |
| MCP server (`cli/mcp*.go`) | the session, the client's roots and the open request for them, calls in flight, the input read and not handled | initialize, list, call, cancel, roots, restart in place | calls run beside the loop and end under two mutexes; answers of the client come late or never; a restart hands the session over in the middle |
| Update (`selfupdate`, `cli/update.go`) | the program file | fetch, verify, exchange, hand over, roll back | the running vault process must survive it |
| Everything else | | approval fingerprints, capabilities, secret resolution, local files, rate limits, release checks, web and terminal interface, providers | sequential or presentation |

They interact like this. The command line, the MCP server, the web and the
terminal interface read a secret by asking the vault process over its socket
and, if none runs, by opening the files. Management writes the files and tells
the vault process what changed (`vaultproc/process.go`, `SyncChange`). An
update asks the running vault process to prepare a handover, exchanges the
program file and commits; the vault process then starts the new program, sends
it everything over a pipe, and moves the socket to it. Every invoke ends in the
invocation log, through the vault process if that can sign the entry.

What makes each part correct: an unlocked vault behaves as one set of secrets
whoever serves it, and locks no later than it was unlocked for; the socket
path has one owner; no acknowledged secret is lost to a crash; the log keeps
what was acknowledged, and shows what was taken out; two changes of the
configuration do not undo each other; a rename ends with either name and loses
no secret on the way; every MCP request is answered once, in its session.

## The models

### VaultRequests, UnlockedVault

`VaultRequests` holds what `Server.answer` does with a request as pure
operators: `HeldAfter`, `AllowedAfter` and `AnswerTo`. A credential has one role
and an approval is a member of a set; `Bindings.Allows` is not computed.
`UnlockedVault` is the abstract specification: one set of secrets; each request
takes effect at one moment and at most once (`Serve`, `Lock`); the client learns of
it later (`Return`) or never does. A request that is refused never takes effect; of
one that broke off (`Break`) the client learns nothing: it took effect, will, or
never does. A locked vault stays locked. A handover is no step of it.

### VaultProcess

One step is one critical section of `Server.mu`, one message or one event of
the operating system.

| Code | Model |
|---|---|
| `Server` fields | `phase`, `stopped` (the closed channel), `armed` and `locksAt` (the timer), `unlockedAt`, `maxUnlock`, `held`, `allowed`, `handingOver` |
| `begin`, `end`, `inFlight` | `Read`, `Reply`; `InFlight` is the set of clients between them |
| `stop`, `wipe`, the end of `Serve` | `Stop`, `Wipe` (after every handler returned) |
| `touch`, `nextLocksAt`, `shorterLimit` | `Touch`, `NextLocksAt`, `ShorterLimit` |
| `Client.call`, `Lock` | `Dial`, `Greet`, `Retry`, `GiveUp` (the signal to the process that answered replaced) |
| the answer `Server.answer` composed, and what the call returned | `resp`, `got` |
| `Client.exchange`: its deadline, the end of its context; `failed` | `Leave`; `Broken` (the process is gone, or closed the connection) |
| `serveHandover` | `Claim`, `Prepare`, `Prepared`, `Commit`, `Snapshot`, `Swap`, their failures, `HandoverEnds` |
| `runVaultServe` with `--successor` | `SuccessorReady`, `TakeOver`, `AwaitFails` |

- A stop closes the channel before it takes the mutex. The two are one step
  here, since every critical section looks at the channel first.
- A client that leaves after its request was sent returns (`got` is `broken`) while
  the handler goes on and may still carry the request out. The handler keeps its
  place in `pc`; a client that calls again meanwhile is another element of
  `Clients`. A reply the process did not get to write is lost with it.
- `HandoverEnds` is the stop and the release of the handover together. The
  window between the two is covered by `CloseServer` while the step is `failing`.
- The verification of a release and the comparison of hashes are outcomes. The
  exchange of the program by an update is an external step, `ReplaceProgram`.
- `log`, `logcheck`, `approve-token`, `names` and `status` are left out. They
  go through the same `begin` and `end` and change no secret the process holds
  but for `approve-token`, which is on the plan.

### VaultSocket

One step is one system call on the four paths. Each process makes at most one
socket and one lock file, so inodes are named after processes. A flock belongs
to an inode. `swap` is the predecessor's side of a handover, `pc` the sequence of
`Listen`, `AwaitHandover`, `watchSocket` and `Close`.

`breached` is set when a process takes a lock that does not prove what `Listen`
takes it for (`Unproven`): the file it opened no longer lies at the path, or a
process at work there holds another one, because a handover moved or cleared the
lock file and the socket did not follow. `Exclusive` and `RemovesOwnOnly` hold
until then; `UnlockDuringHandover` shows that it happens.
`watchSocket` takes what lies at the path when it first looks for its own
socket, so `OrphanEnds` is about a process that saw its own.

### VaultFiles

One step is one file written or removed; `writeFile` replaces a file whole, so
a crash leaves the old or the new one. Ciphertext is a record of its key and
content; a document has an entry for each name, with a secret and the mark a
rename puts there. The names of pending files are random in the code: an id is
taken at will from `1..MaxId`. `Ends` ends a program anywhere. `may` is the
history of the values the credential may have by what was acknowledged: an
operation that was asked for and not acknowledged may have taken effect or not,
and the value of a file that is still queued may come back at any unlock.

What fails and leaves its program alive: a removal in `removePending` is ignored
(`RemovePending` may leave the file), and a write or removal in `Decrypt` returns
with the vault unlocked (`DecryptFails`). The program may then work on with the
encrypted document, which the plain one hides from everybody else, or decrypt
again. Other failures undo nothing and are told from a kill by nothing but the
program's memory; the failed write of an unlocked program, which keeps the value in
memory, is left out.

### CredentialRename

Extends `VaultFiles` by a second name, the configuration file and its lock.

| Code | Model |
|---|---|
| `RenamePlan`, and what its execution keeps (`undo`, the merged files) | `plan[p]` |
| `planRename`, `planCredentialVault`, `PlanRevertRename` | `PlanRename`, `PlanRevert` |
| `Store.Transact` | `Transact`; `Save` (its second check), `Replace` (`Store.Save` to the rename of the file), `SaveFails`; `Gives` on every way out |
| `vault.RenameCredential`, `renamePlain`, `renameUnlocked` | `RenameEntry`, `RemoveMerged`, `RemoveFails` |
| its undo | `Undo` (the document), `Restore` (each queued secret), `Undone` |
| `ClearRenameMarker` | `ClearMarker` |
| `LoadVersioned`, `SaveIfUnchanged` | the same; `SaveIfUnchanged` is the check, `ReplaceUnchanged` the replace, `GivesUp` a failure or kill between the two |
| an editor | `OpenInEditor`, `EditByHand`: it saves the copy it loaded, with an edit, at any moment |

- A revision is the content: the name and the set of edits. An editor takes no lock
  and checks nothing; what it saves takes back what was saved since it loaded its
  copy. `Store.Update` is `LoadVersioned` and `SaveIfUnchanged` under the lock without
  a gap, so it is subsumed.
- `overtaken` is set where an editor saves between a program's check of the
  revision and its replace of the file: that edit is overwritten (finding 15), and
  `ConfigKept` does not count it. Any other edit, and any saved name, must be there.
- `Killed` ends a program at any step of a rename; the same or another plan then
  meets what it left. Nobody resumes by force: that a rename is finished is no
  property, that it can be put right without loss is.
- One program works on the vault, any others queue secrets
  (`RenameAssumption`): the code has no lock for two programs that write the
  unlocked vault, and promises nothing of them. Those that queue take no notice of
  what the other does: one that found the vault locked reads the recipient and writes
  its file at any later moment, also beside or after a Decrypt.
- `stranded` is set where a file is left queued for a vault or a key that is no more:
  by a set beside a Decrypt (finding 5) or a removal that failed before one
  (finding 9). Such a file may make the vault fail to open once it is encrypted again;
  `Openable` says that only such a file does.
- `strayed` is set where the code loses the thread of a secret, in six ways: a file
  was stranded; a secret was queued for a name that is or becomes the old one
  (finding 10); an undo was killed between document and queued secrets (11); an
  unlock, a set or a rename made a second entry beside a stopped rename (12); a
  program whose Decrypt failed changed what the plain document hides, or decrypted
  again (14); an editor put the old name back. `SecretKept` says that this is all.
- `GoesOn` is a bound: with FALSE, no plan is made and no step on the vault taken once
  a secret strayed. `SecretKept` says nothing from there on; `Openable`, `ConfigKept` and
  the typing do, and the theorems have them for both values.
- Copies made before, the carried-over approvals and keyring credentials are
  left out.

### InvokeLog

The lines of all day files are one sequence in the order of the file names; a
line's `id` stands for its hash. `Begin` to `Return` are the steps of
`Logger.Append` under the lock of the logs directory; `Broken` is the walk of
`verify`. `EndsEarly` is an error or a kill at any step, `WriteTorn` a write the
disk took only a part of, with or without the newline alone missing. After a
short write inside a line every later `Append` fails on the last line
(`last.parses`, `Previous(w).parses`), as in the code; after one that lacks the
newline the next entry of that day runs on into it (`With`). The date does not
go back: the code reads the wall clock and does not ensure that.

### McpServer

One step holds one mutex at most (`mcpServer.mu` or `rootsMu`); what the code
reads under one and uses later lies in different steps.

| Code | Model |
|---|---|
| `serve` and its handlers | `loop`, `Takes`, one action per message kind, `EndOfInput`, `Exit` |
| `startToolCall`, `runToolCall`, `logToolCall` | `StartCall`, `RefuseCall`, then `ReadRound`, `WaitEnds`, `Respond`, `LogToolCall` |
| the maps of pending calls, the wait group | `InFlight`, `Running` |
| `mcpRoots`, `requestRoots`, `receiveRoots`, the round's timer | `roots`, `open`, `AskRoots`, `ReceiveReply`, `RoundTimesOut` |
| `restartIfReplaced`, `restart`, the handoff, `adopt`, `resume` | `BeginRestart`, `StayOn`, `Restart` with `Adopt` or `Malformed` |

- The client is whatever a script of messages (`Budgets`) allows, in any order
  and at any time; it may close its end whenever it likes, or never answer. Its
  roots are a version number; a version in `Unusable` names no local directory.
- `writeErr` is the first write to stdout that failed, after which nothing is
  written. Whether a restart is possible (the file is executable, the input
  small enough, the handoff fits) is a choice in `BeginRestart` and `StayOn`.
- `forgot` and `lost` mark a handoff the successor refused (finding 7), after
  which the session is gone. The properties that need a session are about
  servers to which this did not happen.
- What a tool does, the contents of answers, requests that do not parse and
  oversized lines are left out.

## The runs

| cfg | Question | Instance | Result |
|---|---|---|---|
| `ServiceRefinement` | Do two processes and a handover behave as one unlocked vault? | 2 processes, 2 clients that get, set and lock, 1 credential that is bound and has no value at the unlock, 1 value, no clock | holds, 1.2 million states |
| `VaultLocks` | Does every vault lock in time, and every call end? | 2 processes, 1 client that gets, clock 0..2, idle time 1, maximum none or 2, fairness | holds, 227 thousand states |
| `LockDuringHandover` | Is a lock never lost to a handover? | 1 client that locks | `LockNeverLost` violated |
| `StopDuringPrepare` | Does a stop end a prepared handover? | as above | `StopEndsPrepared` violated |
| `SocketOwner` | Does one process own the path? | 3 processes, killed anywhere, fairness | holds, 247 thousand states |
| `UnlockDuringHandover` | Does the successor keep its socket? | 3 processes, no crash | `SuccessorKeepsSocket` violated |
| `VaultCrashes` | Do values, edits and the vault survive operations, renames and kills anywhere? | 1 program that works, 1 that queues, 2 names, 1 value, 2 pending files, 2 keys, 1 edit, all operations, any failure, until a secret strayed | holds, 4.5 million states |
| `TwoLockedSets` | Does the last value set win? | 1 program, set and get | `LastSetWins` violated |
| `SetDuringDecrypt` | Does a decrypt leave nothing queued? | 2 programs, set and decrypt | `NothingLeftQueued` violated |
| `InvocationLog` | Is the log intact, complete and tamper-evident? | 2 writers with and without a window of 1 day, 4 days, 6 lines, any failure | holds, 419 thousand states |
| `RetentionCut` | Is every removal documented? | as above | `CutDocumented` violated |
| `McpServer` | Is every request answered once, in its session and in its roots? | 7 scripts of a client, 3 requests, 3 ids, 1 change of the roots, 3 rounds, a pipe of 2 messages, 2 calls in flight, any failure, fairness | holds, 510 thousand states |

Why the bounds are enough. A handover involves two processes; a third only
matters for the files of the socket, where `SocketOwner` has a start beside a
handover and two handovers in a row. A fourth adds an orphan of one handover
beside the successor of the next: what it does is excepted by `Unproven`, and
the safety of `VaultSocket` is proved for any number of processes. Two clients
give every race of a change, a lock and a read; they start from one unlock, with
a bound credential that has no value, so that every value a get answers is a
set's, and `OneVault` is about every unlock. The clock of `VaultLocks` passes
the idle time twice and the maximum once; it needs no values since deadlines do
not depend on them. In `VaultCrashes` two keys let a vault be encrypted,
decrypted and encrypted again with a crash in between; two pending files let one
be queued beside one that an undo puts back; two names are the old and the new
one, which swap roles in the next rename. One value is enough: that nothing is
stored is a second one, and sets and deletes alternate between the two; what
depends on which of two values wins is the question of `TwoLockedSets`, which
has two and needs a third id only for a set between two unlocks. One edit is
made in a transaction or by hand, before, beside or between a rename's check and
its replace. Four days and six lines are what it takes for two removals one
after the other, with a marker each. The scripts of `McpServer` are one for each
race of interest: two calls under one id with a cancellation; a call that waits
for roots while it is cancelled; two sessions with a call across them; a change
of the roots and an update around a call; an update between two requests; more
calls than `MaxInFlight`; and a handoff that is refused. What the run bounds by
scripts the theorems have for every script. `CHECK_DEADLOCK FALSE` is set
everywhere, because each of these systems may stop: all processes ended, nobody
asks, the bounded counters are used up.

Mutants: for every property of a passing run, `PROJECT.json` names a slip in the
code ("A slip of the next" in the modules) that violates it: a request that
counts only once it is answered, a failed handover that goes on, a date taken
before the lock, an undo that forgets the queued secrets, a session that is not
handed over, an answer to an old request for the roots taken for the latest, and
so on.

### Fairness

`VaultProcess`: time passes, timers fire, `Serve` wipes when its handlers are
gone, the goroutine of a handover, a waiting successor and a client's call go
on. Each of them waits only on something with a deadline (the read and write
deadlines of a connection, `HandoverTimeout`, `replacedLimit`). Nothing makes a
client ask or leave, an update run or a signal come. `VaultSocket`: a process
goes on by itself (`Listen`, the ticker of `watchSocket`, `Close`) and so does a
handover. `McpServer`: the loop goes on, each call's goroutine goes on (it waits
for a round at most, whose timer fires after two seconds, and a tool's context
ends with its deadline of 60 seconds), and the timer of a round fires. The
client owes nothing: it need not answer, nor close its end. Weak fairness is
enough everywhere. `VaultFiles`, `CredentialRename` and `InvokeLog` state no
liveness: a program may be killed at any step and nobody has to come back.

## What is proved

Each theorem holds for all values of the constants that the named assumptions of
its module allow.

**Vault process** (`VaultProcess_proofs`, `_refines`; any number of
processes, clients, credentials and values, any deadlines; from
`RequestsAssumption` and `ProcessAssumption`):

- `TypeCorrect`: `TypeOK`. It alone is not inductive: a client in the middle of a
  call must have a request and, once connected, a process (`CallOK`).
- `HandoverKept` and `HandoverSafe`: `HandoverInv` and `HandedOverInFull`. From the
  moment a process started its successor it answers nothing, and the successor
  holds what it holds until it serves. `HandoverInv` is inductive with the
  typing: a committed handover lets no request in (`CommittedIsClosed`), only a
  serving process has requests or a handover (`OnlyServingWorks`), the successor
  was started and neither serves nor lies at the path before the swap
  (`SuccessorStarted`), and no two handovers share one (`OwnSuccessor`).
- `TimerArmed`, `NoneStranded`: `ArmedTimer` and `NoStrandedSecrets`.
- `NeverExtended`: `UnlockNeverExtended`. The invariant behind it (`DeadlineInv`)
  relates every deadline a process has or hands over to the last get and the
  shortest maximum.
- `OneVault`: the processes implement `UnlockedVault`. The initial states map to
  initial states, and each action to one of its actions or a stutter; a commit, a
  swap and a takeover stutter. What was carried out is mapped from `resp`, what
  the client was told from `got`. It rests on `PathInv`: the typing, `HandoverInv` and
  `NoStrandedSecrets`, that the process at the path is the one that serves or is
  about to (`PathOwner`, `WorkerAtPath`), and on what a call may have returned at each
  of its steps: what is refused was not carried out and is not any more, while what
  broke off may have been, at most once.

**Vault socket** (`VaultSocket_proofs`; any number of processes; from
`SocketAssumption`):

- `SocketTypeCorrect`, `SocketExclusive`, `SocketRemovesOwn`: `TypeOK`, `Exclusive` and
  `RemovesOwnOnly`. The invariant behind them, `SocketInv`: who works at a path
  holds the lock it took (`HoldsLock`) and works there alone (`OneClaim`), so that
  the socket there is its own or gone (`NoOther`) and the one it remembers is its
  own (`KnowsOwn`). A successor whose socket was moved works at both paths until
  it notices; without that a newcomer could slip in between `MoveSocket` and
  `TakeOver`. `OneClaim` for more processes than the run has is what showed which
  locks prove nothing (`Unproven`).

**Renames and the vault's files** (`CredentialRename_proofs`, `_secret`; any names,
values, pending files, keys, edits and queuing programs; one program that works
on the vault; from `FilesAssumption` and `RenameAssumption`):

- `RenameTypeCorrect`, `StaysOpenable` and `NoEditLost`: `RenameTypeOK`, `Openable`
  and `ConfigKept`. The inductive invariant has two parts. `VaultInv` says what
  the files are while a program is at a step (`StepOK`), that a program which
  opened the vault holds the key the files have, unless a failed Decrypt left a plain
  document over them (`HoldsOpen`), that those that only queue never hold it open
  (`OnlyQueues`), and that a vault once made does not look absent, nor plain with
  files queued that are not stranded (`FilesAgree`). `PlanInv` says what a plan rests
  on: its program does nothing else, it holds the lock just while it is carried
  out, what an undo would write back is of the key the vault still has, and whoever
  passed the check of the revision knows the content it replaces, but where an
  editor overtook it (`ConfigInv`).
- `SecretStaysKept`: `SecretKept`. `SecretInv`, inductive beside `RenameInv`, follows
  a value through all the places it lies in: until `strayed`, the vault has at
  most one entry, and one of another name than the configured one is what a
  rename marked (`Tidy`); what is queued is queued under the configured name and
  may win (`QueueKept`); where nothing is queued, the entry has a value the
  credential may have (`Fits`), unless an undo is putting queued files back
  (`BaseKept`). `WorkKept` says at each step of a program what it holds of that: its
  copy of the document is the vault's own until it changes it, and a merge knows
  all of the queue it will remove. `PlanKept` says it of a rename: between which
  names it is (`NamesKept`), that nothing is kept for an undo before the write
  (`FreshKept`), that afterwards nothing is left under the old name but what was
  merged or came late (`EntryKept`), and that the copies an undo would write back
  are as good as what they were taken from (`UndoKept`). All of it is said only of a
  program that is not hidden by a plain document (`Hidden`); one that is strays with
  its first change. It first failed where a
  rename merges a queued secret beside the entry a stopped rename to yet another
  name left, which makes two entries; that is why `RenameEntry` may set `strayed`.

**MCP server** (`McpServer_types`, `_proofs`; any scripts, ids, bounds and
declarations; from `McpAssumption`):

- `McpTypeCorrect`: `TypeOK`, with at most `MaxInFlight` calls in flight. That no
  more rounds are asked for than `MaxRounds` rests on `Budgeted`: each round is
  paid by a notice of the client, sent or to come, or by an update.
- `McpAnsweredOnce`: `AnsweredOnce`, because unread requests are fresh and differ
  from one another and a call in flight has no answer yet (`OnceInv`).
- `McpSessionKept`: `SessionKept`, because a session is negotiated or its initialize
  lies before the request in the pipe (`SessionInv`).
- `McpRootsAgree` and `McpNoOldRoots`: `RootsAgree` and `NoOldRoots`. What the server
  knows of the roots, or may still learn by the answer to its latest request
  (`Told`), is what the client has, or a notice of the client in the pipe clears
  it (`ToldLatest`). For a call the notice lies before it (`UnreadTold`), so that what
  is left once the call runs is not older than the call (`RunningTold`). That the
  server heeds every notice of a change (`ChangesInForce`) needs the initialize
  that announced them to lie before it, with no other in between.

**Invocation log** (`InvokeLog_proofs`; any number of writers, days and lines,
any windows and failures; from `InvokeLogAssumption`):

- `LogTypeCorrect`: `TypeOK`, with `WorkInv`, which holds whatever failed: the lines
  lie in the order of their days (`InOrder`) and are numbered by what was there
  before them (`LinesOK`), what a writer removes is where they start
  (`Removing`), and what it still has to write follows on (`Writing`).
- `LogAckedKept`: `AckedKept`, by `WholeInv`: as long as no line was left without its
  newline alone, what is written never runs on into the line before it.
- `LogIntact` and `LogDeletionFound`: `Intact` and `DeletionFound`, by `ChainInv`: the
  i-th line left has the number `gone + i` and the hash of the one before it, so
  that the log starts right after the greatest cut, and lines taken out leave a
  jump no cut explains. The one exception is a writer that is `Doomed`: it
  remembered no last line, because the newest file it removed was empty (made
  by an Append that was killed before it wrote), and will document less than it
  removed. It stays so to its end, which `trouble` then records.
- `LogNumbersGrow`: `NumbersGrow`, by `GrowInv`: the line to follow, or the one
  remembered in its place, has a number no entry exceeds.

The maximum and minimum of a set of numbers, on which `CutThrough`, `UpTo` and the
order of removal rest, are shown to exist by the well-foundedness of the natural
numbers (`Least`).

Model-checked only: all liveness (beyond the prover). Every other property of a
run that passes is a theorem.

## Where code and comments differ

The first six are runs that end in a counterexample; 7, 10 to 12, 14 and 15 are
exceptions that the properties of a run name, and the others were met while modelling.
`PROJECT.json` quotes the lines.

1. A lock can be lost to a handover: `Client.Lock` asks again for two seconds and
   then ends the process that answered last, which may have handed the vault
   over by then (`vaultproc/client.go:150-166`).
2. A stop during the verification of a release does not end the wait for the
   commit: `serveHandover` sets a new read deadline over the one `stop` set
   (`vaultproc/handover.go:105`).
3. An unlock that opened the lock file before a handover takes the flock of the
   file that was moved away and removes the live successor's socket
   (`vaultproc/listen_unix.go:83`). The same can come from the orphan of a
   predecessor that died: between the two renames of the next handover the
   successor's socket lies beside without its lock file, and the orphan takes it
   for a dead one.
4. Of two values set while the vault is locked the older may win: pending files
   are merged in the order of random names (`vault/pending.go:40, 61`).
5. A set beside a decrypt leaves a pending file no key opens
   (`vault/switch.go:139-144`).
6. Retention removes day files before it writes the marker: a failure in between
   leaves a log that reads as broken, or that starts at number 1 again
   (`invokelog/invokelog.go:577`).
7. A restart of the MCP server loses the session and what was read, if the
   client's name or version is longer than the handoff allows
   (`cli/mcp_restart.go:92`).
8. A tool call that waits for roots does not wait for a newer request that
   replaced the one it saw; it runs in the working directory (`cli/mcp.go:1074`).
9. A pending file that could not be removed is not always a "duplicate no-op" when
   it is merged again: it brings back a value that was set over or deleted since, and
   left over a Decrypt it is queued for a key that is gone (`vault/pending.go:115`).
10. A set queues a secret under the old name while a rename runs, against the
    reason the rename removes queued writes for (`manage/credential.go:154`).
11. An undo killed between the document and the pending files is not "byte for
    byte" (`vault/rename.go:309`).
12. A secret set beside what a stopped rename left gives the credential a second
    entry, after which the rename can be neither finished nor reverted
    (`manage/renameresume.go:57`).
13. Retention remembers the last line of the newest expired file. If that file is
    empty, because the Append that made it was killed before it wrote, the lines of
    older files are removed without a marker, by an Append that succeeds
    (`invokelog/invokelog.go:573, 582`). The proof of `Intact` showed it.
14. After a Decrypt that failed once the plain document was written, the program goes
   on with the vault unlocked: what it sets or renames is written to `secrets.age`,
   which `secrets.json` hides. If `secrets.age` was removed and `key.age` was not,
   a second Decrypt finds no entries and overwrites `secrets.json` with an empty
   document (`vault/switch.go:127, 133, 139`, `vault/operations.go:333`).
15. An edit saved without the lock between the check of the revision and the replace of
   the file is overwritten, where `Update` promises a `ConflictError`
   (`config/transaction.go:165, 190`, `config/store.go:234`).

## Not modelled, and what is left

Left to do, in this order:

1. The composition of `VaultFiles` and `VaultProcess`: a change of the files told
   to a process that starts or hands over, and `approve-token`, which writes the
   document from inside the process. With a handover in it the state space is
   beyond what a run finishes.
2. Two programs that both have the vault unlocked. Nothing in the code orders
   their writes; a property would have to be invented.
3. The failed write of an unlocked program, which keeps a value in memory that it
   reported as not stored, and the rename of keyring credentials.
4. That a file whose removal failed is not merged over a later set: the code does not
   ensure it, so `may` allows it.
5. The connection log's fallback to an unsigned entry, as a writer of `InvokeLog`.
6. The rollback of an update in `selfupdate`.

Left out for good: providers, web and terminal interface (presentation or
clients of services, with no state of their own), cryptography, parsing and
formatting of the configuration, the check values of log entries, process
hardening, the rate limiter (a mutex around a few numbers), the release archive's
verification, and the vault process of Windows. They are most of the source: the
providers alone are more than three quarters of it.
