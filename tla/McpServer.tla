----------------------------- MODULE McpServer -----------------------------
(***************************************************************************)
(* The MCP server of `qconnect mcp` (internal/cli, mcp.go, mcp_log.go and  *)
(* mcp_restart.go) and the client at the other end of its pipes.           *)
(*                                                                         *)
(* One loop reads the client's messages in order.  It answers most         *)
(* requests itself; a tool call runs in a goroutine, counted by a wait     *)
(* group.  The server asks the client for its roots, and a call waits for  *)
(* the answer, for the time of the round at most.  Once an update replaced *)
(* the program, the loop lets the calls end and executes the new program   *)
(* in its place, which takes over the session and the input read but not   *)
(* handled.                                                                *)
(*                                                                         *)
(* A step holds one mutex at most (mu, rootsMu): what is read under one    *)
(* and used later lies in different steps.  The roots of the client are a  *)
(* version number; what a call does with them is left out, as are the      *)
(* contents of messages and the requests that fail to parse.               *)
(***************************************************************************)
EXTENDS Naturals, Sequences, FiniteSets

CONSTANTS MaxRequests,   \* how many requests the client sends at most
          Keys,          \* the ids it gives to calls
          Budgets,       \* how many messages of each kind it may send and how many updates come
          Hellos,        \* what an initialize may declare
          MaxChanges,    \* how often its roots change at most
          MaxRounds,     \* how often it is asked for its roots at most
          Unusable,      \* the versions of its roots that name no local directory
          MaxInput,      \* how many messages lie in the pipe at most
          MaxInFlight    \* maxMCPInFlight

Kinds == {"initialize", "long", "initialized", "changed", "call", "query", "cancelled", "update"}
Requests == 1..MaxRequests

ASSUME McpAssumption ==
    /\ MaxRequests \in Nat
    /\ Budgets \subseteq [Kinds -> Nat]
    /\ Hellos \subseteq [offered : BOOLEAN, changed : BOOLEAN, long : BOOLEAN]
    /\ \A b \in Budgets : /\ b["changed"] <= MaxChanges
                          /\ b["initialized"] + b["changed"] + b["update"] <= MaxRounds
    /\ MaxChanges \in Nat
    /\ MaxRounds \in Nat
    /\ MaxInput \in Nat
    /\ MaxInFlight \in Nat

Versions == 1..(1 + MaxChanges)
None == 0                                     \* no roots, no round, no version
Roots == Versions \cup {None}
Rounds == 1..MaxRounds

Messages ==
    [kind : {"initialize"}, req : Requests, hello : Hellos]
        \cup [kind : {"call"}, req : Requests, key : Keys, declares : BOOLEAN]
        \cup [kind : {"query"}, req : Requests, declares : BOOLEAN]
        \cup [kind : {"initialized", "changed"}]
        \cup [kind : {"cancelled"}, key : Keys]
        \cup [kind : {"reply"}, id : Rounds, roots : Versions]

RequestKinds == {"initialize", "call", "query"}

VARIABLES
    (* The client and the pipes. *)
    input,       \* what it wrote to stdin and the server has not handled
    left,        \* the messages it may still send, by kind, and the updates to come
    sent,        \* the requests it has sent
    has,         \* the version of its roots
    session,     \* "none", or what its last initialize opened: "plain" or "announces" changes
    toAnswer,    \* by id, the answer it owes a roots/list, or None
    stdin,       \* "open", "eof" or "error"
    writeErr,    \* stdout failed
    (* The server. *)
    loop,        \* what the reading loop does
    legacy,      \* a session is negotiated
    longName,    \* its client has a name the successor refuses
    roots,       \* mcpRoots
    open,        \* roots.round has not ended
    calls,       \* the tool calls, by request
    replaced, tried, skipCheck,
    (* History. *)
    answers,     \* how many answers a request got
    refused,     \* the requests answered as sent without a session
    inSession,   \* the requests sent in a session, after its initialize
    since,       \* the version of the roots when a request was sent
    lost,        \* the requests a malformed handoff took with it
    forgot       \* a handoff was malformed

pipes == <<input, left, sent, has, session, toAnswer, stdin, writeErr>>
rest == <<replaced, tried, skipCheck>>
history == <<answers, refused, inSession, since, lost, forgot>>
vars == <<pipes, loop, legacy, longName, roots, open, calls, rest, history>>

NoCall == [st |-> "none", key |-> None, session |-> FALSE, round |-> None, roots |-> None,
           cancelled |-> FALSE]
NoRoots == [offered |-> FALSE, changed |-> FALSE, seq |-> 0, pending |-> None, round |-> None,
            dirs |-> None]

CallStates == {"none", "begun", "waiting", "working", "logging", "over"}

(* The wait group, and the map of pending calls. *)
Running == {r \in Requests : calls[r].st \notin {"none", "over"}}
InFlight == {r \in Requests : calls[r].st \in {"begun", "waiting", "working"}}

TypeOK ==
    /\ input \in Seq(Messages)
    /\ left \in [Kinds -> Nat]
    /\ sent \in 0..MaxRequests
    /\ has \in Versions
    /\ session \in {"none", "plain", "announces"}
    /\ toAnswer \in [Rounds -> Roots]
    /\ stdin \in {"open", "eof", "error"}
    /\ writeErr \in BOOLEAN
    /\ loop \in {"reading", "goOn", "restarting", "closing", "ended"}
    /\ legacy \in BOOLEAN
    /\ longName \in BOOLEAN
    /\ roots \in [offered : BOOLEAN, changed : BOOLEAN, seq : 0..MaxRounds,
                  pending : Rounds \cup {None}, round : Rounds \cup {None}, dirs : Roots]
    /\ open \in BOOLEAN
    /\ calls \in [Requests -> [st : CallStates, key : Keys \cup {None}, session : BOOLEAN,
                               round : Rounds \cup {None}, roots : Roots, cancelled : BOOLEAN]]
    /\ Cardinality(InFlight) <= MaxInFlight
    /\ replaced \in BOOLEAN /\ tried \in BOOLEAN /\ skipCheck \in BOOLEAN
    /\ answers \in [Requests -> Nat]
    /\ refused \subseteq Requests
    /\ inSession \subseteq Requests
    /\ since \in [Requests -> Roots]
    /\ lost \subseteq Requests
    /\ forgot \in BOOLEAN

Init ==
    /\ input = <<>> /\ left \in Budgets /\ sent = 0
    /\ has = 1 /\ session = "none"
    /\ toAnswer = [i \in Rounds |-> None]
    /\ stdin = "open" /\ writeErr = FALSE
    /\ loop = "reading" /\ legacy = FALSE /\ longName = FALSE
    /\ roots = NoRoots /\ open = FALSE
    /\ calls = [r \in Requests |-> NoCall]
    /\ replaced = FALSE /\ tried = FALSE /\ skipCheck = FALSE
    /\ answers = [r \in Requests |-> 0]
    /\ refused = {} /\ inSession = {} /\ lost = {} /\ forgot = FALSE
    /\ since = [r \in Requests |-> None]

---------------------------------------------------------------------------
(* The client *)

Writes(m) ==
    /\ stdin = "open"
    /\ Len(input) < MaxInput
    /\ input' = Append(input, m)

Spends(kind) == left[kind] > 0 /\ left' = [left EXCEPT ![kind] = @ - 1]

server == <<writeErr, loop, legacy, longName, roots, open, calls, rest, answers, refused, lost, forgot>>

SendInitialize(hello) ==
    /\ sent < MaxRequests
    /\ sent' = sent + 1
    /\ Spends(IF hello.long THEN "long" ELSE "initialize")
    /\ Writes([kind |-> "initialize", req |-> sent', hello |-> hello])
    /\ session' = IF hello.offered /\ hello.changed THEN "announces" ELSE "plain"
    /\ UNCHANGED <<has, toAnswer, stdin, inSession, since, server>>

(* A request that declares its protocol version belongs to no session.  The *)
(* client leaves it out once it sent an initialize.                         *)
Sent(r, declares) ==
    /\ inSession' = IF declares \/ session = "none" THEN inSession ELSE inSession \cup {r}
    /\ since' = [since EXCEPT ![r] = IF session = "announces" THEN has ELSE None]

SendCall(key, declares) ==
    /\ sent < MaxRequests
    /\ sent' = sent + 1
    /\ Spends("call")
    /\ Writes([kind |-> "call", req |-> sent', key |-> key, declares |-> declares])
    /\ Sent(sent', declares)
    /\ UNCHANGED <<has, session, toAnswer, stdin, server>>

SendQuery(declares) ==
    /\ sent < MaxRequests
    /\ sent' = sent + 1
    /\ Spends("query")
    /\ Writes([kind |-> "query", req |-> sent', declares |-> declares])
    /\ Sent(sent', declares)
    /\ UNCHANGED <<has, session, toAnswer, stdin, server>>

SendInitialized ==
    /\ Spends("initialized")
    /\ Writes([kind |-> "initialized"])
    /\ UNCHANGED <<sent, has, session, toAnswer, stdin, inSession, since, server>>

(* A client that declared listChanged says so whenever its roots change. *)
ChangeRoots ==
    /\ session = "announces"
    /\ Spends("changed")
    /\ has' = has + 1
    /\ Writes([kind |-> "changed"])
    /\ UNCHANGED <<sent, session, toAnswer, stdin, inSession, since, server>>

SendCancelled(key) ==
    /\ Spends("cancelled")
    /\ Writes([kind |-> "cancelled", key |-> key])
    /\ UNCHANGED <<sent, has, session, toAnswer, stdin, inSession, since, server>>

(* It answers with the roots it had when it was asked. *)
SendReply(id) ==
    /\ toAnswer[id] # None
    /\ Writes([kind |-> "reply", id |-> id, roots |-> toAnswer[id]])
    /\ toAnswer' = [toAnswer EXCEPT ![id] = None]
    /\ UNCHANGED <<left, sent, has, session, stdin, inSession, since, server>>

(* It closes its end, or reading fails after what it wrote. *)
CloseStdin ==
    /\ stdin = "open"
    /\ stdin' \in {"eof", "error"}
    /\ UNCHANGED <<input, left, sent, has, session, toAnswer, inSession, since, server>>

(* An update replaces the program. *)
Update ==
    /\ ~replaced
    /\ Spends("update")
    /\ replaced' = TRUE
    /\ UNCHANGED <<input, sent, has, session, toAnswer, stdin, writeErr, loop, legacy, longName, roots, open, calls, tried, skipCheck,
                   history>>

---------------------------------------------------------------------------
(* The reading loop *)

(* writeMessage: after the first failure nothing is written. *)
Outcomes == IF writeErr THEN {FALSE} ELSE BOOLEAN
Delivers(ok) == writeErr' = ~ok
Answer(r, ok) ==
    /\ Delivers(ok)
    /\ answers' = [answers EXCEPT ![r] = IF ok THEN @ + 1 ELSE @]

(* restartIfReplaced is asked before each line; the line then read is taken *)
(* from the pipe.                                                           *)
Restartable == replaced /\ ~tried /\ ~skipCheck

Takes(kind) ==
    /\ loop = "goOn" \/ (loop = "reading" /\ ~Restartable)
    /\ input # <<>>
    /\ Head(input).kind = kind
    /\ input' = Tail(input)
    /\ loop' = "reading"
    /\ skipCheck' = (skipCheck /\ tried)

line == <<left, sent, has, session, stdin, replaced, tried, inSession, since, lost, forgot>>

(* initialize negotiates a version and forgets the roots of an earlier      *)
(* session; calls that wait for them go on.                                 *)
Initialize ==
    /\ Takes("initialize")
    /\ legacy' = TRUE
    /\ LET m == Head(input) IN
          /\ longName' = m.hello.long
          /\ roots' = [NoRoots EXCEPT !.offered = m.hello.offered,
                                      !.changed = m.hello.offered /\ m.hello.changed, !.seq = roots.seq]
          /\ \E ok \in Outcomes : Answer(m.req, ok)
    /\ open' = FALSE
    /\ UNCHANGED <<line, toAnswer, calls, refused>>

(* A slip: the roots known so far still count. *)
AskRootsKeeping(r, ok) ==
    /\ roots' = [r EXCEPT !.seq = @ + 1, !.pending = r.seq + 1, !.round = r.seq + 1]
    /\ open' = TRUE
    /\ toAnswer' = [toAnswer EXCEPT ![r.seq + 1] = IF ok THEN has ELSE @]
    /\ Delivers(ok)

(* requestRoots: a new round replaces the one before. *)
AskRoots(r, ok) ==
    /\ roots' = [r EXCEPT !.seq = @ + 1, !.pending = r.seq + 1, !.round = r.seq + 1, !.dirs = None]
    /\ open' = TRUE
    /\ toAnswer' = [toAnswer EXCEPT ![r.seq + 1] = IF ok THEN has ELSE @]
    /\ Delivers(ok)

RequestRoots(changed) ==
    /\ Takes(IF changed THEN "changed" ELSE "initialized")
    /\ IF roots.offered /\ (changed => roots.changed)
       THEN \E ok \in Outcomes : AskRoots(roots, ok)
       ELSE UNCHANGED <<roots, open, toAnswer, writeErr>>
    /\ UNCHANGED <<line, legacy, longName, calls, answers, refused>>

RootDirs(v) == IF v \in Unusable THEN None ELSE v

(* A slip: the answer to any request counts. *)
ReceiveAnyReply ==
    /\ Takes("reply")
    /\ roots' = [roots EXCEPT !.pending = None, !.dirs = RootDirs(Head(input).roots)]
    /\ open' = FALSE
    /\ UNCHANGED <<line, toAnswer, writeErr, legacy, longName, calls, answers, refused>>

(* Only the answer to the latest request counts, also after its round.      *)
ReceiveReply ==
    /\ Takes("reply")
    /\ IF Head(input).id = roots.pending
       THEN /\ roots' = [roots EXCEPT !.pending = None, !.dirs = RootDirs(Head(input).roots)]
            /\ open' = FALSE
       ELSE UNCHANGED <<roots, open>>
    /\ UNCHANGED <<line, toAnswer, writeErr, legacy, longName, calls, answers, refused>>

WithKey(key) == {r \in InFlight : calls[r].key = key}

(* cancel: the call still in flight under that id. *)
Cancel ==
    /\ Takes("cancelled")
    /\ LET hit == WithKey(Head(input).key) IN
          calls' = [r \in Requests |->
                      IF r \in hit THEN [calls[r] EXCEPT !.cancelled = TRUE] ELSE calls[r]]
    /\ UNCHANGED <<line, toAnswer, writeErr, legacy, longName, roots, open, answers, refused>>

(* A request without a declared version outside of a session is refused.    *)
Serves(m) == m.declares \/ legacy

Refuses(m) == refused' = IF Serves(m) THEN refused ELSE refused \cup {m.req}

(* server/discover, tools/list, ping and the rest are answered here. *)
AnswerQuery ==
    /\ Takes("query")
    /\ Refuses(Head(input))
    /\ \E ok \in Outcomes : Answer(Head(input).req, ok)
    /\ UNCHANGED <<line, toAnswer, legacy, longName, roots, open, calls>>

(* startToolCall: an id in progress and a call too many are refused. *)
RefuseCall ==
    /\ Takes("call")
    /\ LET m == Head(input) IN
          /\ Serves(m) => WithKey(m.key) # {} \/ Cardinality(InFlight) >= MaxInFlight
          /\ Refuses(m)
          /\ \E ok \in Outcomes : Answer(m.req, ok)
    /\ UNCHANGED <<line, toAnswer, legacy, longName, roots, open, calls>>

(* A slip: one call too many is let in. *)
StartOneMore ==
    /\ Takes("call")
    /\ LET m == Head(input) IN
          /\ Serves(m)
          /\ WithKey(m.key) = {}
          /\ calls' = [calls EXCEPT ![m.req] = [NoCall EXCEPT !.st = "begun", !.key = m.key,
                                                             !.session = ~m.declares]]
    /\ UNCHANGED <<line, toAnswer, writeErr, legacy, longName, roots, open, answers, refused>>

StartCall ==
    /\ Takes("call")
    /\ LET m == Head(input) IN
          /\ Serves(m)
          /\ WithKey(m.key) = {}
          /\ Cardinality(InFlight) < MaxInFlight
          /\ calls' = [calls EXCEPT ![m.req] = [NoCall EXCEPT !.st = "begun", !.key = m.key,
                                                             !.session = ~m.declares]]
    /\ UNCHANGED <<line, toAnswer, writeErr, legacy, longName, roots, open, answers, refused>>

(* The end of the input, or a read that failed: cancelAll.  The loop waits  *)
(* for the calls.                                                           *)
EndOfInput ==
    /\ loop = "reading"
    /\ input = <<>>
    /\ stdin # "open"
    /\ loop' = "closing"
    /\ calls' = [r \in Requests |->
                    IF stdin = "error" /\ r \in InFlight THEN [calls[r] EXCEPT !.cancelled = TRUE]
                    ELSE calls[r]]
    /\ UNCHANGED <<pipes, legacy, longName, roots, open, rest, history>>

Exit ==
    /\ loop = "closing"
    /\ Running = {}
    /\ loop' = "ended"
    /\ UNCHANGED <<pipes, legacy, longName, roots, open, calls, rest, history>>

---------------------------------------------------------------------------
(* The tool calls *)

call == <<input, left, sent, has, session, toAnswer, stdin, loop, legacy, longName, roots, open, rest,
          refused, inSession, since, lost, forgot>>

(* sessionProjects reads the round, waits for its end and reads the roots;  *)
(* a call of no session, or before the first request, runs in the working   *)
(* directory.  The deadline of the call is far later than the end of a      *)
(* round.                                                                   *)
ReadRound(r) ==
    /\ calls[r].st = "begun"
    /\ calls' = [calls EXCEPT ![r] =
                    IF @.session /\ roots.round # None
                    THEN [@ EXCEPT !.st = "waiting", !.round = roots.round]
                    ELSE [@ EXCEPT !.st = "working"]]
    /\ UNCHANGED <<call, writeErr, answers>>

WaitEnds(r) ==
    /\ calls[r].st = "waiting"
    /\ \/ /\ calls[r].round # roots.round \/ ~open
          /\ calls' = [calls EXCEPT ![r].st = "working", ![r].roots = roots.dirs]
       \/ /\ calls[r].cancelled
          /\ calls' = [calls EXCEPT ![r].st = "working"]
    /\ UNCHANGED <<call, writeErr, answers>>

(* The timer of a round. *)
RoundTimesOut ==
    /\ open
    /\ open' = FALSE
    /\ UNCHANGED <<pipes, loop, legacy, longName, roots, calls, rest, history>>

(* A slip: the answer is written whether or not the call was cancelled. *)
RespondAlways(r) ==
    /\ calls[r].st = "working"
    /\ \E ok \in Outcomes : Answer(r, ok)
    /\ calls' = [calls EXCEPT ![r].st = "logging"]
    /\ UNCHANGED call

(* The tool ran, or its context ended: the answer is written under mu       *)
(* unless the call was cancelled, and the id is free again.                 *)
Respond(r) ==
    /\ calls[r].st = "working"
    /\ IF calls[r].cancelled THEN UNCHANGED <<writeErr, answers>>
       ELSE \E ok \in Outcomes : Answer(r, ok)
    /\ calls' = [calls EXCEPT ![r].st = "logging"]
    /\ UNCHANGED call

(* A slip: the wait group is told of answered calls only. *)
LogAnswered(r) ==
    /\ calls[r].st = "logging"
    /\ answers[r] > 0
    /\ calls' = [calls EXCEPT ![r] = [NoCall EXCEPT !.st = "over", !.cancelled = calls[r].cancelled]]
    /\ UNCHANGED <<call, writeErr, answers>>

(* The exchange is logged and the wait group told. *)
LogToolCall(r) ==
    /\ calls[r].st = "logging"
    /\ calls' = [calls EXCEPT ![r] = [NoCall EXCEPT !.st = "over", !.cancelled = calls[r].cancelled]]
    /\ UNCHANGED <<call, writeErr, answers>>

---------------------------------------------------------------------------
(* The restart *)

(* Before the line is handled: the program was replaced by an executable    *)
(* one, and what is not handled is small enough to be handed over.          *)
BeginRestart ==
    /\ loop = "reading"
    /\ input # <<>>
    /\ Restartable
    /\ \/ loop' = "restarting" /\ UNCHANGED tried
       \/ loop' = "goOn" /\ tried' \in {tried, TRUE}
    /\ UNCHANGED <<pipes, legacy, longName, roots, open, calls, replaced, skipCheck, history>>

(* The calls are over.  After a failed write, a session that does not fit   *)
(* or a failed exec the server runs on.                                     *)
StayOn ==
    /\ loop = "restarting"
    /\ Running = {}
    /\ loop' = "goOn"
    /\ tried' = (tried \/ ~writeErr)
    /\ UNCHANGED <<pipes, legacy, longName, roots, open, calls, replaced, skipCheck, history>>

Executes ==
    /\ loop = "restarting"
    /\ Running = {}
    /\ ~writeErr
    /\ replaced' = FALSE /\ tried' = FALSE
    /\ loop' = "reading"

(* A slip: the version negotiated is not handed over. *)
AdoptRoots ==
    /\ ~longName
    /\ skipCheck' = TRUE
    /\ legacy' = FALSE
    /\ UNCHANGED <<roots, open, toAnswer, writeErr, input, longName, lost>>

(* adopt and resume: the session, the roots and the line go on in the       *)
(* successor; an open request for the roots, and roots that do not fit, are *)
(* asked for again.  (With neither, the successor has a round that ended    *)
(* with no directories, which is the same to a call as no round.)           *)
Adopt ==
    /\ ~longName
    /\ skipCheck' = TRUE
    /\ \/ /\ roots.pending # None \/ roots.dirs # None
          /\ \E ok \in BOOLEAN : AskRoots([roots EXCEPT !.round = None], ok)
       \/ /\ roots.pending = None
          /\ UNCHANGED <<roots, open, toAnswer, writeErr>>
    /\ UNCHANGED <<input, legacy, longName, lost>>

(* decodeMCPHandoff: a client name longer than maxMCPHandoffField makes the *)
(* successor start as without a handoff.  The line and what was buffered    *)
(* behind it are gone.                                                      *)
Malformed ==
    /\ longName
    /\ skipCheck' = FALSE
    /\ legacy' = FALSE /\ longName' = FALSE
    /\ roots' = NoRoots /\ open' = FALSE
    /\ \E n \in 1..Len(input) :
          /\ input' = SubSeq(input, n + 1, Len(input))
          /\ lost' = lost \cup {input[i].req : i \in {j \in 1..n : input[j].kind \in RequestKinds}}
    /\ forgot' = TRUE
    /\ UNCHANGED <<toAnswer, writeErr>>

(* A slip: the running calls are not waited for. *)
RestartAtOnce ==
    /\ loop = "restarting"
    /\ replaced' = FALSE /\ tried' = FALSE /\ loop' = "reading"
    /\ Adopt
    /\ calls' = [r \in Requests |-> IF calls[r].st = "none" THEN NoCall ELSE [calls[r] EXCEPT !.st = "over"]]
    /\ UNCHANGED <<left, sent, has, session, stdin, answers, refused, inSession, since, forgot>>

Restart ==
    /\ Executes
    /\ \/ Adopt /\ UNCHANGED forgot
       \/ Malformed
    /\ UNCHANGED <<left, sent, has, session, stdin, calls, answers, refused, inSession, since>>

---------------------------------------------------------------------------

Client ==
    \/ \E hello \in Hellos : SendInitialize(hello)
    \/ \E key \in Keys : SendCancelled(key) \/ \E declares \in BOOLEAN : SendCall(key, declares)
    \/ \E declares \in BOOLEAN : SendQuery(declares)
    \/ SendInitialized
    \/ ChangeRoots
    \/ \E id \in Rounds : SendReply(id)
    \/ CloseStdin

Handle ==
    \/ Initialize
    \/ RequestRoots(FALSE)
    \/ RequestRoots(TRUE)
    \/ ReceiveReply
    \/ Cancel
    \/ AnswerQuery
    \/ RefuseCall
    \/ StartCall

Loop ==
    \/ Handle
    \/ EndOfInput
    \/ Exit
    \/ BeginRestart
    \/ StayOn
    \/ Restart

Call(r) == ReadRound(r) \/ WaitEnds(r) \/ Respond(r) \/ LogToolCall(r)

Next ==
    \/ Client
    \/ Update
    \/ Loop
    \/ RoundTimesOut
    \/ \E r \in Requests : Call(r)

Spec == Init /\ [][Next]_vars

(* The loop, every goroutine and the timers of the server run on; the       *)
(* client owes nothing.                                                     *)
FairSpec ==
    /\ Spec
    /\ WF_vars(Loop)
    /\ WF_vars(RoundTimesOut)
    /\ \A r \in Requests : WF_vars(Call(r))
---------------------------------------------------------------------------
(* Properties *)

(* A request gets one answer at most, also across a restart and where its   *)
(* id is used again; a call the client cancelled before its answer was      *)
(* written gets none.                                                       *)
AnsweredOnce ==
    \A r \in Requests : answers[r] <= (IF calls[r].cancelled THEN 0 ELSE 1)

(* No request sent in a session is refused as if there were none, whatever  *)
(* restarts lie between the initialize and it; a malformed handoff excepted.*)
SessionKept == refused \cap inSession # {} => forgot

(* Once no roots/list is open and nothing the client said of its roots or   *)
(* its session is unread, the roots are those the client has, in whatever   *)
(* order answers, changes, sessions and restarts came.                      *)
RootsAgree ==
    /\ legacy /\ roots.changed
    /\ roots.round # None /\ roots.pending = None
    /\ ~forgot
    /\ \A i \in DOMAIN input : input[i].kind \notin {"initialize", "initialized", "changed"}
    => roots.dirs = RootDirs(has)

(* A tool call never runs in roots older than those the client had when it  *)
(* sent the call: it runs in them, in later ones or in the working          *)
(* directory.                                                               *)
NoOldRoots ==
    \A r \in Requests : calls[r].roots # None /\ ~forgot => calls[r].roots >= since[r]

(* Whatever the client sends, every request is answered in the end, unless  *)
(* it was cancelled, stdout failed or a malformed handoff took it.          *)
EveryRequestAnswered ==
    \A r \in Requests :
       sent >= r ~> answers[r] > 0 \/ calls[r].cancelled \/ writeErr \/ r \in lost

(* The server ends once its input does: neither a client that never answers *)
(* roots/list nor an update that comes then holds it.                       *)
ServerEnds == stdin # "open" ~> loop = "ended"

=============================================================================
