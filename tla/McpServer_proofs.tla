------------------------- MODULE McpServer_proofs -------------------------
(***************************************************************************)
(* That the MCP server answers a request once at most, keeps a session     *)
(* across restarts and keeps up with the roots of its client, for every    *)
(* client, any number of requests and ids, and any bounds on the pipe and  *)
(* on the calls in flight.                                                 *)
(***************************************************************************)
EXTENDS McpServer_types

---------------------------------------------------------------------------
(* A request passes from the pipe to the loop, and a call on to its         *)
(* goroutine.  What lies in the pipe, or is still to be sent, is neither    *)
(* answered nor begun, no request lies there twice, and a call in flight is *)
(* not answered.                                                            *)
IsRequest(i) == input[i].kind \in RequestKinds

Fresh(r) == answers[r] = 0 /\ calls[r].st = "none" /\ ~calls[r].cancelled
StaysFresh(r) == answers'[r] = 0 /\ calls'[r].st = "none" /\ ~calls'[r].cancelled

UnreadFresh ==
    \A i \in 1..Len(input) : IsRequest(i) => input[i].req \in 1..sent /\ Fresh(input[i].req)

UnreadOnce ==
    \A i, j \in 1..Len(input) :
       IsRequest(i) /\ IsRequest(j) /\ i # j => input[i].req # input[j].req

UnsentFresh == \A r \in Requests : r > sent => Fresh(r)

FlightUnanswered == \A r \in InFlight : answers[r] = 0

OnceInv == UnreadFresh /\ UnreadOnce /\ UnsentFresh /\ FlightUnanswered /\ AnsweredOnce

LEMMA OnceInit == Init => OnceInv
<1> SUFFICES ASSUME Init PROVE OnceInv
  OBVIOUS
<1>1. \A r \in Requests : answers[r] = 0 /\ Fresh(r)
  BY Numbers DEF Init, Fresh
<1>2. Len(input) = 0
  BY EmptySeq DEF Init
<1> QED BY <1>1, <1>2
      DEF OnceInv, UnreadFresh, UnreadOnce, UnsentFresh, FlightUnanswered, AnsweredOnce, InFlight, Fresh

(* The client writes a new request, or something else. *)
LEMMA OnceWrites ==
    ASSUME TypeOK, OnceInv, TypeOK', UNCHANGED <<answers, calls>>,
           NEW m \in Messages, input' = Append(input, m),
           \/ m.kind \in RequestKinds /\ m.req = sent' /\ sent' = sent + 1
           \/ m.kind \notin RequestKinds /\ sent' = sent
    PROVE  OnceInv'
<1>1. /\ input \in Seq(Messages) /\ sent \in Nat /\ sent' \in 0..MaxRequests /\ MaxRequests \in Nat
      /\ \A r \in Requests : r \in Nat
  BY Numbers DEF TypeOK, Requests
<1>2. /\ Len(input) \in Nat /\ Len(input') = Len(input) + 1
      /\ \A i \in 1..Len(input) : input'[i] = input[i]
      /\ input'[Len(input) + 1] = m
  BY <1>1, WritesOne
<1>3. \A r : Fresh(r)' <=> Fresh(r)
  BY DEF Fresh
<1>4. \A i \in 1..Len(input') : i \in 1..Len(input) \/ i = Len(input) + 1
  BY <1>2
<1>5. m.kind \in RequestKinds => m.req \in Requests /\ m.req > sent /\ m.req \in 1..sent'
  BY <1>1 DEF Requests
<1>6. UnreadFresh'
  <2> SUFFICES ASSUME NEW i \in 1..Len(input'), input'[i].kind \in RequestKinds
               PROVE  input'[i].req \in 1..sent' /\ Fresh(input'[i].req)
    BY <1>3 DEF UnreadFresh, IsRequest
  <2>1. CASE i \in 1..Len(input)
    <3>1. input'[i] = input[i] /\ input[i].req \in 1..sent /\ Fresh(input[i].req)
      BY <1>2, <2>1 DEF OnceInv, UnreadFresh, IsRequest
    <3> QED BY <1>1, <3>1
  <2>2. CASE i = Len(input) + 1
    BY <1>2, <1>5, <2>2 DEF OnceInv, UnsentFresh
  <2> QED BY <1>4, <2>1, <2>2
<1>7. UnreadOnce'
  <2>1. \A i \in 1..Len(input) : IsRequest(i) => input[i].req <= sent
    BY <1>1 DEF OnceInv, UnreadFresh
  <2> SUFFICES ASSUME NEW i \in 1..Len(input'), NEW j \in 1..Len(input'), i # j,
                      input'[i].kind \in RequestKinds, input'[j].kind \in RequestKinds
               PROVE  input'[i].req # input'[j].req
    BY DEF UnreadOnce, IsRequest
  <2>2. CASE i \in 1..Len(input) /\ j \in 1..Len(input)
    BY <1>2, <2>2 DEF OnceInv, UnreadOnce, IsRequest
  <2>3. CASE i \in 1..Len(input) /\ j = Len(input) + 1
    <3>1. input[i].req \in 1..sent /\ input'[i] = input[i] /\ input'[j] = m
      BY <1>2, <2>3 DEF OnceInv, UnreadFresh, IsRequest
    <3> QED BY <1>1, <1>5, <3>1
  <2>4. CASE j \in 1..Len(input) /\ i = Len(input) + 1
    <3>1. input[j].req \in 1..sent /\ input'[j] = input[j] /\ input'[i] = m
      BY <1>2, <2>4 DEF OnceInv, UnreadFresh, IsRequest
    <3> QED BY <1>1, <1>5, <3>1
  <2> QED BY <1>4, <2>2, <2>3, <2>4
<1>8. UnsentFresh'
  BY <1>1, <1>3 DEF OnceInv, UnsentFresh
<1> QED BY <1>6, <1>7, <1>8 DEF OnceInv, FlightUnanswered, AnsweredOnce, InFlight

(* n messages leave the pipe; nothing changes for what stays in it or is    *)
(* still to be sent.                                                        *)
LEMMA OnceReads ==
    ASSUME TypeOK, OnceInv, sent' = sent,
           NEW n \in 0..Len(input), Len(input') = Len(input) - n,
           \A i \in 1..Len(input') : input'[i] = input[i + n],
           \A r \in Requests : /\ Fresh(r)
                               /\ \A k \in 1..n : IsRequest(k) => input[k].req # r
                               => StaysFresh(r),
           FlightUnanswered', AnsweredOnce'
    PROVE  OnceInv'
<1>1. Len(input) \in Nat /\ Len(input') \in Nat /\ \A i \in 1..Len(input') : i + n \in 1..Len(input)
  BY DEF TypeOK
<1>2. \A r \in 1..sent : r \in Requests
  BY Numbers DEF TypeOK, Requests
<1>3. UnreadFresh'
  <2> SUFFICES ASSUME NEW i \in 1..Len(input'), input'[i].kind \in RequestKinds
               PROVE  input'[i].req \in 1..sent /\ StaysFresh(input'[i].req)
    BY DEF UnreadFresh, IsRequest, Fresh, StaysFresh
  <2>1. input'[i] = input[i + n] /\ i + n \in 1..Len(input) /\ IsRequest(i + n)
    BY <1>1 DEF IsRequest
  <2>2. input[i + n].req \in 1..sent /\ Fresh(input[i + n].req)
    BY <2>1 DEF OnceInv, UnreadFresh
  <2>3. \A k \in 1..n : k \in 1..Len(input) /\ k # i + n
    BY <1>1
  <2>4. \A k \in 1..n : IsRequest(k) => input[k].req # input[i + n].req
    BY <2>1, <2>3 DEF OnceInv, UnreadOnce
  <2>5. StaysFresh(input[i + n].req)
    <3>1. input[i + n].req \in Requests
      BY <1>2, <2>2
    <3> QED BY <2>2, <2>4, <3>1
  <2> QED BY <2>1, <2>2, <2>5
<1>4. UnreadOnce'
  <2> SUFFICES ASSUME NEW i \in 1..Len(input'), NEW j \in 1..Len(input'), i # j,
                      input'[i].kind \in RequestKinds, input'[j].kind \in RequestKinds
               PROVE  input'[i].req # input'[j].req
    BY DEF UnreadOnce, IsRequest
  <2>1. /\ input'[i] = input[i + n] /\ i + n \in 1..Len(input) /\ IsRequest(i + n)
        /\ input'[j] = input[j + n] /\ j + n \in 1..Len(input) /\ IsRequest(j + n) /\ i + n # j + n
    BY <1>1 DEF IsRequest
  <2> QED BY <2>1 DEF OnceInv, UnreadOnce
<1>5. UnsentFresh'
  <2> SUFFICES ASSUME NEW r \in Requests, r > sent PROVE StaysFresh(r)
    BY DEF UnsentFresh, Fresh, StaysFresh
  <2>1. \A k \in 1..n : k \in 1..Len(input) /\ (IsRequest(k) => input[k].req \in 1..sent)
    BY <1>1 DEF OnceInv, UnreadFresh
  <2>2. \A k \in 1..n : IsRequest(k) => input[k].req # r
    BY <2>1, Numbers DEF TypeOK, Requests
  <2> QED BY <2>2 DEF OnceInv, UnsentFresh
<1> QED BY <1>3, <1>4, <1>5 DEF OnceInv

LEMMA OnceClient ==
    ASSUME TypeOK, OnceInv, TypeOK', Client
    PROVE  OnceInv'
<1>1. UNCHANGED <<answers, calls>>
  BY DEF Client, SendInitialize, SendCall, SendQuery, SendInitialized, ChangeRoots, SendCancelled,
         SendReply, CloseStdin, server
<1>2. sent' \in 0..MaxRequests
  BY DEF TypeOK
<1>3. ASSUME NEW hello \in Hellos, SendInitialize(hello) PROVE OnceInv'
  <2> DEFINE m == [kind |-> "initialize", req |-> sent', hello |-> hello]
  <2>1. input' = Append(input, m) /\ sent' = sent + 1 /\ sent' \in Requests
    BY <1>2, <1>3, Numbers DEF SendInitialize, Writes, Requests, TypeOK
  <2>2. m \in Messages /\ m.kind \in RequestKinds /\ m.req = sent'
    BY <2>1, Written DEF RequestKinds
  <2> HIDE DEF m
  <2> QED BY <1>1, <2>1, <2>2, OnceWrites
<1>4. ASSUME NEW key \in Keys, NEW d \in BOOLEAN, SendCall(key, d) PROVE OnceInv'
  <2> DEFINE m == [kind |-> "call", req |-> sent', key |-> key, declares |-> d]
  <2>1. input' = Append(input, m) /\ sent' = sent + 1 /\ sent' \in Requests
    BY <1>2, <1>4, Numbers DEF SendCall, Writes, Requests, TypeOK
  <2>2. m \in Messages /\ m.kind \in RequestKinds /\ m.req = sent'
    BY <2>1, Written DEF RequestKinds
  <2> HIDE DEF m
  <2> QED BY <1>1, <2>1, <2>2, OnceWrites
<1>5. ASSUME NEW d \in BOOLEAN, SendQuery(d) PROVE OnceInv'
  <2> DEFINE m == [kind |-> "query", req |-> sent', declares |-> d]
  <2>1. input' = Append(input, m) /\ sent' = sent + 1 /\ sent' \in Requests
    BY <1>2, <1>5, Numbers DEF SendQuery, Writes, Requests, TypeOK
  <2>2. m \in Messages /\ m.kind \in RequestKinds /\ m.req = sent'
    BY <2>1, Written DEF RequestKinds
  <2> HIDE DEF m
  <2> QED BY <1>1, <2>1, <2>2, OnceWrites
<1>6. ASSUME NEW m \in Messages, m.kind \notin RequestKinds, Writes(m), sent' = sent PROVE OnceInv'
  BY <1>1, <1>6, OnceWrites DEF Writes
<1>7. ASSUME SendInitialized \/ ChangeRoots \/ \E key \in Keys : SendCancelled(key) PROVE OnceInv'
  <2>1. CASE SendInitialized
    BY <1>6, <2>1, Written DEF SendInitialized, RequestKinds
  <2>2. CASE ChangeRoots
    BY <1>6, <2>2, Written DEF ChangeRoots, RequestKinds
  <2>3. ASSUME NEW key \in Keys, SendCancelled(key) PROVE OnceInv'
    BY <1>6, <2>3, Written DEF SendCancelled, RequestKinds
  <2> QED BY <1>7, <2>1, <2>2, <2>3
<1>8. ASSUME NEW id \in Rounds, SendReply(id) PROVE OnceInv'
  <2>1. toAnswer[id] \in Versions
    BY <1>8 DEF SendReply, TypeOK, Roots
  <2> DEFINE m == [kind |-> "reply", id |-> id, roots |-> toAnswer[id]]
  <2>2. m \in Messages /\ m.kind \notin RequestKinds
    BY <2>1, Written DEF RequestKinds
  <2>3. Writes(m) /\ sent' = sent
    BY <1>8 DEF SendReply
  <2> HIDE DEF m
  <2> QED BY <1>6, <2>2, <2>3
<1>9. ASSUME CloseStdin PROVE OnceInv'
  BY <1>1, <1>9 DEF CloseStdin, OnceInv, UnreadFresh, UnreadOnce, UnsentFresh, Fresh, IsRequest,
                    FlightUnanswered, AnsweredOnce, InFlight
<1> QED BY <1>3, <1>4, <1>5, <1>7, <1>8, <1>9 DEF Client

(* The first message is handled; it alone may be answered or begun. *)
LEMMA OnceHandle ==
    ASSUME TypeInv, OnceInv, Handle
    PROVE  OnceInv'
<1>0. /\ TypeOK /\ calls \in [Requests -> CallRecords] /\ answers \in [Requests -> Nat]
      /\ \A r \in InFlight : answers[r] = 0
      /\ \A r \in Requests : answers[r] <= (IF calls[r].cancelled THEN 0 ELSE 1)
      /\ \A r \in Requests : calls[r].cancelled \in BOOLEAN
  BY Parts DEF TypeInv, CallsOK, CallRecords, TypeOK, OnceInv, FlightUnanswered, AnsweredOnce
<1>1. PICK kind : Takes(kind)
  BY DEF Handle, Initialize, RequestRoots, ReceiveReply, Cancel, AnswerQuery, RefuseCall, StartCall
<1>2. /\ Len(input) \in Nat \ {0} /\ 1 \in 0..Len(input) /\ Head(input) = input[1] /\ input[1] \in Messages
      /\ Len(input') = Len(input) - 1 /\ \A i \in 1..Len(input') : input'[i] = input[i + 1]
      /\ \A k \in 1..1 : k = 1
      /\ sent' = sent
  <2>1. sent' = sent
    BY DEF Handle, Initialize, RequestRoots, ReceiveReply, Cancel, AnswerQuery, RefuseCall, StartCall, line
  <2> QED BY <1>1, <2>1, Reads DEF Dropped
<1>3. ASSUME UNCHANGED <<answers, calls>> PROVE OnceInv'
  <2>1. FlightUnanswered' /\ AnsweredOnce'
    BY <1>3 DEF OnceInv, FlightUnanswered, AnsweredOnce, InFlight
  <2>2. \A r \in Requests : Fresh(r) => StaysFresh(r)
    BY <1>3 DEF Fresh, StaysFresh
  <2> QED BY <1>0, <1>2, <2>1, <2>2, OnceReads
<1>4. ASSUME NEW ok, Answer(Head(input).req, ok), Head(input).kind \in RequestKinds, calls' = calls
      PROVE  OnceInv'
  <2> DEFINE q == input[1].req
  <2>1. q \in Requests /\ Fresh(q) /\ IsRequest(1)
    BY <1>2, <1>4, Fields DEF OnceInv, UnreadFresh, IsRequest
  <2>2. answers' = [answers EXCEPT ![q] = IF ok THEN answers[q] + 1 ELSE answers[q]]
    BY <1>2, <1>4 DEF Answer
  <2> HIDE DEF q
  <2>3. answers'[q] \in 0..1 /\ \A r \in Requests \ {q} : answers'[r] = answers[r]
    BY <1>0, <2>1, <2>2 DEF Fresh
  <2>4. FlightUnanswered'
    BY <1>0, <1>4, <2>1, <2>3 DEF FlightUnanswered, InFlight, Fresh
  <2>5. AnsweredOnce'
    BY <1>0, <1>4, <2>1, <2>3 DEF AnsweredOnce, Fresh
  <2>6. \A r \in Requests : Fresh(r) /\ r # q => StaysFresh(r)
    BY <1>4, <2>3 DEF Fresh, StaysFresh
  <2>7. \A r \in Requests : Fresh(r) /\ (\A k \in 1..1 : IsRequest(k) => input[k].req # r) => StaysFresh(r)
    BY <2>1, <2>6 DEF q
  <2> QED BY <1>0, <1>2, <2>4, <2>5, <2>7, OnceReads
<1>5. ASSUME Initialize PROVE OnceInv'
  <2>1. Head(input).kind = "initialize" /\ calls' = calls /\ \E ok : Answer(Head(input).req, ok)
    BY <1>5 DEF Initialize, Takes
  <2> QED BY <1>4, <2>1 DEF RequestKinds
<1>6. ASSUME AnswerQuery \/ RefuseCall PROVE OnceInv'
  <2>1. Head(input).kind \in RequestKinds /\ calls' = calls /\ \E ok : Answer(Head(input).req, ok)
    BY <1>6 DEF AnswerQuery, RefuseCall, Takes, RequestKinds
  <2> QED BY <1>4, <2>1
<1>7. ASSUME Cancel PROVE OnceInv'
  <2>1. /\ answers' = answers
        /\ \A r \in Requests : calls'[r] = calls[r]
                               \/ (r \in InFlight /\ calls'[r] = [calls[r] EXCEPT !.cancelled = TRUE])
    <3>1. answers' = answers
      BY <1>7 DEF Cancel
    <3> DEFINE hit == WithKey(Head(input).key)
    <3>2. calls' = [r \in Requests |-> IF r \in hit THEN [calls[r] EXCEPT !.cancelled = TRUE] ELSE calls[r]]
      BY <1>7 DEF Cancel
    <3>3. \A r \in hit : r \in InFlight
      BY DEF WithKey
    <3> HIDE DEF hit
    <3>4. \A r \in Requests : calls'[r] = IF r \in hit THEN [calls[r] EXCEPT !.cancelled = TRUE] ELSE calls[r]
      BY <3>2
    <3>5. \A r \in Requests : r \in hit \/ calls'[r] = calls[r]
      BY <3>4
    <3>6. \A r \in Requests : r \in hit => calls'[r] = [calls[r] EXCEPT !.cancelled = TRUE]
      BY <3>4
    <3> QED BY <3>1, <3>3, <3>5, <3>6
  <2>2. \A r \in Requests : calls'[r].st = calls[r].st /\ (calls'[r].cancelled # calls[r].cancelled => r \in InFlight)
    <3> SUFFICES ASSUME NEW r \in Requests
                 PROVE  calls'[r].st = calls[r].st /\ (calls'[r].cancelled # calls[r].cancelled => r \in InFlight)
      OBVIOUS
    <3>1. [calls[r] EXCEPT !.cancelled = TRUE].st = calls[r].st
      <4>1. calls[r] \in CallRecords
        BY <1>0
      <4> QED BY <4>1 DEF CallRecords
    <3>2. CASE calls'[r] = calls[r]
      BY <3>2
    <3>3. CASE r \in InFlight /\ calls'[r] = [calls[r] EXCEPT !.cancelled = TRUE]
      BY <3>1, <3>3
    <3> QED BY <2>1, <3>2, <3>3
  <2>3. FlightUnanswered'
    BY <1>0, <2>1, <2>2 DEF FlightUnanswered, InFlight
  <2>4. AnsweredOnce'
    BY <1>0, <2>1, <2>2 DEF AnsweredOnce
  <2>5. \A r \in Requests : Fresh(r) => StaysFresh(r)
    BY <2>1, <2>2 DEF Fresh, StaysFresh, InFlight
  <2> QED BY <1>0, <1>2, <2>3, <2>4, <2>5, OnceReads
<1>8. ASSUME StartCall PROVE OnceInv'
  <2> DEFINE q == input[1].req
             c == [NoCall EXCEPT !.st = "begun", !.key = input[1].key, !.session = ~input[1].declares]
  <2>1. answers' = answers /\ calls' = [calls EXCEPT ![q] = c] /\ input[1].kind = "call"
    BY <1>2, <1>8 DEF StartCall, Takes
  <2>2. q \in Requests /\ Fresh(q) /\ IsRequest(1)
    BY <1>2, <2>1, Fields DEF OnceInv, UnreadFresh, IsRequest, RequestKinds
  <2>3. ~c.cancelled
    BY DEF NoCall
  <2> HIDE DEF q, c
  <2>4. calls'[q] = c /\ \A r \in Requests \ {q} : calls'[r] = calls[r]
    BY <1>0, <2>1, <2>2
  <2>5. FlightUnanswered'
    BY <1>0, <2>1, <2>2, <2>4 DEF FlightUnanswered, InFlight, Fresh
  <2>6. AnsweredOnce'
    BY <1>0, <2>1, <2>2, <2>3, <2>4 DEF AnsweredOnce, Fresh
  <2>7. \A r \in Requests : Fresh(r) /\ r # q => StaysFresh(r)
    BY <2>1, <2>4 DEF Fresh, StaysFresh
  <2>8. \A r \in Requests : Fresh(r) /\ (\A k \in 1..1 : IsRequest(k) => input[k].req # r) => StaysFresh(r)
    BY <2>2, <2>7 DEF q
  <2> QED BY <1>0, <1>2, <2>5, <2>6, <2>8, OnceReads
<1>9. ASSUME ReceiveReply \/ \E changed \in BOOLEAN : RequestRoots(changed) PROVE OnceInv'
  BY <1>3, <1>9 DEF ReceiveReply, RequestRoots
<1> QED BY <1>5, <1>6, <1>7, <1>8, <1>9 DEF Handle

(* Steps of the calls, of the restart and of the loop, which read nothing,  *)
(* or throw away what they read.                                            *)
LEMMA OnceElse ==
    ASSUME TypeInv, OnceInv,
           \/ \E r \in Requests : Call(r)
           \/ EndOfInput \/ Exit \/ BeginRestart \/ StayOn \/ Restart \/ RoundTimesOut \/ Update
           \/ UNCHANGED vars
    PROVE  OnceInv'
<1>0. /\ TypeOK /\ calls \in [Requests -> CallRecords] /\ answers \in [Requests -> Nat]
      /\ \A r \in InFlight : answers[r] = 0
      /\ \A r \in Requests : answers[r] <= (IF calls[r].cancelled THEN 0 ELSE 1)
      /\ \A r \in Requests : calls[r].cancelled \in BOOLEAN
      /\ Len(input) \in Nat
  BY Parts DEF TypeInv, CallsOK, CallRecords, TypeOK, OnceInv, FlightUnanswered, AnsweredOnce
<1>1. ASSUME input' = input, sent' = sent, FlightUnanswered', AnsweredOnce',
             \A r \in Requests : Fresh(r) => StaysFresh(r)
      PROVE  OnceInv'
  <2>1. 0 \in 0..Len(input) /\ Len(input') = Len(input) - 0 /\ \A i \in 1..Len(input') : input'[i] = input[i + 0]
    BY <1>0, <1>1
  <2> QED BY <1>0, <1>1, <2>1, OnceReads
<1>2. ASSUME NEW r \in Requests, Call(r) PROVE OnceInv'
  <2>1. UNCHANGED <<input, sent>> /\ calls[r].st \in {"begun", "waiting", "working", "logging"}
    BY <1>2 DEF Call, ReadRound, WaitEnds, Respond, LogToolCall, call
  <2>2. /\ \A q \in Requests \ {r} : calls'[q] = calls[q] /\ answers'[q] = answers[q]
        /\ calls'[r].cancelled = calls[r].cancelled
        /\ \/ answers'[r] = answers[r] /\ (r \in InFlight' => r \in InFlight)
           \/ /\ calls[r].st = "working" /\ ~calls[r].cancelled
              /\ answers'[r] \in 0..1
              /\ calls'[r].st = "logging"
    <3>1. CASE ReadRound(r)
      BY <1>0, <3>1 DEF ReadRound, CallRecords, InFlight
    <3>2. CASE WaitEnds(r)
      BY <1>0, <3>2 DEF WaitEnds, CallRecords, InFlight
    <3>3. CASE LogToolCall(r)
      BY <1>0, <3>3, Numbers DEF LogToolCall, CallRecords, InFlight
    <3>4. CASE Respond(r)
      <4>1. calls[r].st = "working" /\ calls' = [calls EXCEPT ![r] = [calls[r] EXCEPT !.st = "logging"]]
        BY <1>0, <3>4 DEF Respond
      <4>2. /\ \A q \in Requests \ {r} : calls'[q] = calls[q]
            /\ calls'[r].cancelled = calls[r].cancelled /\ calls'[r].st = "logging"
        BY <1>0, <4>1 DEF CallRecords
      <4>3. answers[r] = 0
        BY <1>0, <4>1 DEF InFlight
      <4>4. CASE calls[r].cancelled
        BY <3>4, <4>1, <4>2, <4>4 DEF Respond, InFlight
      <4>5. ASSUME ~calls[r].cancelled, NEW ok, Answer(r, ok)
            PROVE  answers'[r] \in 0..1 /\ \A q \in Requests \ {r} : answers'[q] = answers[q]
        BY <1>0, <4>3, <4>5 DEF Answer
      <4> QED BY <3>4, <4>1, <4>2, <4>4, <4>5 DEF Respond
    <3> QED BY <1>2, <3>1, <3>2, <3>3, <3>4 DEF Call
  <2>3. FlightUnanswered'
    BY <1>0, <2>2 DEF FlightUnanswered, InFlight
  <2>4. AnsweredOnce'
    BY <1>0, <2>2 DEF AnsweredOnce
  <2>5. \A q \in Requests : Fresh(q) => StaysFresh(q)
    BY <2>1, <2>2 DEF Fresh, StaysFresh
  <2> QED BY <1>1, <2>1, <2>3, <2>4, <2>5
<1>3. ASSUME EndOfInput PROVE OnceInv'
  <2>1. /\ UNCHANGED <<input, sent, answers>>
        /\ \A r \in Requests : calls'[r] = calls[r]
                               \/ (r \in InFlight /\ calls'[r] = [calls[r] EXCEPT !.cancelled = TRUE])
    <3>1. UNCHANGED <<input, sent, answers>>
      BY <1>3 DEF EndOfInput, pipes, history
    <3>2. calls' = [r \in Requests |->
                       IF stdin = "error" /\ r \in InFlight THEN [calls[r] EXCEPT !.cancelled = TRUE] ELSE calls[r]]
      BY <1>3 DEF EndOfInput
    <3> DEFINE hit == {r \in InFlight : stdin = "error"}
    <3>3. \A r \in Requests : calls'[r] = IF r \in hit THEN [calls[r] EXCEPT !.cancelled = TRUE] ELSE calls[r]
      BY <3>2
    <3>4. \A r \in hit : r \in InFlight
      OBVIOUS
    <3> HIDE DEF hit
    <3>5. \A r \in Requests : r \in hit \/ calls'[r] = calls[r]
      BY <3>3
    <3>6. \A r \in Requests : r \in hit => calls'[r] = [calls[r] EXCEPT !.cancelled = TRUE]
      BY <3>3
    <3> QED BY <3>1, <3>4, <3>5, <3>6
  <2>2. \A r \in Requests : calls'[r].st = calls[r].st /\ (calls'[r].cancelled # calls[r].cancelled => r \in InFlight)
    <3> SUFFICES ASSUME NEW r \in Requests
                 PROVE  calls'[r].st = calls[r].st /\ (calls'[r].cancelled # calls[r].cancelled => r \in InFlight)
      OBVIOUS
    <3>1. calls[r] \in CallRecords
      BY <1>0
    <3> QED BY <2>1, <3>1 DEF CallRecords
  <2>3. FlightUnanswered'
    BY <1>0, <2>1, <2>2 DEF FlightUnanswered, InFlight
  <2>4. AnsweredOnce'
    BY <1>0, <2>1, <2>2 DEF AnsweredOnce
  <2>5. \A r \in Requests : Fresh(r) => StaysFresh(r)
    BY <2>1, <2>2 DEF Fresh, StaysFresh, InFlight
  <2> QED BY <1>1, <2>1, <2>3, <2>4, <2>5
<1>4. ASSUME UNCHANGED <<answers, calls>>
      PROVE  FlightUnanswered' /\ AnsweredOnce' /\ \A r \in Requests : Fresh(r) => StaysFresh(r)
  BY <1>4 DEF OnceInv, FlightUnanswered, AnsweredOnce, InFlight, Fresh, StaysFresh
<1>5. ASSUME Exit \/ BeginRestart \/ StayOn \/ RoundTimesOut \/ Update \/ UNCHANGED vars PROVE OnceInv'
  <2>1. UNCHANGED <<input, sent, answers, calls>>
    BY <1>5 DEF Exit, BeginRestart, StayOn, RoundTimesOut, Update, vars, pipes, history
  <2> QED BY <1>1, <1>4, <2>1
<1>6. ASSUME Restart PROVE OnceInv'
  <2>1. UNCHANGED <<sent, answers, calls>>
    BY <1>6 DEF Restart
  <2>2. CASE input' = input
    BY <1>1, <1>4, <2>1, <2>2
  <2>3. ASSUME NEW n \in 1..Len(input), input' = SubSeq(input, n + 1, Len(input)) PROVE OnceInv'
    <3>1. n \in 0..Len(input) /\ Len(input') = Len(input) - n /\ \A i \in 1..Len(input') : input'[i] = input[i + n]
      BY <1>0, <2>3, DropsSome DEF Dropped, TypeOK
    <3> QED BY <1>0, <1>4, <2>1, <3>1, OnceReads
  <2> QED BY <1>6, <2>2, <2>3 DEF Restart, Adopt, Malformed
<1> QED BY <1>2, <1>3, <1>5, <1>6

(***************************************************************************)
(* AnsweredOnce: for every client, any number of requests and ids and any  *)
(* bounds, no request is answered twice, be it by the loop, by its call or *)
(* by the successor of a restart, and a cancelled call gets no answer.     *)
(***************************************************************************)
THEOREM McpAnsweredOnce == Spec => []AnsweredOnce
<1>1. Init => OnceInv
  BY OnceInit
<1>2. TypeInv /\ TypeInv' /\ OnceInv /\ [Next]_vars => OnceInv'
  BY OnceClient, OnceHandle, OnceElse DEF Next, Loop, TypeInv
<1>3. OnceInv => AnsweredOnce
  BY DEF OnceInv
<1> QED BY <1>1, <1>2, <1>3, McpTyped, PTL DEF Spec

---------------------------------------------------------------------------
(* A request sent in a session finds it: the session is negotiated, or the  *)
(* initialize lies before the request.  Only a malformed handoff breaks it. *)
Opens(i) == input[i].kind = "initialize"

SessionOpen == session # "none" => legacy \/ \E i \in 1..Len(input) : Opens(i)

UnreadInSession ==
    \A i \in 1..Len(input) :
       IsRequest(i) /\ input[i].req \in inSession => legacy \/ \E j \in 1..(i - 1) : Opens(j)

SessionInv ==
    /\ inSession \subseteq 1..sent /\ refused \subseteq 1..sent
    /\ forgot \/ (SessionOpen /\ UnreadInSession /\ SessionKept)

LEMMA SessionInit == Init => SessionInv
<1> SUFFICES ASSUME Init PROVE SessionInv
  OBVIOUS
<1>1. Len(input) = 0 /\ session = "none" /\ inSession = {} /\ refused = {}
  BY EmptySeq DEF Init
<1> QED BY <1>1 DEF SessionInv, SessionOpen, UnreadInSession, SessionKept

LEMMA SessionWrites ==
    ASSUME TypeOK, OnceInv, SessionInv, TypeOK', UNCHANGED <<legacy, refused, forgot>>,
           NEW m \in Messages, input' = Append(input, m),
           \/ m.kind \in RequestKinds /\ m.req = sent' /\ sent' = sent + 1
           \/ m.kind \notin RequestKinds /\ sent' = sent,
           inSession' = inSession \/ (session # "none" /\ sent' = sent + 1 /\ inSession' = inSession \cup {sent'}
                                      /\ m.kind # "initialize"),
           session' = session \/ m.kind = "initialize"
    PROVE  SessionInv'
<1>1. input \in Seq(Messages) /\ sent \in Nat /\ sent' \in Nat /\ sent' >= sent
  BY Numbers DEF TypeOK, Requests
<1>2. /\ Len(input) \in Nat /\ Len(input') = Len(input) + 1
      /\ \A i \in 1..Len(input) : input'[i] = input[i]
      /\ input'[Len(input) + 1] = m
      /\ \A i \in 1..Len(input') : i \in 1..Len(input) \/ i = Len(input) + 1
  BY <1>1, WritesOne
<1>3. inSession' \subseteq 1..sent' /\ refused' \subseteq 1..sent'
  <2>1. inSession \subseteq 1..sent /\ refused \subseteq 1..sent /\ 1..sent \subseteq 1..sent'
    BY <1>1 DEF SessionInv
  <2>2. CASE inSession' = inSession
    BY <2>1, <2>2
  <2>3. CASE sent' = sent + 1 /\ inSession' = inSession \cup {sent'}
    <3>1. sent' \in 1..sent'
      BY <1>1, <2>3
    <3> QED BY <2>1, <2>3, <3>1
  <2> QED BY <2>2, <2>3
<1> SUFFICES ASSUME ~forgot PROVE SessionOpen' /\ UnreadInSession' /\ SessionKept'
  BY <1>3 DEF SessionInv
<1>4. SessionOpen /\ UnreadInSession /\ refused \cap inSession = {}
  BY DEF SessionInv, SessionKept
<1>5. SessionOpen'
  <2>1. CASE m.kind = "initialize"
    <3>1. Len(input) + 1 \in 1..Len(input') /\ input'[Len(input) + 1].kind = "initialize"
      BY <1>2, <2>1
    <3> QED BY <3>1 DEF SessionOpen, Opens
  <2>2. CASE session' = session
    BY <1>2, <1>4, <2>2 DEF SessionOpen, Opens
  <2> QED BY <2>1, <2>2
<1>6. UnreadInSession'
  <2> SUFFICES ASSUME NEW i \in 1..Len(input'), input'[i].kind \in RequestKinds,
                      input'[i].req \in inSession', ~legacy
               PROVE  \E j \in 1..(i - 1) : input'[j].kind = "initialize"
    BY DEF UnreadInSession, IsRequest, Opens
  <2>1. CASE i \in 1..Len(input) /\ input[i].req \in inSession
    <3>1. \E j \in 1..(i - 1) : input[j].kind = "initialize"
      BY <1>2, <1>4, <2>1 DEF UnreadInSession, IsRequest, Opens
    <3>2. \A j \in 1..(i - 1) : j \in 1..Len(input)
      BY <1>2, <2>1
    <3> QED BY <1>2, <3>1, <3>2
  <2>2. CASE session # "none" /\ sent' = sent + 1 /\ inSession' = inSession \cup {sent'}
    <3>1. PICK j \in 1..Len(input) : input[j].kind = "initialize"
      BY <1>4, <2>2 DEF SessionOpen, Opens
    <3>2. CASE i = Len(input) + 1
      BY <1>2, <3>1, <3>2
    <3>3. CASE i \in 1..Len(input) /\ input[i].req \notin inSession
      <4>1. input[i].req = sent' /\ input[i].kind \in RequestKinds
        BY <1>2, <2>2, <3>3
      <4>2. input[i].req \in 1..sent
        BY <3>3, <4>1 DEF OnceInv, UnreadFresh, IsRequest
      <4> QED BY <1>1, <2>2, <4>1, <4>2
    <3> QED BY <1>2, <2>1, <3>2, <3>3
  <2>3. CASE inSession' = inSession
    <3>1. CASE i = Len(input) + 1
      BY <1>1, <1>2, <2>3, <3>1 DEF SessionInv
    <3> QED BY <1>2, <2>1, <2>3, <3>1
  <2> QED BY <2>2, <2>3
<1>7. SessionKept'
  BY <1>1, <1>4 DEF SessionKept, SessionInv
<1> QED BY <1>5, <1>6, <1>7

LEMMA SessionClient ==
    ASSUME TypeOK, OnceInv, SessionInv, TypeOK', Client
    PROVE  SessionInv'
<1>1. UNCHANGED <<legacy, refused, forgot>>
  BY DEF Client, SendInitialize, SendCall, SendQuery, SendInitialized, ChangeRoots, SendCancelled,
         SendReply, CloseStdin, server
<1>2. sent' \in 0..MaxRequests /\ MaxRequests \in Nat
  BY Numbers DEF TypeOK
<1>3. ASSUME NEW hello \in Hellos, SendInitialize(hello) PROVE SessionInv'
  <2> DEFINE m == [kind |-> "initialize", req |-> sent', hello |-> hello]
  <2>1. input' = Append(input, m) /\ sent' = sent + 1 /\ sent' \in Requests /\ inSession' = inSession
    BY <1>2, <1>3 DEF SendInitialize, Writes, Requests, TypeOK
  <2>2. m \in Messages /\ m.kind \in RequestKinds /\ m.req = sent' /\ m.kind = "initialize"
    BY <2>1, Written DEF RequestKinds
  <2> HIDE DEF m
  <2> QED BY <1>1, <2>1, <2>2, SessionWrites
<1>4. ASSUME NEW d \in BOOLEAN, NEW r, r = sent', sent' = sent + 1, Sent(r, d)
      PROVE  inSession' = inSession \/ (session # "none" /\ inSession' = inSession \cup {sent'})
  BY <1>4 DEF Sent
<1>5. ASSUME NEW key \in Keys, NEW d \in BOOLEAN, SendCall(key, d) PROVE SessionInv'
  <2> DEFINE m == [kind |-> "call", req |-> sent', key |-> key, declares |-> d]
  <2>1. input' = Append(input, m) /\ sent' = sent + 1 /\ sent' \in Requests /\ session' = session /\ Sent(sent', d)
    BY <1>2, <1>5 DEF SendCall, Writes, Requests, TypeOK
  <2>2. m \in Messages /\ m.kind \in RequestKinds /\ m.req = sent' /\ m.kind # "initialize"
    BY <2>1, Written DEF RequestKinds
  <2> HIDE DEF m
  <2> QED BY <1>1, <1>4, <2>1, <2>2, SessionWrites
<1>6. ASSUME NEW d \in BOOLEAN, SendQuery(d) PROVE SessionInv'
  <2> DEFINE m == [kind |-> "query", req |-> sent', declares |-> d]
  <2>1. input' = Append(input, m) /\ sent' = sent + 1 /\ sent' \in Requests /\ session' = session /\ Sent(sent', d)
    BY <1>2, <1>6 DEF SendQuery, Writes, Requests, TypeOK
  <2>2. m \in Messages /\ m.kind \in RequestKinds /\ m.req = sent' /\ m.kind # "initialize"
    BY <2>1, Written DEF RequestKinds
  <2> HIDE DEF m
  <2> QED BY <1>1, <1>4, <2>1, <2>2, SessionWrites
<1>7. ASSUME NEW m \in Messages, m.kind \notin RequestKinds, Writes(m),
             UNCHANGED <<sent, session, inSession>>
      PROVE  SessionInv'
  BY <1>1, <1>7, SessionWrites DEF Writes
<1>8. ASSUME SendInitialized \/ ChangeRoots \/ \E key \in Keys : SendCancelled(key) PROVE SessionInv'
  <2>1. CASE SendInitialized
    BY <1>7, <2>1, Written DEF SendInitialized, RequestKinds
  <2>2. CASE ChangeRoots
    BY <1>7, <2>2, Written DEF ChangeRoots, RequestKinds
  <2>3. ASSUME NEW key \in Keys, SendCancelled(key) PROVE SessionInv'
    BY <1>7, <2>3, Written DEF SendCancelled, RequestKinds
  <2> QED BY <1>8, <2>1, <2>2, <2>3
<1>9. ASSUME NEW id \in Rounds, SendReply(id) PROVE SessionInv'
  <2>1. toAnswer[id] \in Versions
    BY <1>9 DEF SendReply, TypeOK, Roots
  <2> DEFINE m == [kind |-> "reply", id |-> id, roots |-> toAnswer[id]]
  <2>2. m \in Messages /\ m.kind \notin RequestKinds
    BY <2>1, Written DEF RequestKinds
  <2>3. Writes(m) /\ UNCHANGED <<sent, session, inSession>>
    BY <1>9 DEF SendReply
  <2> HIDE DEF m
  <2> QED BY <1>7, <2>2, <2>3
<1>10. ASSUME CloseStdin PROVE SessionInv'
  BY <1>1, <1>10 DEF CloseStdin, SessionInv, SessionOpen, UnreadInSession, SessionKept, IsRequest, Opens
<1> QED BY <1>3, <1>5, <1>6, <1>8, <1>9, <1>10 DEF Client

(* Handling keeps a negotiated session, and an initialize opens one. *)
LEMMA SessionHandle ==
    ASSUME TypeInv, OnceInv, SessionInv, Handle
    PROVE  SessionInv'
<1>1. PICK kind : Takes(kind) /\ (kind = "initialize" => legacy') /\ (legacy => legacy')
                  /\ UNCHANGED <<sent, session, inSession, forgot>>
                  /\ (refused' = refused \/ (/\ ~legacy /\ refused' = refused \cup {Head(input).req}
                                             /\ kind \in RequestKinds))
  <2>1. CASE Initialize
    BY <2>1 DEF Initialize, line
  <2>2. CASE AnswerQuery \/ RefuseCall
    BY <2>2 DEF AnswerQuery, RefuseCall, Refuses, Serves, RequestKinds, line
  <2>3. CASE ReceiveReply \/ Cancel \/ StartCall \/ \E changed \in BOOLEAN : RequestRoots(changed)
    BY <2>3 DEF ReceiveReply, Cancel, StartCall, RequestRoots, line
  <2> QED BY <2>1, <2>2, <2>3 DEF Handle
<1>2. /\ Len(input) \in Nat \ {0} /\ Head(input) = input[1] /\ input[1].kind = kind
      /\ Len(input') = Len(input) - 1 /\ \A i \in 1..Len(input') : input'[i] = input[i + 1]
      /\ sent \in Nat
  BY <1>1, Reads DEF Dropped, TypeInv, TypeOK
<1>3. inSession' \subseteq 1..sent' /\ refused' \subseteq 1..sent'
  <2>1. kind \in RequestKinds => input[1].req \in 1..sent
    BY <1>2 DEF OnceInv, UnreadFresh, IsRequest
  <2>2. sent' = sent /\ inSession' = inSession /\ inSession \subseteq 1..sent /\ refused \subseteq 1..sent
    BY <1>1 DEF SessionInv
  <2> QED BY <1>1, <1>2, <2>1, <2>2
<1> SUFFICES ASSUME ~forgot PROVE SessionOpen' /\ UnreadInSession' /\ SessionKept'
  BY <1>1, <1>3 DEF SessionInv
<1>4. SessionOpen /\ UnreadInSession /\ refused \cap inSession = {}
  BY DEF SessionInv, SessionKept
<1>5. ASSUME NEW j \in 1..Len(input), input[j].kind = "initialize", ~legacy'
      PROVE  j - 1 \in 1..Len(input') /\ input'[j - 1].kind = "initialize"
  <2>1. j # 1
    BY <1>1, <1>2, <1>5
  <2> QED BY <1>2, <1>5, <2>1
<1>6. SessionOpen'
  BY <1>1, <1>4, <1>5 DEF SessionOpen, Opens
<1>7. UnreadInSession'
  <2> SUFFICES ASSUME NEW i \in 1..Len(input'), input'[i].kind \in RequestKinds,
                      input'[i].req \in inSession, ~legacy'
               PROVE  \E j \in 1..(i - 1) : input'[j].kind = "initialize"
    BY <1>1 DEF UnreadInSession, IsRequest, Opens
  <2>1. i + 1 \in 1..Len(input) /\ input'[i] = input[i + 1] /\ ~legacy
    BY <1>1, <1>2
  <2>2. PICK j \in 1..((i + 1) - 1) : input[j].kind = "initialize"
    BY <1>4, <2>1 DEF UnreadInSession, IsRequest, Opens
  <2>3. j \in 1..Len(input) /\ input'[j - 1].kind = "initialize" /\ j - 1 \in 1..Len(input')
    BY <1>2, <1>5, <2>1, <2>2
  <2>4. j - 1 \in 1..(i - 1)
    BY <1>2, <2>2, <2>3
  <2> QED BY <2>3, <2>4
<1>8. SessionKept'
  <2>1. ASSUME ~legacy, kind \in RequestKinds PROVE input[1].req \notin inSession
    <3>1. 1 \in 1..Len(input) /\ ~\E j \in 1..(1 - 1) : Opens(j)
      BY <1>2
    <3> QED BY <1>2, <1>4, <2>1, <3>1 DEF UnreadInSession, IsRequest
  <2> QED BY <1>1, <1>2, <1>4, <2>1 DEF SessionKept
<1> QED BY <1>6, <1>7, <1>8

LEMMA SessionElse ==
    ASSUME TypeInv, SessionInv,
           \/ \E r \in Requests : Call(r)
           \/ EndOfInput \/ Exit \/ BeginRestart \/ StayOn \/ Restart \/ RoundTimesOut \/ Update
           \/ UNCHANGED vars
    PROVE  SessionInv'
<1>1. ASSUME UNCHANGED <<input, sent, session, inSession, refused, legacy, forgot>> PROVE SessionInv'
  BY <1>1 DEF SessionInv, SessionOpen, UnreadInSession, SessionKept, IsRequest, Opens
<1>2. CASE \E r \in Requests : Call(r)
  BY <1>1, <1>2 DEF Call, ReadRound, WaitEnds, Respond, LogToolCall, call
<1>3. CASE EndOfInput \/ Exit \/ BeginRestart \/ StayOn \/ RoundTimesOut \/ Update \/ UNCHANGED vars
  BY <1>1, <1>3 DEF EndOfInput, Exit, BeginRestart, StayOn, RoundTimesOut, Update, vars, pipes, history
<1>4. CASE Restart
  <2>1. UNCHANGED <<sent, session, inSession, refused>>
    BY <1>4 DEF Restart
  <2>2. CASE Adopt /\ UNCHANGED forgot
    BY <1>1, <2>1, <2>2 DEF Adopt
  <2>3. CASE Malformed
    BY <2>1, <2>3 DEF Malformed, SessionInv
  <2> QED BY <1>4, <2>2, <2>3 DEF Restart
<1> QED BY <1>2, <1>3, <1>4

(***************************************************************************)
(* SessionKept: for every client and any bounds, no request sent in a      *)
(* session is refused as sent outside of one, whatever restarts come in    *)
(* between, unless a handoff was malformed.                                *)
(***************************************************************************)
THEOREM McpSessionKept == Spec => []SessionKept
<1>1. Init => OnceInv /\ SessionInv
  BY OnceInit, SessionInit
<1>2. TypeInv /\ TypeInv' /\ OnceInv /\ SessionInv /\ [Next]_vars => OnceInv' /\ SessionInv'
  BY OnceClient, OnceHandle, OnceElse, SessionClient, SessionHandle, SessionElse DEF Next, Loop, TypeInv
<1>3. SessionInv => SessionKept
  BY DEF SessionInv, SessionKept
<1> QED BY <1>1, <1>2, <1>3, McpTyped, PTL DEF Spec

---------------------------------------------------------------------------
(* What the server knows of the roots, or may yet learn by the answer to    *)
(* its latest request, is what the client has, or a notice in the pipe      *)
(* clears it.  For a call the notice lies before it, so that what is left   *)
(* when the call is handled is not older than the call.                     *)
Announces(i) == Opens(i) /\ input[i].hello.offered /\ input[i].hello.changed
Notice(i) == input[i].kind \in {"initialize", "changed"}
Noticed == \E i \in 1..Len(input) : Notice(i)

(* The session a message is sent in announces changes of the roots. *)
InForce(i) ==
    \/ roots.changed /\ \A k \in 1..(i - 1) : ~Opens(k)
    \/ \E j \in 1..(i - 1) : Announces(j) /\ \A k \in (j + 1)..(i - 1) : ~Opens(k)

Told(v) ==
    \/ v = roots.dirs
    \/ roots.pending # None /\ v = toAnswer[roots.pending]
    \/ \E i \in 1..Len(input) :
          input[i].kind = "reply" /\ input[i].id = roots.pending /\ v = input[i].roots

AsksOnce ==
    /\ \A i \in Rounds : i > roots.seq => toAnswer[i] = None
    /\ \A i \in 1..Len(input) : input[i].kind = "reply" => input[i].id <= roots.seq
    /\ roots.pending <= roots.seq

ChangesInForce ==
    /\ roots.changed => roots.offered
    /\ session = "announces" => InForce(Len(input) + 1)
    /\ \A i \in 1..Len(input) : input[i].kind = "changed" => InForce(i)

ToldLatest ==
    /\ \A v \in Versions : Told(v) => v = has \/ Noticed
    /\ roots.changed /\ roots.round # None /\ roots.pending = None =>
          roots.dirs = RootDirs(has) \/ Noticed

UnreadTold ==
    \A i \in 1..Len(input), v \in Versions :
       input[i].kind = "call" /\ Told(v) =>
          v >= since[input[i].req] \/ \E j \in 1..(i - 1) : Notice(j)

RunningTold ==
    \A r \in Requests, v \in Versions :
       calls[r].st \in {"begun", "waiting"} /\ Told(v) => v >= since[r]

RootsKept ==
    /\ AsksOnce
    /\ ChangesInForce
    /\ ToldLatest
    /\ UnreadTold
    /\ RunningTold
    /\ \A r \in Requests : calls[r].st = "none" => calls[r].roots = None
    /\ \A r \in Requests : calls[r].roots # None => calls[r].roots >= since[r]

RootsInv ==
    /\ \A r \in Requests : since[r] <= has
    /\ forgot \/ RootsKept

LEMMA RootsInit == Init => RootsInv
<1> SUFFICES ASSUME Init PROVE RootsInv
  OBVIOUS
<1>1. Len(input) = 0 /\ session = "none" /\ \A r \in Requests : calls[r] = NoCall
  BY EmptySeq DEF Init
<1>2. AsksOnce /\ ChangesInForce /\ ToldLatest
  BY <1>1, Numbers DEF Init, AsksOnce, ChangesInForce, ToldLatest, Told, NoRoots, None, Versions, Rounds, Noticed
<1>3. UnreadTold /\ RunningTold
  BY <1>1, Numbers DEF UnreadTold, RunningTold
<1> QED BY <1>1, <1>2, <1>3, Numbers DEF Init, RootsInv, RootsKept, NoCall, None

(* At most one message leaves the pipe, the client does nothing: what is    *)
(* told then is the latest, or was told before and no notice was read.      *)
LEMMA RootsReads ==
    ASSUME TypeOK, TypeOK', RootsInv, ~forgot, UNCHANGED <<has, session, since, forgot>>,
           NEW n \in 0..1, Len(input') = Len(input) - n,
           \A i \in 1..Len(input') : input'[i] = input[i + n],
           \A v \in Versions : Told(v)' => v = has \/ (Told(v) /\ ~(n = 1 /\ Notice(1))),
           AsksOnce',
           roots'.changed => roots'.offered,
           n = 1 /\ Opens(1) => (Announces(1) => roots'.changed),
           ~(n = 1 /\ Opens(1)) => (roots.changed => roots'.changed),
           roots'.changed /\ roots'.round # None /\ roots'.pending = None =>
              roots'.dirs = RootDirs(has) \/ (~(n = 1 /\ Notice(1)) /\ Noticed),
           \A r \in Requests : calls'[r].st \in {"begun", "waiting"} =>
              \/ calls[r].st \in {"begun", "waiting"}
              \/ n = 1 /\ input[1].kind = "call" /\ input[1].req = r,
           \A r \in Requests : calls'[r].st = "none" => calls'[r].roots = None,
           \A r \in Requests : calls'[r].roots # None => calls'[r].roots >= since[r]
    PROVE  RootsInv'
<1>0. /\ Len(input) \in Nat /\ Len(input') \in Nat /\ has \in Nat
      /\ \A i \in 1..Len(input') : i + n \in 1..Len(input)
      /\ \A i \in 1..Len(input) : input[i] \in Messages
      /\ \A r \in Requests : since[r] \in Nat /\ since[r] <= has
      /\ \A v \in Versions : v \in Nat
      /\ RootsKept
  BY Numbers DEF TypeOK, RootsInv, Roots, Versions, None
<1>1. ASSUME NEW i \in 1..Len(input), ~(n = 1 /\ i = 1)
      PROVE  i - n \in 1..Len(input') /\ input'[i - n] = input[i]
  BY <1>0, <1>1
<1>2. ASSUME Noticed, ~(n = 1 /\ Notice(1))
      PROVE  Noticed'
  <2>1. PICK i \in 1..Len(input) : Notice(i)
    BY <1>2 DEF Noticed
  <2> QED BY <1>1, <1>2, <2>1 DEF Noticed, Notice
<1>3. ASSUME NEW i \in 1..(Len(input') + 1), InForce(i + n)
      PROVE  InForce(i)'
  <2>1. \A k \in 1..(i - 1) : k \in 1..Len(input') /\ k + n \in 1..((i + n) - 1) /\ input'[k] = input[k + n]
    BY <1>0
  <2>2. CASE roots.changed /\ \A k \in 1..((i + n) - 1) : ~Opens(k)
    <3>1. ~(n = 1 /\ Opens(1))
      BY <1>0, <2>2
    <3> QED BY <2>1, <2>2, <3>1 DEF InForce, Opens
  <2>3. ASSUME NEW j \in 1..((i + n) - 1), Announces(j), \A k \in (j + 1)..((i + n) - 1) : ~Opens(k)
        PROVE  InForce(i)'
    <3>1. CASE n = 1 /\ j = 1
      <4>1. roots'.changed
        BY <2>3, <3>1 DEF Announces
      <4>2. \A k \in 1..(i - 1) : k + n \in (j + 1)..((i + n) - 1)
        BY <1>0, <3>1
      <4> QED BY ZenonT(60), <2>1, <2>3, <4>1, <4>2 DEF InForce, Opens
    <3>2. CASE ~(n = 1 /\ j = 1)
      <4>1. j \in 1..Len(input) /\ j - n \in 1..(i - 1)
        BY <1>0, <3>2
      <4>2. input'[j - n] = input[j]
        BY <1>1, <3>2, <4>1
      <4>3. \A k \in ((j - n) + 1)..(i - 1) : k \in 1..(i - 1) /\ k + n \in (j + 1)..((i + n) - 1)
        BY <1>0, <4>1
      <4>4. Announces(j - n)'
        BY <2>3, <4>2 DEF Announces, Opens
      <4>5. \A k \in ((j - n) + 1)..(i - 1) : ~Opens(k)'
        BY <2>1, <2>3, <4>3 DEF Opens
      <4> QED BY <4>1, <4>4, <4>5 DEF InForce
    <3> QED BY <3>1, <3>2
  <2> QED BY <1>3, <2>2, <2>3 DEF InForce
<1>4. ChangesInForce'
  <2>1. ASSUME NEW i, i = Len(input') + 1, session = "announces"
        PROVE  InForce(i)'
    <3>1. i \in 1..(Len(input') + 1) /\ i + n = Len(input) + 1
      BY <1>0, <2>1
    <3>2. InForce(i + n)
      BY <1>0, <2>1, <3>1 DEF RootsKept, ChangesInForce
    <3> QED BY <1>3, <3>1, <3>2
  <2>2. ASSUME NEW i \in 1..Len(input'), input'[i].kind = "changed"
        PROVE  InForce(i)'
    <3>1. i + n \in 1..Len(input) /\ input[i + n].kind = "changed" /\ i \in 1..(Len(input') + 1)
      BY <1>0, <2>2
    <3>2. InForce(i + n)
      BY <1>0, <3>1 DEF RootsKept, ChangesInForce
    <3> QED BY <1>3, <3>1, <3>2
  <2> QED BY <2>1, <2>2 DEF ChangesInForce
<1>5. ToldLatest'
  BY <1>0, <1>2 DEF RootsKept, ToldLatest
<1>6. UnreadTold'
  <2> SUFFICES ASSUME NEW i \in 1..Len(input'), NEW v \in Versions, input'[i].kind = "call", Told(v)',
                      ~(v >= since[input'[i].req])
               PROVE  \E j \in 1..(i - 1) : Notice(j)'
    BY DEF UnreadTold
  <2>1. /\ i + n \in 1..Len(input) /\ input'[i] = input[i + n] /\ input[i + n].kind = "call"
        /\ input[i + n].req \in Requests
    BY <1>0, Fields
  <2>2. Told(v) /\ ~(n = 1 /\ Notice(1))
    BY <1>0, <2>1
  <2>3. PICK j \in 1..((i + n) - 1) : Notice(j)
    BY <1>0, <2>1, <2>2 DEF RootsKept, UnreadTold
  <2>4. j \in 1..Len(input) /\ ~(n = 1 /\ j = 1)
    BY <1>0, <2>1, <2>2, <2>3
  <2>5. j - n \in 1..(i - 1)
    BY <1>0, <2>3, <2>4
  <2> QED BY <1>1, <2>3, <2>4, <2>5 DEF Notice
<1>7. RunningTold'
  <2> SUFFICES ASSUME NEW r \in Requests, NEW v \in Versions, calls'[r].st \in {"begun", "waiting"}, Told(v)'
               PROVE  v >= since[r]
    BY DEF RunningTold
  <2>1. CASE v = has
    BY <1>0, <2>1
  <2>2. CASE Told(v) /\ calls[r].st \in {"begun", "waiting"}
    BY <1>0, <2>2 DEF RootsKept, RunningTold
  <2>3. CASE Told(v) /\ n = 1 /\ input[1].kind = "call" /\ input[1].req = r
    <3>1. 1 \in 1..Len(input) /\ ~\E j \in 1..(1 - 1) : Notice(j)
      BY <1>0, <2>3
    <3> QED BY <1>0, <2>3, <3>1 DEF RootsKept, UnreadTold
  <2> QED BY <2>1, <2>2, <2>3
<1> QED BY <1>0, <1>4, <1>5, <1>6, <1>7 DEF RootsInv, RootsKept

(* A new request forgets what was known, and the client will answer it with *)
(* what it has now.                                                         *)
LEMMA RootsAsked ==
    ASSUME TypeOK, TypeOK', AsksOnce, NEW known, NEW ok,
           known \in {roots, [roots EXCEPT !.round = None]}, AskRoots(known, ok),
           Len(input') <= Len(input),
           \A i \in 1..Len(input') : \E j \in 1..Len(input) : input'[i] = input[j]
    PROVE  /\ AsksOnce'
           /\ \A v \in Versions : Told(v)' => v = has
           /\ roots'.changed = roots.changed /\ roots'.offered = roots.offered
           /\ roots'.pending # None
<1> DEFINE new == roots.seq + 1
<1>1. /\ roots'.seq = new /\ roots'.pending = new /\ roots'.dirs = None
      /\ roots'.changed = roots.changed /\ roots'.offered = roots.offered
      /\ toAnswer' = [toAnswer EXCEPT ![new] = IF ok THEN has ELSE toAnswer[new]]
  BY DEF AskRoots, TypeOK
<1>2. /\ roots.seq \in Nat /\ new \in Rounds /\ new # None
      /\ toAnswer \in [Rounds -> Roots]
      /\ Len(input) \in Nat /\ Len(input') \in Nat
      /\ \A i \in 1..Len(input) : input[i].kind = "reply" => input[i].id \in Rounds
      /\ \A i \in 1..Len(input) : input[i].kind = "reply" => input[i].id <= roots.seq
      /\ \A i \in Rounds : i > roots.seq => toAnswer[i] = None
      /\ \A i \in Rounds : i \in Nat
  <2>1. roots.seq \in Nat /\ roots'.seq \in 0..MaxRounds /\ toAnswer \in [Rounds -> Roots] /\ input \in Seq(Messages)
        /\ input' \in Seq(Messages)
    BY Numbers DEF TypeOK
  <2>2. \A i \in 1..Len(input) : input[i] \in Messages
    BY <2>1
  <2> QED BY <1>1, <2>1, <2>2, Fields, Numbers DEF AsksOnce, Rounds, None
<1> HIDE DEF new
<1>3. \A i \in 1..Len(input') : input'[i].kind = "reply" => input'[i].id # new /\ input'[i].id < new
  BY <1>2 DEF new
<1>4. \A i \in Rounds : toAnswer'[i] = IF i = new /\ ok THEN has ELSE toAnswer[i]
  BY <1>1, <1>2
<1>5. AsksOnce'
  BY SMTT(30), <1>1, <1>2, <1>3, <1>4 DEF AsksOnce, new
<1>6. ASSUME NEW v \in Versions, Told(v)' PROVE v = has
  <2>1. v # None
    BY DEF Versions, None
  <2>2. toAnswer[new] = None
    BY <1>2 DEF new
  <2> QED BY <1>1, <1>2, <1>3, <1>4, <1>6, <2>1, <2>2 DEF Told
<1> QED BY <1>1, <1>2, <1>5, <1>6

(* The first message is handled. *)
LEMMA RootsHandle ==
    ASSUME TypeInv, TypeInv', RootsInv, Handle
    PROVE  RootsInv'
<1>0. /\ TypeOK /\ TypeOK' /\ calls \in [Requests -> CallRecords]
      /\ \A r \in Requests : calls[r] \in CallRecords
  BY DEF TypeInv, TypeOK, CallRecords
<1>1. PICK kind : Takes(kind)
  BY DEF Handle, Initialize, RequestRoots, ReceiveReply, Cancel, AnswerQuery, RefuseCall, StartCall
<1>2. /\ Len(input) \in Nat \ {0} /\ 1 \in 0..1 /\ 1 \in 1..Len(input)
      /\ Head(input) = input[1] /\ input[1] \in Messages /\ input[1].kind = kind
      /\ Len(input') = Len(input) - 1 /\ \A i \in 1..Len(input') : input'[i] = input[i + 1]
      /\ Len(input') <= Len(input)
      /\ \A i \in 1..Len(input') : i + 1 \in 1..Len(input)
  BY <1>1, Reads DEF Dropped
<1>3. UNCHANGED <<has, session, since, forgot>>
  BY DEF Handle, Initialize, RequestRoots, ReceiveReply, Cancel, AnswerQuery, RefuseCall, StartCall, line
<1>4. CASE forgot
  BY <1>3, <1>4 DEF RootsInv
<1> SUFFICES ASSUME ~forgot PROVE RootsInv'
  BY <1>4
<1>5. RootsKept
  BY DEF RootsInv
<1>6. \A i \in 1..Len(input') : \E j \in 1..Len(input) : input'[i] = input[j]
  BY <1>2
(* What the calls may do. *)
<1> DEFINE CallsGoOn ==
      /\ \A r \in Requests : calls'[r].st \in {"begun", "waiting"} =>
            calls[r].st \in {"begun", "waiting"} \/ (input[1].kind = "call" /\ input[1].req = r)
      /\ \A r \in Requests : calls'[r].st = "none" => calls'[r].roots = None
      /\ \A r \in Requests : calls'[r].roots # None => calls'[r].roots >= since[r]
<1>7. ASSUME calls' = calls PROVE CallsGoOn
  BY <1>5, <1>7 DEF RootsKept
(* Nothing new is told. *)
<1>8. ASSUME UNCHANGED <<roots, toAnswer>>, ~Notice(1), CallsGoOn PROVE RootsInv'
  <2>1. \A v \in Versions : Told(v)' => Told(v)
    BY SMTT(30), <1>2, <1>8 DEF Told
  <2>2. AsksOnce'
    BY <1>2, <1>5, <1>8 DEF RootsKept, AsksOnce
  <2>3. roots'.changed /\ roots'.round # None /\ roots'.pending = None => roots'.dirs = RootDirs(has) \/ Noticed
    BY <1>5, <1>8 DEF RootsKept, ToldLatest
  <2>4. ~Opens(1) /\ (roots'.changed => roots'.offered)
    BY <1>5, <1>8 DEF Opens, Notice, RootsKept, ChangesInForce
  <2> QED BY <1>0, <1>2, <1>3, <1>8, <2>1, <2>2, <2>3, <2>4, RootsReads
<1>9. CASE Initialize
  <2>1. /\ input[1].kind = "initialize" /\ calls' = calls /\ toAnswer' = toAnswer
        /\ roots' = [NoRoots EXCEPT !.offered = input[1].hello.offered,
                                    !.changed = input[1].hello.offered /\ input[1].hello.changed, !.seq = roots.seq]
    BY <1>1, <1>2, <1>9 DEF Initialize, Takes
  <2>2. /\ roots'.offered = input[1].hello.offered /\ roots'.seq = roots.seq
        /\ roots'.changed = (input[1].hello.offered /\ input[1].hello.changed)
        /\ roots'.pending = None /\ roots'.round = None /\ roots'.dirs = None
    BY <2>1 DEF NoRoots
  <2>3. /\ \A i \in 1..Len(input') : input'[i].kind = "reply" => input'[i].id \in Rounds
        /\ \A i \in 1..Len(input') : input'[i] \in Messages
    BY <1>0, Fields DEF TypeOK
  <2>4. \A v \in Versions : ~Told(v)'
    BY <2>2, <2>3 DEF Told, Versions, Rounds, None
  <2>5. AsksOnce'
    <3>1. roots.seq \in Nat
      BY <1>0, Numbers DEF TypeOK
    <3> QED BY <1>2, <1>5, <2>1, <2>2, <3>1 DEF RootsKept, AsksOnce, None
  <2>6. Announces(1) => roots'.changed
    BY <2>2 DEF Announces
  <2>7. CallsGoOn /\ Opens(1)
    BY <1>7, <2>1 DEF Opens
  <2> QED BY <1>0, <1>2, <1>3, <2>2, <2>4, <2>5, <2>6, <2>7, RootsReads
<1>10. ASSUME NEW changed \in BOOLEAN, RequestRoots(changed) PROVE RootsInv'
  <2>1. /\ input[1].kind = (IF changed THEN "changed" ELSE "initialized") /\ calls' = calls /\ ~Opens(1)
    BY <1>2, <1>10 DEF RequestRoots, Takes, Opens
  <2>2. ASSUME NEW ok, AskRoots(roots, ok) PROVE RootsInv'
    <3>1. /\ AsksOnce' /\ \A v \in Versions : Told(v)' => v = has
          /\ roots'.changed = roots.changed /\ roots'.offered = roots.offered /\ roots'.pending # None
      BY <1>0, <1>2, <1>5, <1>6, <2>2, RootsAsked DEF RootsKept
    <3>2. roots.changed => roots.offered
      BY <1>5 DEF RootsKept, ChangesInForce
    <3> QED BY <1>0, <1>2, <1>3, <1>7, <2>1, <3>1, <3>2, RootsReads
  <2>3. CASE ~(roots.offered /\ (changed => roots.changed))
    <3>1. ~changed
      <4>1. ASSUME changed PROVE FALSE
        <5>1. InForce(1) /\ roots.offered \in BOOLEAN
          BY <1>0, <1>2, <1>5, <2>1, <4>1 DEF RootsKept, ChangesInForce, TypeOK
        <5>2. roots.changed
          BY <5>1 DEF InForce
        <5> QED BY <1>5, <2>3, <5>2 DEF RootsKept, ChangesInForce
      <4> QED BY <4>1
    <3>2. UNCHANGED <<roots, toAnswer>> /\ ~Notice(1)
      BY <1>10, <2>1, <2>3, <3>1 DEF RequestRoots, Notice
    <3> QED BY <1>7, <1>8, <2>1, <3>2
  <2> QED BY <1>10, <2>2, <2>3 DEF RequestRoots
<1>11. CASE ReceiveReply
  <2>1. input[1].kind = "reply" /\ calls' = calls /\ toAnswer' = toAnswer /\ ~Notice(1) /\ ~Opens(1)
    BY <1>2, <1>11 DEF ReceiveReply, Takes, Notice, Opens
  <2>2. CASE input[1].id = roots.pending
    <3> DEFINE got == input[1].roots
    <3>1. /\ got \in Versions /\ Told(got)
      BY <1>2, <2>1, <2>2, Fields DEF Told
    <3>2. /\ roots'.pending = None /\ roots'.dirs = RootDirs(got) /\ roots'.seq = roots.seq
          /\ roots'.changed = roots.changed /\ roots'.offered = roots.offered /\ roots'.round = roots.round
      BY ZenonT(60), <1>0, <1>2, <1>11, <2>2 DEF ReceiveReply, TypeOK
    <3>3. \A i \in 1..Len(input') : input'[i].kind = "reply" => input'[i].id # None
      <4>1. \A i \in 1..Len(input') : input'[i] \in Messages
        BY <1>0 DEF TypeOK
      <4> QED BY <4>1, Fields DEF Rounds, None
    <3>4. \A v \in Versions : Told(v)' => v = got
      BY <3>2, <3>3 DEF Told, RootDirs, Versions, None
    <3>5. AsksOnce'
      <4>1. roots.seq \in Nat
        BY <1>0, Numbers DEF TypeOK
      <4> QED BY <1>2, <1>5, <2>1, <3>2, <4>1 DEF RootsKept, AsksOnce, None
    <3>6. got = has \/ Noticed
      BY <1>5, <3>1 DEF RootsKept, ToldLatest
    <3>7. roots.changed => roots.offered
      BY <1>5 DEF RootsKept, ChangesInForce
    <3> HIDE DEF got
    <3> QED BY <1>0, <1>2, <1>3, <1>7, <2>1, <3>1, <3>2, <3>4, <3>5, <3>6, <3>7, RootsReads
  <2>3. CASE input[1].id # roots.pending
    BY <1>2, <1>7, <1>8, <1>11, <2>1, <2>3 DEF ReceiveReply
  <2> QED BY <2>2, <2>3
<1>12. CASE Cancel
  <2>1. UNCHANGED <<roots, toAnswer>> /\ ~Notice(1)
    BY <1>2, <1>12 DEF Cancel, Takes, Notice
  <2>2. \A r \in Requests : calls'[r].st = calls[r].st /\ calls'[r].roots = calls[r].roots
    <3> DEFINE hit == WithKey(Head(input).key)
    <3>1. calls' = [r \in Requests |-> IF r \in hit THEN [calls[r] EXCEPT !.cancelled = TRUE] ELSE calls[r]]
      BY <1>12 DEF Cancel
    <3> HIDE DEF hit
    <3> QED BY <1>0, <3>1 DEF CallRecords
  <2> QED BY <1>5, <1>8, <2>1, <2>2 DEF RootsKept
<1>13. CASE AnswerQuery \/ RefuseCall
  BY <1>2, <1>7, <1>8, <1>13 DEF AnswerQuery, RefuseCall, Takes, Notice
<1>14. CASE StartCall
  <2> DEFINE c == [NoCall EXCEPT !.st = "begun", !.key = input[1].key, !.session = ~input[1].declares]
  <2>1. UNCHANGED <<roots, toAnswer>> /\ ~Notice(1) /\ input[1].kind = "call" /\ calls' = [calls EXCEPT ![input[1].req] = c]
    BY <1>2, <1>14 DEF StartCall, Takes, Notice
  <2>2. c.roots = None /\ c.st = "begun"
    BY DEF NoCall
  <2> HIDE DEF c
  <2>3. \A r \in Requests : calls'[r] = IF r = input[1].req THEN c ELSE calls[r]
    BY <1>0, <2>1
  <2> QED BY <1>5, <1>8, <2>1, <2>2, <2>3 DEF RootsKept
<1> QED BY <1>9, <1>10, <1>11, <1>12, <1>13, <1>14 DEF Handle

(* As RootsReads, where no message leaves the pipe. *)
LEMMA RootsStays ==
    ASSUME TypeOK, TypeOK', RootsInv, ~forgot, UNCHANGED <<has, session, since, forgot, input>>,
           \A v \in Versions : Told(v)' => v = has \/ Told(v),
           AsksOnce',
           roots'.changed => roots'.offered,
           roots.changed => roots'.changed,
           roots'.changed /\ roots'.round # None /\ roots'.pending = None =>
              roots'.dirs = RootDirs(has) \/ Noticed,
           \A r \in Requests : calls'[r].st \in {"begun", "waiting"} => calls[r].st \in {"begun", "waiting"},
           \A r \in Requests : calls'[r].st = "none" => calls'[r].roots = None,
           \A r \in Requests : calls'[r].roots # None => calls'[r].roots >= since[r]
    PROVE  RootsInv'
<1> DEFINE n == 0
<1>1. /\ n \in 0..1 /\ n # 1 /\ Len(input') = Len(input) - n
      /\ \A i \in 1..Len(input') : input'[i] = input[i + n]
  BY DEF TypeOK
<1> HIDE DEF n
<1> QED BY <1>1, RootsReads

(* A call takes over what is told; a successor asks again. *)
LEMMA RootsElse ==
    ASSUME TypeInv, TypeInv', RootsInv,
           \/ \E r \in Requests : Call(r)
           \/ EndOfInput \/ Exit \/ BeginRestart \/ StayOn \/ Restart \/ RoundTimesOut \/ Update
           \/ UNCHANGED vars
    PROVE  RootsInv'
<1>0. /\ TypeOK /\ TypeOK' /\ calls \in [Requests -> CallRecords] /\ Len(input) \in Nat
      /\ \A r \in Requests : calls[r] \in CallRecords
  BY DEF TypeInv, TypeOK, CallRecords
<1>1. UNCHANGED <<has, session, since>>
  BY DEF Call, ReadRound, WaitEnds, Respond, LogToolCall, call, EndOfInput, Exit, BeginRestart, StayOn,
         Restart, RoundTimesOut, Update, vars, pipes, history
<1>2. CASE forgot'
  BY <1>1, <1>2 DEF RootsInv
<1>3. CASE ~forgot'
  <2>0. input' = input /\ forgot' = forgot
    <3>1. CASE Restart
      <4>1. CASE Adopt /\ UNCHANGED forgot
        BY <4>1 DEF Adopt
      <4>2. CASE Malformed
        BY <1>3, <4>2 DEF Malformed
      <4> QED BY <3>1, <4>1, <4>2 DEF Restart
    <3>2. CASE \E r \in Requests : Call(r)
      BY <3>2 DEF Call, ReadRound, WaitEnds, Respond, LogToolCall, call
    <3>3. CASE EndOfInput \/ Exit \/ BeginRestart \/ StayOn \/ RoundTimesOut
      BY <3>3 DEF EndOfInput, Exit, BeginRestart, StayOn, RoundTimesOut, pipes, history
    <3>4. CASE Update \/ UNCHANGED vars
      BY <3>4 DEF Update, vars, pipes, history
    <3> QED BY <3>1, <3>2, <3>3, <3>4
  <2>1. ~forgot /\ UNCHANGED <<has, session, since, forgot, input>>
    BY <1>1, <1>3, <2>0
  <2>2. RootsKept
    BY <2>1 DEF RootsInv
  <2> DEFINE CallsGoOn ==
        /\ \A r \in Requests : calls'[r].st \in {"begun", "waiting"} => calls[r].st \in {"begun", "waiting"}
        /\ \A r \in Requests : calls'[r].st = "none" => calls'[r].roots = None
        /\ \A r \in Requests : calls'[r].roots # None => calls'[r].roots >= since[r]
  <2>3. ASSUME UNCHANGED <<roots, toAnswer>>, CallsGoOn PROVE RootsInv'
    <3>1. \A v \in Versions : Told(v)' => Told(v)
      BY <2>1, <2>3 DEF Told
    <3>2. AsksOnce'
      BY <2>1, <2>2, <2>3 DEF RootsKept, AsksOnce
    <3>3. roots'.changed /\ roots'.round # None /\ roots'.pending = None => roots'.dirs = RootDirs(has) \/ Noticed
      BY <2>2, <2>3 DEF RootsKept, ToldLatest
    <3>4. roots'.changed => roots'.offered
      BY <2>2, <2>3 DEF RootsKept, ChangesInForce
    <3> QED BY <1>0, <2>1, <2>3, <3>1, <3>2, <3>3, <3>4, RootsStays
  <2>4. ASSUME calls' = calls PROVE CallsGoOn
    BY <2>2, <2>4 DEF RootsKept
  <2>5. ASSUME NEW r \in Requests, Call(r) PROVE RootsInv'
    <3>1. UNCHANGED <<roots, toAnswer>>
      BY <2>5 DEF Call, ReadRound, WaitEnds, Respond, LogToolCall, call
    <3>2. /\ \A q \in Requests \ {r} : calls'[q] = calls[q]
          /\ calls'[r].st # "none"
          /\ calls'[r].st \in {"begun", "waiting"} => calls[r].st \in {"begun", "waiting"}
          /\ \/ calls'[r].roots = calls[r].roots \/ calls'[r].roots = None
             \/ calls[r].st = "waiting" /\ calls'[r].roots = roots.dirs
      <4>1. CASE ReadRound(r)
        BY <1>0, <4>1 DEF ReadRound, CallRecords
      <4>2. CASE WaitEnds(r)
        BY <1>0, <4>2 DEF WaitEnds, CallRecords
      <4>3. CASE Respond(r)
        BY <1>0, <4>3 DEF Respond, CallRecords
      <4>4. CASE LogToolCall(r)
        <5> DEFINE c == [NoCall EXCEPT !.st = "over", !.cancelled = calls[r].cancelled]
        <5>1. calls' = [calls EXCEPT ![r] = c] /\ c.st = "over" /\ c.roots = None
          BY <4>4 DEF LogToolCall, NoCall
        <5> HIDE DEF c
        <5> QED BY <1>0, <5>1
      <4> QED BY <2>5, <4>1, <4>2, <4>3, <4>4 DEF Call
    <3>3. calls[r].st = "waiting" /\ roots.dirs # None => roots.dirs >= since[r]
      <4>1. roots.dirs # None => roots.dirs \in Versions /\ Told(roots.dirs)
        BY <1>0 DEF TypeOK, Roots, Told
      <4> QED BY <2>2, <4>1 DEF RootsKept, RunningTold
    <3>4. CallsGoOn
      BY <2>2, <3>2, <3>3 DEF RootsKept
    <3> QED BY <2>3, <3>1, <3>4
  <2>6. CASE EndOfInput
    <3>1. UNCHANGED <<roots, toAnswer>>
      BY <2>6 DEF EndOfInput, pipes
    <3>2. \A r \in Requests : calls'[r].st = calls[r].st /\ calls'[r].roots = calls[r].roots
      BY <1>0, <2>6 DEF EndOfInput, CallRecords
    <3> QED BY <2>2, <2>3, <3>1, <3>2 DEF RootsKept
  <2>7. CASE Exit \/ BeginRestart \/ StayOn \/ RoundTimesOut \/ Update \/ UNCHANGED vars
    <3>1. UNCHANGED <<roots, toAnswer, calls>>
      BY <2>7 DEF Exit, BeginRestart, StayOn, RoundTimesOut, Update, vars, pipes, history
    <3> QED BY <2>3, <2>4, <3>1
  <2>8. CASE Restart
    <3>1. calls' = calls /\ Adopt
      BY <1>3, <2>8 DEF Restart, Malformed
    <3>2. CASE UNCHANGED <<roots, toAnswer>>
      BY <2>3, <2>4, <3>1, <3>2
    <3>3. ASSUME NEW ok, AskRoots([roots EXCEPT !.round = None], ok) PROVE RootsInv'
      <4>1. /\ AsksOnce' /\ \A v \in Versions : Told(v)' => v = has
            /\ roots'.changed = roots.changed /\ roots'.offered = roots.offered /\ roots'.pending # None
        BY <1>0, <2>1, <2>2, <3>3, RootsAsked DEF RootsKept
      <4>2. roots.changed => roots.offered
        BY <2>2 DEF RootsKept, ChangesInForce
      <4> QED BY <1>0, <2>1, <2>4, <3>1, <4>1, <4>2, RootsStays
    <3> QED BY <3>1, <3>2, <3>3 DEF Adopt
  <2> QED BY <2>5, <2>6, <2>7, <2>8
<1> QED BY <1>2, <1>3

(* The client writes.  What it says of its roots takes their latest version *)
(* along, and every change is followed by a notice.                         *)
LEMMA RootsWrites ==
    ASSUME TypeInv, TypeInv', OnceInv, RootsInv, UNCHANGED <<roots, calls, forgot>>,
           NEW m \in Messages, input' = Append(input, m),
           \/ m.kind = "initialize" /\ session' = (IF m.hello.offered /\ m.hello.changed THEN "announces" ELSE "plain")
           \/ m.kind # "initialize" /\ session' = session,
           \/ m.kind = "changed" /\ session = "announces" /\ has' = has + 1
           \/ m.kind # "changed" /\ has' = has,
           \/ m.kind = "reply" /\ toAnswer[m.id] = m.roots /\ toAnswer' = [toAnswer EXCEPT ![m.id] = None]
           \/ m.kind # "reply" /\ toAnswer' = toAnswer,
           \A r \in Requests : r <= sent => since'[r] = since[r],
           \A r \in Requests : since'[r] = since[r] \/ since'[r] = None \/ (m.kind # "changed" /\ since'[r] = has)
    PROVE  RootsInv'
<1>0. /\ TypeOK /\ TypeOK' /\ input \in Seq(Messages) /\ input' \in Seq(Messages)
      /\ calls \in [Requests -> CallRecords] /\ toAnswer \in [Rounds -> Roots]
      /\ sent \in Nat /\ has \in Nat /\ has' \in Nat /\ has' >= has
      /\ \A r \in Requests : r \in Nat /\ since[r] \in Nat /\ since'[r] \in Nat /\ since[r] <= has
      /\ \A v \in Versions : v \in Nat /\ v >= None
  <2>1. TypeOK /\ TypeOK' /\ calls \in [Requests -> CallRecords] /\ \A r \in Requests : since[r] <= has
    BY DEF TypeInv, TypeOK, CallRecords, RootsInv
  <2>2. /\ input \in Seq(Messages) /\ input' \in Seq(Messages) /\ toAnswer \in [Rounds -> Roots]
        /\ sent \in 0..MaxRequests /\ has \in Versions /\ has' \in Versions
        /\ \A r \in Requests : since[r] \in Roots /\ since'[r] \in Roots
    BY <2>1 DEF TypeOK
  <2>3. /\ \A v \in Versions : v \in Nat /\ v >= None
        /\ \A v \in Roots : v \in Nat
        /\ \A r \in Requests : r \in Nat
    BY Numbers DEF Roots, Versions, None, Requests
  <2> QED BY <2>1, <2>2, <2>3
<1>1. /\ Len(input) \in Nat /\ Len(input') = Len(input) + 1
      /\ \A i \in 1..Len(input) : input'[i] = input[i]
      /\ input'[Len(input) + 1] = m
      /\ \A i \in 1..Len(input') : i \in 1..Len(input) \/ i = Len(input) + 1
  BY <1>0, WritesOne
<1>2. \A r \in Requests : since'[r] <= has'
  BY <1>0 DEF None
<1> SUFFICES ASSUME ~forgot PROVE RootsKept'
  BY <1>2 DEF RootsInv
<1>3. RootsKept
  BY DEF RootsInv
<1>4. m.kind = "reply" => m.id \in Rounds /\ m.roots \in Versions
  BY Fields
<1>5. ASSUME NEW v \in Versions, Told(v)' PROVE Told(v)
  <2>1. CASE v = roots.dirs
    BY <2>1 DEF Told
  <2>2. CASE roots.pending # None /\ v = toAnswer'[roots.pending]
    <3>1. roots.pending \in Rounds /\ v # None
      BY <1>0, <2>2 DEF TypeOK, Versions, None
    <3>2. v = toAnswer[roots.pending]
      BY <1>0, <1>4, <2>2, <3>1
    <3> QED BY <2>2, <3>2 DEF Told
  <2>3. ASSUME NEW i \in 1..Len(input'), input'[i].kind = "reply", input'[i].id = roots.pending, v = input'[i].roots
        PROVE  Told(v)
    <3>1. CASE i \in 1..Len(input)
      BY <1>1, <2>3, <3>1 DEF Told
    <3>2. CASE i = Len(input) + 1
      <4>1. m.kind = "reply" /\ m.id = roots.pending /\ v = m.roots /\ m.id # None
        BY <1>1, <1>4, <2>3, <3>2 DEF Rounds, None
      <4> QED BY <4>1 DEF Told
    <3> QED BY <1>1, <3>1, <3>2
  <2> QED BY <1>5, <2>1, <2>2, <2>3 DEF Told
<1>6. AsksOnce'
  <2>1. \A i \in Rounds : i > roots.seq => toAnswer'[i] = None
    BY <1>0, <1>3, <1>4 DEF RootsKept, AsksOnce
  <2>2. m.kind = "reply" => m.id <= roots.seq
    <3>1. m.kind = "reply" => toAnswer[m.id] # None
      BY <1>4 DEF Versions, None
    <3>2. roots.seq \in Nat /\ \A i \in Rounds : i \in Nat
      BY <1>0, Numbers DEF TypeOK, Rounds
    <3> QED BY <1>3, <1>4, <3>1, <3>2 DEF RootsKept, AsksOnce
  <2> QED BY <1>1, <1>3, <2>1, <2>2 DEF RootsKept, AsksOnce
<1>7. ASSUME NEW i \in 1..(Len(input) + 1), InForce(i)
      PROVE  InForce(i)'
  <2>1. \A k \in 1..(i - 1) : k \in 1..Len(input) /\ input'[k] = input[k]
    BY <1>1
  <2>2. CASE roots.changed /\ \A k \in 1..(i - 1) : ~Opens(k)
    BY <2>1, <2>2 DEF InForce, Opens
  <2>3. ASSUME NEW j \in 1..(i - 1), Announces(j), \A k \in (j + 1)..(i - 1) : ~Opens(k)
        PROVE  InForce(i)'
    <3>1. Announces(j)'
      BY <2>1, <2>3 DEF Announces, Opens
    <3>2. \A k \in (j + 1)..(i - 1) : k \in 1..(i - 1)
      BY <2>3
    <3>3. \A k \in (j + 1)..(i - 1) : ~Opens(k)'
      BY <2>1, <2>3, <3>2 DEF Opens
    <3> QED BY <3>1, <3>3 DEF InForce
  <2> QED BY <1>7, <2>2, <2>3 DEF InForce
<1>8. ChangesInForce'
  <2>1. ASSUME NEW last, last = Len(input) + 1, NEW i, i = Len(input') + 1, session' = "announces"
        PROVE  InForce(i)'
    <3>1. i \in Nat /\ last \in Nat /\ i = last + 1 /\ last \in 1..(i - 1) /\ input'[last] = m
      BY <1>1, <2>1
    <3>2. CASE m.kind = "initialize"
      <4>1. Announces(last)'
        BY <2>1, <3>1, <3>2 DEF Announces, Opens
      <4>2. ~\E k \in (last + 1)..(i - 1) : TRUE
        BY <3>1
      <4> QED BY <3>1, <4>1, <4>2 DEF InForce
    <3>3. CASE m.kind # "initialize"
      <4>1. InForce(last)
        BY <1>3, <2>1, <3>3 DEF RootsKept, ChangesInForce
      <4>2. last \in 1..(Len(input) + 1) /\ ~Opens(last)'
        BY <1>1, <2>1, <3>1, <3>3 DEF Opens
      <4>3. InForce(last)'
        BY <1>7, <4>1, <4>2
      <4>4. \A k \in 1..(i - 1) : k \in 1..(last - 1) \/ k = last
        BY <3>1
      <4>5. \A k \in 1..(last - 1) : k \in 1..(i - 1)
        BY <3>1
      <4>6. \A j \in 1..(last - 1) : \A k \in (j + 1)..(i - 1) : k \in (j + 1)..(last - 1) \/ k = last
        BY <3>1
      <4> QED BY <4>2, <4>3, <4>4, <4>5, <4>6 DEF InForce
    <3> QED BY <3>2, <3>3
  <2>2. ASSUME NEW i \in 1..Len(input'), input'[i].kind = "changed"
        PROVE  InForce(i)'
    <3>1. i \in 1..(Len(input) + 1)
      BY <1>1
    <3>2. InForce(i)
      BY <1>1, <1>3, <2>2 DEF RootsKept, ChangesInForce
    <3> QED BY <1>7, <3>1, <3>2
  <2> QED BY <1>3, <2>1, <2>2 DEF RootsKept, ChangesInForce
<1>9. (m.kind = "changed" \/ Noticed) => Noticed'
  <2>1. Len(input) + 1 \in 1..Len(input') /\ \A i \in 1..Len(input) : i \in 1..Len(input')
    BY <1>1
  <2> QED BY <1>1, <2>1 DEF Noticed, Notice
<1>10. ToldLatest'
  BY <1>3, <1>5, <1>9 DEF RootsKept, ToldLatest
<1>11. UnreadTold'
  <2> SUFFICES ASSUME NEW i \in 1..Len(input'), NEW v \in Versions, input'[i].kind = "call", Told(v)',
                      ~(v >= since'[input'[i].req])
               PROVE  \E j \in 1..(i - 1) : Notice(j)'
    BY DEF UnreadTold
  <2>1. Told(v)
    BY <1>5
  <2>2. \A j \in 1..(i - 1) : j \in 1..Len(input) /\ input'[j] = input[j]
    BY <1>1
  <2>3. CASE i \in 1..Len(input)
    <3>1. /\ input'[i] = input[i] /\ input[i].req \in Requests /\ input[i].req \in 1..sent
      <4>1. input'[i] = input[i] /\ input[i] \in Messages
        BY <1>0, <1>1, <2>3
      <4> QED BY <2>3, <4>1, Fields DEF OnceInv, UnreadFresh, IsRequest, RequestKinds
    <3>2. since'[input[i].req] = since[input[i].req]
      BY <1>0, <3>1
    <3>3. \E j \in 1..(i - 1) : Notice(j)
      BY <1>3, <2>1, <2>3, <3>1, <3>2 DEF RootsKept, UnreadTold
    <3> QED BY <2>2, <3>3 DEF Notice
  <2>4. CASE i = Len(input) + 1
    <3>1. m.kind = "call" /\ input'[i] = m /\ m.req \in Requests /\ has' = has
      BY <1>1, <2>4, Fields
    <3>2. ~(v = has)
      BY <1>0, <1>2, <3>1
    <3>3. PICK j \in 1..Len(input) : Notice(j)
      BY <1>3, <2>1, <3>2 DEF RootsKept, ToldLatest, Noticed
    <3>4. j \in 1..(i - 1)
      BY <1>1, <2>4
    <3> QED BY <2>2, <3>3, <3>4 DEF Notice
  <2> QED BY <1>1, <2>3, <2>4
<1>12. \A r \in Requests : calls[r].st # "none" => since'[r] = since[r]
  BY <1>0 DEF OnceInv, UnsentFresh, Fresh
<1>13. RunningTold'
  BY <1>3, <1>5, <1>12 DEF RootsKept, RunningTold
<1>14. /\ \A r \in Requests : calls'[r].st = "none" => calls'[r].roots = None
       /\ \A r \in Requests : calls'[r].roots # None => calls'[r].roots >= since'[r]
  BY <1>3, <1>12 DEF RootsKept
<1> QED BY <1>6, <1>8, <1>10, <1>11, <1>13, <1>14 DEF RootsKept

LEMMA RootsClient ==
    ASSUME TypeInv, TypeInv', OnceInv, RootsInv, Client
    PROVE  RootsInv'
<1>0. /\ TypeOK /\ TypeOK' /\ sent \in Nat /\ sent' \in 0..MaxRequests /\ MaxRequests \in Nat
      /\ since \in [Requests -> Roots]
  BY Numbers DEF TypeInv, TypeOK
<1>1. UNCHANGED <<roots, calls, forgot>>
  BY DEF Client, SendInitialize, SendCall, SendQuery, SendInitialized, ChangeRoots, SendCancelled,
         SendReply, CloseStdin, server
<1>2. ASSUME NEW hello \in Hellos, SendInitialize(hello) PROVE RootsInv'
  <2> DEFINE m == [kind |-> "initialize", req |-> sent', hello |-> hello]
  <2>1. /\ input' = Append(input, m) /\ sent' \in Requests /\ UNCHANGED <<has, toAnswer, since>>
        /\ session' = (IF hello.offered /\ hello.changed THEN "announces" ELSE "plain")
    BY <1>0, <1>2 DEF SendInitialize, Writes, Requests
  <2>2. m \in Messages /\ m.kind = "initialize" /\ m.hello = hello
    BY <2>1, Written
  <2> HIDE DEF m
  <2> QED BY <1>1, <2>1, <2>2, RootsWrites
<1>3. ASSUME NEW d \in BOOLEAN, sent' = sent + 1, Sent(sent', d)
      PROVE  /\ \A r \in Requests : r <= sent => since'[r] = since[r]
             /\ \A r \in Requests : since'[r] = since[r] \/ since'[r] = None \/ since'[r] = has
  <2>1. since' = [since EXCEPT ![sent'] = IF session = "announces" THEN has ELSE None]
    BY <1>3 DEF Sent
  <2>2. \A r \in Requests : r \in Nat
    BY Numbers DEF Requests
  <2> QED BY <1>0, <1>3, <2>1, <2>2
<1>4. ASSUME NEW key \in Keys, NEW d \in BOOLEAN, SendCall(key, d) PROVE RootsInv'
  <2> DEFINE m == [kind |-> "call", req |-> sent', key |-> key, declares |-> d]
  <2>1. /\ input' = Append(input, m) /\ sent' = sent + 1 /\ sent' \in Requests /\ Sent(sent', d)
        /\ UNCHANGED <<has, session, toAnswer>>
    BY <1>0, <1>4 DEF SendCall, Writes, Requests
  <2>2. m \in Messages /\ m.kind = "call"
    BY <2>1, Written
  <2> HIDE DEF m
  <2> QED BY <1>1, <1>3, <2>1, <2>2, RootsWrites
<1>5. ASSUME NEW d \in BOOLEAN, SendQuery(d) PROVE RootsInv'
  <2> DEFINE m == [kind |-> "query", req |-> sent', declares |-> d]
  <2>1. /\ input' = Append(input, m) /\ sent' = sent + 1 /\ sent' \in Requests /\ Sent(sent', d)
        /\ UNCHANGED <<has, session, toAnswer>>
    BY <1>0, <1>5 DEF SendQuery, Writes, Requests
  <2>2. m \in Messages /\ m.kind = "query"
    BY <2>1, Written
  <2> HIDE DEF m
  <2> QED BY <1>1, <1>3, <2>1, <2>2, RootsWrites
<1>6. CASE SendInitialized
  <2>1. Writes([kind |-> "initialized"]) /\ UNCHANGED <<has, session, toAnswer, since>>
    BY <1>6 DEF SendInitialized
  <2> QED BY <1>1, <2>1, Written, RootsWrites DEF Writes
<1>7. CASE ChangeRoots
  <2>1. /\ Writes([kind |-> "changed"]) /\ UNCHANGED <<session, toAnswer, since>>
        /\ session = "announces" /\ has' = has + 1
    BY <1>7 DEF ChangeRoots
  <2> QED BY <1>1, <2>1, Written, RootsWrites DEF Writes
<1>8. ASSUME NEW key \in Keys, SendCancelled(key) PROVE RootsInv'
  <2>1. Writes([kind |-> "cancelled", key |-> key]) /\ UNCHANGED <<has, session, toAnswer, since>>
    BY <1>8 DEF SendCancelled
  <2> QED BY <1>1, <2>1, Written, RootsWrites DEF Writes
<1>9. ASSUME NEW id \in Rounds, SendReply(id) PROVE RootsInv'
  <2>1. toAnswer[id] \in Versions
    BY <1>0, <1>9 DEF SendReply, TypeOK, Roots
  <2> DEFINE m == [kind |-> "reply", id |-> id, roots |-> toAnswer[id]]
  <2>2. m \in Messages /\ m.kind = "reply" /\ m.id = id /\ m.roots = toAnswer[id]
    BY <2>1, Written
  <2>3. input' = Append(input, m) /\ toAnswer' = [toAnswer EXCEPT ![id] = None] /\ UNCHANGED <<has, session, since>>
    BY <1>9 DEF SendReply, Writes
  <2> HIDE DEF m
  <2> QED BY <1>1, <2>2, <2>3, RootsWrites
<1>10. CASE CloseStdin
  <2>1. UNCHANGED <<input, has, session, toAnswer, since>>
    BY <1>10 DEF CloseStdin
  <2> QED BY <1>1, <2>1 DEF RootsInv, RootsKept, AsksOnce, ChangesInForce, ToldLatest, UnreadTold, RunningTold,
                            Told, Noticed, Notice, InForce, Announces, Opens
<1> QED BY <1>2, <1>4, <1>5, <1>6, <1>7, <1>8, <1>9, <1>10 DEF Client

LEMMA RootsAlways == Spec => [](TypeInv /\ RootsInv)
<1>1. Init => OnceInv /\ RootsInv
  BY OnceInit, RootsInit
<1>2. TypeInv /\ TypeInv' /\ OnceInv /\ RootsInv /\ [Next]_vars => OnceInv' /\ RootsInv'
  <2> SUFFICES ASSUME TypeInv, TypeInv', OnceInv, RootsInv, [Next]_vars PROVE OnceInv' /\ RootsInv'
    OBVIOUS
  <2>1. CASE Client
    BY <2>1, OnceClient, RootsClient DEF TypeInv
  <2>2. CASE Handle
    BY <2>2, OnceHandle, RootsHandle DEF TypeInv
  <2>3. CASE \/ \E r \in Requests : Call(r)
             \/ EndOfInput \/ Exit \/ BeginRestart \/ StayOn \/ Restart \/ RoundTimesOut \/ Update
             \/ UNCHANGED vars
    BY <2>3, OnceElse, RootsElse DEF TypeInv
  <2> QED BY <2>1, <2>2, <2>3 DEF Next, Loop
<1> QED BY <1>1, <1>2, McpTyped, PTL DEF Spec

(***************************************************************************)
(* RootsAgree: for every client and any bounds, once no request for the    *)
(* roots is open and no message on them unread, the server has the roots   *)
(* the client has, in whatever order its requests were answered and        *)
(* whatever sessions and restarts came in between.                         *)
(***************************************************************************)
THEOREM McpRootsAgree == Spec => []RootsAgree
<1>1. TypeInv /\ RootsInv => RootsAgree
  <2> SUFFICES ASSUME TypeInv, RootsInv, roots.changed, roots.round # None, roots.pending = None, ~forgot,
                      \A i \in DOMAIN input : input[i].kind \notin {"initialize", "initialized", "changed"}
               PROVE  roots.dirs = RootDirs(has)
    BY DEF RootsAgree
  <2>1. DOMAIN input = 1..Len(input)
    BY DEF TypeInv, TypeOK
  <2>2. ~Noticed
    BY <2>1 DEF Noticed, Notice
  <2> QED BY <2>2 DEF RootsInv, RootsKept, ToldLatest
<1> QED BY <1>1, RootsAlways, PTL

(***************************************************************************)
(* NoOldRoots: for every client and any bounds, no call runs in roots      *)
(* older than those the client had when it sent the call.                  *)
(***************************************************************************)
THEOREM McpNoOldRoots == Spec => []NoOldRoots
<1>1. RootsInv => NoOldRoots
  BY DEF RootsInv, RootsKept, NoOldRoots
<1> QED BY <1>1, RootsAlways, PTL

=============================================================================
