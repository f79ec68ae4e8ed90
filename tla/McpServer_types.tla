------------------------- MODULE McpServer_types -------------------------
(***************************************************************************)
(* The types of the MCP server hold in every behaviour, for every client   *)
(* and all bounds.                                                         *)
(*                                                                         *)
(* TypeOK alone is not inductive: that the counter of roots/list stays     *)
(* within MaxRounds holds because each round is paid for, by a notice of   *)
(* the client's in the pipe or still to be sent, or by an update that came *)
(* or is to come; Budgeted says so.  The lemmas on sequences count the     *)
(* notices in the pipe.                                                    *)
(***************************************************************************)
EXTENDS McpServer, TLAPS, FiniteSetTheorems, SequenceTheorems, FunctionTheorems

LEMMA Fields ==
    ASSUME NEW m \in Messages
    PROVE  /\ m.kind = "initialize" => /\ m.req \in Requests /\ m.hello \in Hellos
                                       /\ m.hello.offered \in BOOLEAN /\ m.hello.changed \in BOOLEAN
                                       /\ m.hello.long \in BOOLEAN
           /\ m.kind = "call" => m.req \in Requests /\ m.key \in Keys /\ m.declares \in BOOLEAN
           /\ m.kind = "query" => m.req \in Requests /\ m.declares \in BOOLEAN
           /\ m.kind = "reply" => m.id \in Rounds /\ m.roots \in Versions
           /\ m.kind \in RequestKinds => m.req \in Requests
<1>1. \A h \in Hellos : h.offered \in BOOLEAN /\ h.changed \in BOOLEAN /\ h.long \in BOOLEAN
  BY McpAssumption
<1> QED BY <1>1 DEF Messages, RequestKinds

LEMMA Written ==
    /\ \A r \in Requests : /\ \A h \in Hellos : [kind |-> "initialize", req |-> r, hello |-> h] \in Messages
                           /\ \A k \in Keys, d \in BOOLEAN :
                                 [kind |-> "call", req |-> r, key |-> k, declares |-> d] \in Messages
                           /\ \A d \in BOOLEAN : [kind |-> "query", req |-> r, declares |-> d] \in Messages
    /\ [kind |-> "initialized"] \in Messages /\ [kind |-> "changed"] \in Messages
    /\ \A k \in Keys : [kind |-> "cancelled", key |-> k] \in Messages
    /\ \A i \in Rounds, v \in Versions : [kind |-> "reply", id |-> i, roots |-> v] \in Messages
BY DEF Messages

Asks == {"initialized", "changed"}
AskCount(s) == Cardinality({i \in 1..Len(s) : s[i].kind \in Asks})

LEMMA Places ==
    ASSUME NEW s \in Seq(Messages)
    PROVE  /\ IsFiniteSet({i \in 1..Len(s) : s[i].kind \in Asks}) /\ AskCount(s) \in Nat
<1>1. Len(s) \in Nat /\ IsFiniteSet(1..Len(s))
  BY FS_Interval, LenProperties
<1>2. IsFiniteSet({i \in 1..Len(s) : s[i].kind \in Asks})
  BY <1>1, FS_Subset
<1> QED BY <1>2, FS_CardinalityType DEF AskCount

LEMMA WritesOne ==
    ASSUME NEW s \in Seq(Messages), NEW m \in Messages
    PROVE  /\ Append(s, m) \in Seq(Messages)
           /\ Len(Append(s, m)) = Len(s) + 1
           /\ \A i \in 1..Len(s) : Append(s, m)[i] = s[i]
           /\ Append(s, m)[Len(s) + 1] = m
           /\ AskCount(Append(s, m)) = AskCount(s) + (IF m.kind \in Asks THEN 1 ELSE 0)
<1> DEFINE t == Append(s, m)
           P == {i \in 1..Len(s) : s[i].kind \in Asks}
           Q == {i \in 1..Len(t) : t[i].kind \in Asks}
<1>1. t \in Seq(Messages) /\ Len(s) \in Nat /\ Len(t) = Len(s) + 1
      /\ (\A i \in 1..Len(s) : t[i] = s[i]) /\ t[Len(s) + 1] = m
  OBVIOUS
<1>2. Q = IF m.kind \in Asks THEN P \cup {Len(s) + 1} ELSE P
  BY <1>1
<1>3. IsFiniteSet(P) /\ Len(s) + 1 \notin P /\ Cardinality(P) \in Nat
  BY SMTT(30), <1>1, Places, FS_CardinalityType
<1>4. Cardinality(P \cup {Len(s) + 1}) = Cardinality(P) + 1
  BY <1>3, FS_AddElement
<1>5. AskCount(t) = Cardinality(Q) /\ AskCount(s) = Cardinality(P)
  BY DEF AskCount
<1> HIDE DEF t, P, Q
<1>6. AskCount(t) = AskCount(s) + (IF m.kind \in Asks THEN 1 ELSE 0)
  BY <1>2, <1>3, <1>4, <1>5
<1> QED BY <1>1, <1>6 DEF t

(* What is left after the first n messages. *)
Dropped(t, s, n) ==
    /\ t \in Seq(Messages)
    /\ Len(t) = Len(s) - n
    /\ \A i \in 1..Len(t) : t[i] = s[i + n]

LEMMA TakesOne ==
    ASSUME NEW s \in Seq(Messages), s # <<>>
    PROVE  Len(s) \in Nat \ {0} /\ Head(s) = s[1] /\ s[1] \in Messages /\ Dropped(Tail(s), s, 1)
BY HeadTailProperties, EmptySeq DEF Dropped

LEMMA DropsSome ==
    ASSUME NEW s \in Seq(Messages), NEW n \in 1..Len(s)
    PROVE  Dropped(SubSeq(s, n + 1, Len(s)), s, n)
<1>1. Len(s) \in Nat /\ n \in Nat /\ n + 1 \in Int /\ \A i \in (n + 1)..Len(s) : s[i] \in Messages
  BY ElementOfSeq
<1> DEFINE t == SubSeq(s, n + 1, Len(s))
<1>2. /\ t \in Seq(Messages)
      /\ Len(t) = IF n + 1 <= Len(s) THEN Len(s) - (n + 1) + 1 ELSE 0
      /\ \A i \in 1..(Len(s) - (n + 1) + 1) : t[i] = s[n + 1 + i - 1]
  BY <1>1, SubSeqProperties
<1> HIDE DEF t
<1>3. Len(t) = Len(s) - n /\ \A i \in 1..Len(t) : t[i] = s[i + n]
  BY <1>1, <1>2
<1> QED BY <1>2, <1>3 DEF Dropped, t

LEMMA DroppedCount ==
    ASSUME NEW s \in Seq(Messages), NEW n \in 1..Len(s), NEW t, Dropped(t, s, n)
    PROVE  /\ AskCount(t) <= AskCount(s)
           /\ n = 1 /\ s[1].kind \in Asks => AskCount(t) + 1 <= AskCount(s)
<1> DEFINE P == {i \in 1..Len(s) : s[i].kind \in Asks}
           Q == {i \in 1..Len(t) : t[i].kind \in Asks}
           f == [i \in Q |-> i + n]
<1>1. Len(s) \in Nat /\ Len(t) \in Nat /\ n \in Nat
  BY DEF Dropped
<1>2. \A i \in Q : i + n \in P \ {1}
  BY <1>1 DEF Dropped
<1>3. IsFiniteSet(P) /\ IsFiniteSet(Q) /\ IsFiniteSet(P \ {1})
  BY Places, FS_RemoveElement DEF Dropped
<1>4. f \in Injection(Q, P \ {1})
  <2>1. f \in [Q -> P \ {1}]
    BY <1>2
  <2>2. \A a, b \in Q : f[a] = f[b] => a = b
    BY <1>1
  <2> HIDE DEF f, P, Q
  <2> QED BY <2>1, <2>2, Fun_IsInj
<1>5. Cardinality(Q) <= Cardinality(P \ {1})
  BY <1>3, <1>4, FS_Injection
<1>6. Cardinality(P \ {1}) = (IF 1 \in P THEN Cardinality(P) - 1 ELSE Cardinality(P)) /\ Cardinality(P) \in Nat /\ Cardinality(Q) \in Nat
  BY <1>3, FS_RemoveElement, FS_CardinalityType
<1>7. n = 1 /\ s[1].kind \in Asks => 1 \in P
  BY <1>1
<1> HIDE DEF P, Q
<1> QED BY <1>5, <1>6, <1>7 DEF AskCount, P, Q

---------------------------------------------------------------------------
(* Types, and that no message is sent, no round asked for, beyond the       *)
(* bounds.                                                                  *)
Due == IF replaced THEN 1 ELSE 0

Budgeted ==
    /\ has + left["changed"] <= 1 + MaxChanges
    /\ roots.seq + AskCount(input) + left["initialized"] + left["changed"] + left["update"]
          + Due <= MaxRounds
    /\ loop = "restarting" => replaced

TypeInv == TypeOK /\ Budgeted

CallRecords == [st : CallStates, key : Keys \cup {None}, session : BOOLEAN,
                round : Rounds \cup {None}, roots : Roots, cancelled : BOOLEAN]
RootRecords == [offered : BOOLEAN, changed : BOOLEAN, seq : 0..MaxRounds,
                pending : Rounds \cup {None}, round : Rounds \cup {None}, dirs : Roots]

LEMMA Numbers ==
    /\ MaxRequests \in Nat /\ MaxChanges \in Nat /\ MaxRounds \in Nat
    /\ 1 \in Versions /\ Versions \subseteq Roots /\ None \in Roots
    /\ NoRoots \in RootRecords
    /\ NoCall \in CallRecords /\ NoCall.st = "none" /\ ~NoCall.cancelled
BY McpAssumption DEF Versions, Roots, None, NoRoots, NoCall, RootRecords, CallRecords, CallStates

(* TypeOK in parts. *)
ClientOK ==
    /\ input \in Seq(Messages)
    /\ left \in [Kinds -> Nat]
    /\ sent \in 0..MaxRequests
    /\ has \in Versions
    /\ session \in {"none", "plain", "announces"}
    /\ stdin \in {"open", "eof", "error"}
    /\ inSession \subseteq Requests
    /\ since \in [Requests -> Roots]

ServerOK ==
    /\ writeErr \in BOOLEAN
    /\ loop \in {"reading", "goOn", "restarting", "closing", "ended"}
    /\ legacy \in BOOLEAN
    /\ longName \in BOOLEAN
    /\ replaced \in BOOLEAN /\ tried \in BOOLEAN /\ skipCheck \in BOOLEAN
    /\ answers \in [Requests -> Nat]
    /\ refused \subseteq Requests
    /\ lost \subseteq Requests
    /\ forgot \in BOOLEAN

RootsOK == open \in BOOLEAN /\ roots \in RootRecords /\ toAnswer \in [Rounds -> Roots]

CallsOK == calls \in [Requests -> CallRecords] /\ Cardinality(InFlight) <= MaxInFlight

LEMMA Parts == TypeOK <=> ClientOK /\ ServerOK /\ RootsOK /\ CallsOK
BY DEF TypeOK, ClientOK, ServerOK, RootsOK, CallsOK, CallRecords, RootRecords

LEMMA PartsNext == ClientOK' /\ ServerOK' /\ RootsOK' /\ CallsOK' => TypeOK'
BY DEF TypeOK, ClientOK, ServerOK, RootsOK, CallsOK, CallRecords, RootRecords

LEMMA SameServer == ServerOK /\ UNCHANGED <<server, replaced>> => ServerOK'
BY DEF ServerOK, server, rest

LEMMA SameCalls == CallsOK /\ calls' = calls => CallsOK'
BY DEF CallsOK, InFlight

LEMMA SameRoots == RootsOK /\ UNCHANGED <<open, roots, toAnswer>> => RootsOK'
BY DEF RootsOK

LEMMA DueValue == (Due = 0 \/ Due = 1) /\ (replaced' = replaced => Due' = Due)
BY DEF Due

LEMMA InitTyped == Init => TypeInv
<1> SUFFICES ASSUME Init PROVE TypeInv
  OBVIOUS
<1>1. /\ left \in [Kinds -> Nat] /\ left["changed"] <= MaxChanges
      /\ left["initialized"] + left["changed"] + left["update"] <= MaxRounds
  BY McpAssumption DEF Init
<1>2. CallsOK
  <2>1. calls \in [Requests -> CallRecords] /\ \A r \in Requests : calls[r].st = "none"
    BY Numbers DEF Init
  <2>2. InFlight = {}
    BY <2>1 DEF InFlight
  <2> QED BY <2>1, <2>2, FS_EmptySet, McpAssumption DEF CallsOK
<1>3. AskCount(input) = 0 /\ input \in Seq(Messages)
  <2>1. input = <<>> /\ Len(input) = 0 /\ input \in Seq(Messages)
    BY EmptySeq DEF Init
  <2>2. {i \in 1..Len(input) : input[i].kind \in Asks} = {}
    BY <2>1
  <2> QED BY <2>1, <2>2, FS_EmptySet DEF AskCount
<1>4. ClientOK /\ ServerOK /\ RootsOK
  <2>1. sent \in 0..MaxRequests /\ has \in Versions /\ since \in [Requests -> Roots]
    BY Numbers DEF Init
  <2>2. ClientOK
    BY <1>1, <1>3, <2>1 DEF Init, ClientOK
  <2>3. ServerOK
    BY DEF Init, ServerOK
  <2>4. RootsOK
    BY Numbers DEF Init, RootsOK
  <2> QED BY <2>2, <2>3, <2>4
<1>5. Budgeted
  <2>1. /\ has = 1 /\ roots.seq = 0 /\ Due = 0
        /\ left["initialized"] \in Nat /\ left["changed"] \in Nat /\ left["update"] \in Nat
    BY <1>1 DEF Init, NoRoots, Kinds, Due
  <2>2. AskCount(input) = 0 /\ loop = "reading"
    BY <1>3 DEF Init
  <2> QED BY <1>1, <2>1, <2>2, Numbers DEF Budgeted
<1> QED BY <1>2, <1>4, <1>5, Parts DEF TypeInv

LEMMA SpendsOne ==
    ASSUME TypeOK, NEW kind \in Kinds, Spends(kind)
    PROVE  /\ left' \in [Kinds -> Nat] /\ left[kind] \in Nat /\ left[kind] > 0 /\ left'[kind] = left[kind] - 1
           /\ \A k \in Kinds \ {kind} : left'[k] = left[k]
BY DEF TypeOK, Spends

(* A step that leaves the server alone. *)
LEMMA Same ==
    ASSUME TypeOK, ClientOK', UNCHANGED <<server, replaced, toAnswer>>
    PROVE  TypeOK'
<1>1. UNCHANGED <<calls, open, roots, toAnswer>>
  BY DEF server
<1>2. ServerOK' /\ CallsOK' /\ RootsOK'
  BY <1>1, Parts, SameServer, SameCalls, SameRoots
<1> QED BY <1>2, PartsNext

(* A message of the client's that asks for roots is paid for. *)
LEMMA ClientTyped ==
    ASSUME TypeInv, Client
    PROVE  TypeInv'
<1> USE DEF TypeInv
<1>1. ASSUME NEW m \in Messages, Writes(m), NEW kind \in Kinds, Spends(kind),
             m.kind \in Asks => kind = m.kind, kind \in Asks => m.kind = kind,
             has' = IF kind = "changed" THEN has + 1 ELSE has,
             roots' = roots, replaced' = replaced, loop' = loop
      PROVE  input' \in Seq(Messages) /\ left' \in [Kinds -> Nat] /\ has' \in Versions /\ Budgeted'
  <2>1. input' \in Seq(Messages) /\ AskCount(input') = AskCount(input) + (IF m.kind \in Asks THEN 1 ELSE 0)
    BY <1>1, WritesOne DEF Writes, TypeOK
  <2>2. AskCount(input) \in Nat
    BY Places DEF TypeOK
  <2>3. /\ left' \in [Kinds -> Nat] /\ left \in [Kinds -> Nat] /\ left[kind] > 0 /\ left'[kind] = left[kind] - 1
        /\ \A k \in Kinds \ {kind} : left'[k] = left[k]
    BY <1>1, SpendsOne DEF TypeOK
  <2>4. /\ has \in Nat /\ has >= 1 /\ roots.seq \in Nat /\ MaxRounds \in Nat /\ MaxChanges \in Nat
        /\ Due \in Nat /\ Due' = Due /\ roots'.seq = roots.seq
    BY <1>1, Numbers, DueValue DEF TypeOK, Versions
  <2>5. /\ left["changed"] \in Nat /\ left["initialized"] \in Nat /\ left["update"] \in Nat
        /\ left'["changed"] \in Nat /\ left'["initialized"] \in Nat /\ left'["update"] \in Nat
    BY <2>3 DEF Kinds
  <2>9. AskCount(input') \in Nat
    BY <2>1, Places
  <2>6. CASE kind = "changed"
    <3>1. left'["changed"] = left["changed"] - 1 /\ left'["initialized"] = left["initialized"]
          /\ left'["update"] = left["update"] /\ AskCount(input') = AskCount(input) + 1
      BY <1>1, <2>1, <2>3, <2>6 DEF Kinds, Asks
    <3>2. has' = has + 1
      BY <1>1, <2>6 DEF Asks
    <3>3. has' + left'["changed"] <= 1 + MaxChanges /\ has' \in Versions
      BY <2>4, <2>5, <3>1, <3>2 DEF Budgeted, Versions
    <3>4. roots'.seq + AskCount(input') + left'["initialized"] + left'["changed"] + left'["update"]
             + Due' <= MaxRounds
      BY <2>2, <2>4, <2>5, <2>9, <3>1 DEF Budgeted
    <3>5. Budgeted'
      BY <1>1, <3>3, <3>4 DEF Budgeted
    <3> QED BY <2>1, <2>3, <3>3, <3>5
  <2>7. CASE kind = "initialized"
    <3>1. left'["initialized"] = left["initialized"] - 1 /\ left'["changed"] = left["changed"]
          /\ left'["update"] = left["update"] /\ AskCount(input') = AskCount(input) + 1
      BY <1>1, <2>1, <2>3, <2>7 DEF Kinds, Asks
    <3>2. has' = has
      BY <1>1, <2>7 DEF Asks
    <3>3. has' + left'["changed"] <= 1 + MaxChanges /\ has' \in Versions
      BY <2>4, <2>5, <3>1, <3>2 DEF Budgeted, Versions
    <3>4. roots'.seq + AskCount(input') + left'["initialized"] + left'["changed"] + left'["update"]
             + Due' <= MaxRounds
      BY <2>2, <2>4, <2>5, <2>9, <3>1 DEF Budgeted
    <3>5. Budgeted'
      BY <1>1, <3>3, <3>4 DEF Budgeted
    <3> QED BY <2>1, <2>3, <3>3, <3>5
  <2>8. CASE kind \notin Asks
    <3>1. left'["initialized"] = left["initialized"] /\ left'["changed"] = left["changed"]
          /\ left'["update"] <= left["update"] /\ AskCount(input') = AskCount(input)
      BY SMTT(30), <1>1, <2>1, <2>2, <2>3, <2>8 DEF Kinds, Asks
    <3>2. has' = has
      BY <1>1, <2>8 DEF Asks
    <3>3. has' + left'["changed"] <= 1 + MaxChanges /\ has' \in Versions
      BY <2>4, <2>5, <3>1, <3>2 DEF Budgeted, Versions
    <3>4. roots'.seq + AskCount(input') + left'["initialized"] + left'["changed"] + left'["update"]
             + Due' <= MaxRounds
      BY <2>2, <2>4, <2>5, <2>9, <3>1 DEF Budgeted
    <3>5. Budgeted'
      BY <1>1, <3>3, <3>4 DEF Budgeted
    <3> QED BY <2>1, <2>3, <3>3, <3>5
  <2> QED BY <2>6, <2>7, <2>8 DEF Asks
<1>2. ASSUME NEW hello \in Hellos, SendInitialize(hello)
      PROVE  TypeInv'
  <2>1. sent' \in Requests /\ sent' \in 0..MaxRequests
    BY <1>2, Numbers DEF SendInitialize, TypeOK, Requests
  <2>2. input' \in Seq(Messages) /\ left' \in [Kinds -> Nat] /\ has' \in Versions /\ Budgeted'
    BY <1>1, <1>2, <2>1, Written DEF SendInitialize, server, rest, Kinds, Asks
  <2>3. ClientOK' /\ UNCHANGED <<server, replaced, toAnswer>>
    BY <1>2, <2>1, <2>2, Parts DEF SendInitialize, server, rest, ClientOK
  <2> QED BY <2>2, <2>3, Same
<1>3. ASSUME NEW r \in Requests, NEW d \in BOOLEAN, Sent(r, d)
      PROVE  inSession' \subseteq Requests /\ since' \in [Requests -> Roots]
  BY <1>3, Numbers DEF Sent, TypeOK
<1>4. ASSUME NEW d \in BOOLEAN, SendQuery(d) \/ \E key \in Keys : SendCall(key, d)
      PROVE  TypeInv'
  <2>1. sent' \in Requests /\ sent' \in 0..MaxRequests /\ Sent(sent', d)
    <3>1. sent < MaxRequests /\ sent' = sent + 1 /\ Sent(sent', d)
      BY <1>4 DEF SendCall, SendQuery
    <3> QED BY <3>1, Numbers DEF TypeOK, Requests
  <2>2. inSession' \subseteq Requests /\ since' \in [Requests -> Roots]
    BY <1>3, <2>1
  <2>3. input' \in Seq(Messages) /\ left' \in [Kinds -> Nat] /\ has' \in Versions /\ Budgeted'
    BY <1>1, <1>4, <2>1, Written DEF SendCall, SendQuery, server, rest, Kinds, Asks
  <2>4. ClientOK' /\ UNCHANGED <<server, replaced, toAnswer>>
    BY <1>4, <2>1, <2>2, <2>3, Parts DEF SendCall, SendQuery, server, rest, ClientOK
  <2> QED BY <2>3, <2>4, Same
<1>5. ASSUME SendInitialized \/ ChangeRoots \/ \E key \in Keys : SendCancelled(key)
      PROVE  TypeInv'
  <2>1. input' \in Seq(Messages) /\ left' \in [Kinds -> Nat] /\ has' \in Versions /\ Budgeted'
    BY <1>1, <1>5, Written DEF SendInitialized, ChangeRoots, SendCancelled, server, rest, Kinds, Asks
  <2>2. ClientOK' /\ UNCHANGED <<server, replaced, toAnswer>>
    BY <1>5, <2>1, Parts DEF SendInitialized, ChangeRoots, SendCancelled, server, rest, ClientOK
  <2> QED BY <2>1, <2>2, Same
<1>6. ASSUME NEW id \in Rounds, SendReply(id)
      PROVE  TypeInv'
  <2>1. toAnswer[id] \in Versions
    BY <1>6 DEF SendReply, TypeOK, Roots
  <2>2. [kind |-> "reply", id |-> id, roots |-> toAnswer[id]] \in Messages
    BY <2>1, Written
  <2>3. input' \in Seq(Messages) /\ AskCount(input') = AskCount(input) /\ AskCount(input) \in Nat
    <3>1. input' = Append(input, [kind |-> "reply", id |-> id, roots |-> toAnswer[id]]) /\ input \in Seq(Messages)
      BY <1>6 DEF SendReply, Writes, TypeOK
    <3> DEFINE m == [kind |-> "reply", id |-> id, roots |-> toAnswer[id]]
    <3>2. m.kind \notin Asks
      BY DEF Asks
    <3> HIDE DEF m
    <3>3. m \in Messages /\ input' = Append(input, m)
      BY <2>2, <3>1 DEF m
    <3>4. AskCount(Append(input, m)) = AskCount(input) + 0 /\ Append(input, m) \in Seq(Messages)
          /\ AskCount(input) \in Nat
      BY <3>1, <3>2, <3>3, WritesOne, Places
    <3> QED BY <3>3, <3>4
  <2>4. Budgeted'
    BY <1>6, <2>3, DueValue DEF SendReply, Budgeted, server, rest
  <2>5. ClientOK' /\ UNCHANGED <<server, replaced>> /\ toAnswer' \in [Rounds -> Roots]
    BY <1>6, <2>3, Parts, Numbers DEF SendReply, server, rest, ClientOK, RootsOK
  <2>6. RootsOK'
    BY <2>5, Parts DEF RootsOK, server
  <2>7. calls' = calls
    BY <2>5 DEF server
  <2>8. ServerOK' /\ CallsOK'
    BY <2>5, <2>7, Parts, SameServer, SameCalls
  <2> QED BY <2>4, <2>5, <2>6, <2>8, PartsNext
<1>7. ASSUME CloseStdin
      PROVE  TypeInv'
  <2>1. ClientOK' /\ UNCHANGED <<server, replaced, toAnswer>>
    BY <1>7, Parts DEF CloseStdin, server, rest, ClientOK
  <2>2. Budgeted'
    BY <1>7, DueValue DEF CloseStdin, Budgeted, server, rest
  <2> QED BY <2>1, <2>2, Same
<1> QED BY <1>2, <1>4, <1>5, <1>6, <1>7 DEF Client

(* What the handlers do to the types. *)
LEMMA Answered ==
    ASSUME TypeOK, NEW r \in Requests, NEW ok \in BOOLEAN, Answer(r, ok)
    PROVE  writeErr' \in BOOLEAN /\ answers' \in [Requests -> Nat]
BY DEF Answer, Delivers, TypeOK

LEMMA Asked ==
    ASSUME TypeOK, NEW r \in RootRecords, r.seq + 1 <= MaxRounds, NEW ok \in BOOLEAN, AskRoots(r, ok)
    PROVE  RootsOK' /\ roots'.seq = r.seq + 1 /\ writeErr' \in BOOLEAN
<1>1. r.seq \in Nat /\ r.seq + 1 \in Rounds /\ r.seq + 1 \in 0..MaxRounds
  BY Numbers DEF RootRecords, Rounds
<1>2. roots' \in RootRecords /\ roots'.seq = r.seq + 1
  BY <1>1, Numbers DEF AskRoots, RootRecords
<1>3. toAnswer' \in [Rounds -> Roots]
  BY <1>1, Numbers DEF AskRoots, TypeOK
<1> QED BY <1>2, <1>3 DEF AskRoots, Delivers, RootsOK

LEMMA FewCalls ==
    /\ IsFiniteSet(Requests) /\ MaxInFlight \in Nat
    /\ IsFiniteSet(InFlight) /\ Cardinality(InFlight) \in Nat
<1>1. IsFiniteSet(Requests) /\ MaxInFlight \in Nat
  BY McpAssumption, FS_Interval DEF Requests
<1>2. IsFiniteSet(InFlight)
  BY <1>1, FS_Subset DEF InFlight
<1> QED BY <1>1, <1>2, FS_CardinalityType

LEMMA FewerCalls ==
    ASSUME CallsOK, calls' \in [Requests -> CallRecords],
           \A r \in Requests : r \in InFlight' => r \in InFlight
    PROVE  CallsOK'
<1>1. InFlight' \subseteq InFlight
  BY DEF InFlight
<1>2. IsFiniteSet(InFlight') /\ Cardinality(InFlight') <= Cardinality(InFlight) /\ Cardinality(InFlight') \in Nat
  BY <1>1, FewCalls, FS_Subset, FS_CardinalityType
<1> QED BY <1>2, FewCalls DEF CallsOK

LEMMA OneMoreCall ==
    ASSUME CallsOK, calls' \in [Requests -> CallRecords], NEW r \in Requests,
           \A q \in Requests : q \in InFlight' => q \in InFlight \/ q = r,
           Cardinality(InFlight) < MaxInFlight
    PROVE  CallsOK'
<1>1. InFlight' \subseteq InFlight \cup {r}
  BY DEF InFlight
<1>2. IsFiniteSet(InFlight \cup {r}) /\ Cardinality(InFlight \cup {r}) <= Cardinality(InFlight) + 1
  <2>1. IsFiniteSet(InFlight) /\ Cardinality(InFlight) \in Nat
    BY FewCalls
  <2>2. /\ IsFiniteSet(InFlight \cup {r})
        /\ Cardinality(InFlight \cup {r}) = IF r \in InFlight THEN Cardinality(InFlight)
                                            ELSE Cardinality(InFlight) + 1
    BY <2>1, FS_AddElement
  <2> QED BY <2>1, <2>2
<1>3. IsFiniteSet(InFlight') /\ Cardinality(InFlight') <= Cardinality(InFlight \cup {r})
      /\ Cardinality(InFlight') \in Nat /\ Cardinality(InFlight \cup {r}) \in Nat
  BY <1>1, <1>2, FS_Subset, FS_CardinalityType
<1> QED BY <1>2, <1>3, FewCalls DEF CallsOK

(* Reading one message. *)
LEMMA Reads ==
    ASSUME TypeInv, NEW kind, Takes(kind)
    PROVE  /\ Len(input) \in Nat \ {0} /\ Head(input) = input[1] /\ input[1] \in Messages
           /\ input[1].kind = kind
           /\ Dropped(input', input, 1) /\ input' \in Seq(Messages)
           /\ AskCount(input) \in Nat /\ AskCount(input') \in Nat
           /\ AskCount(input') <= AskCount(input)
           /\ kind \in Asks => AskCount(input') + 1 <= AskCount(input)
           /\ loop' = "reading" /\ skipCheck' \in BOOLEAN
<1>1. input \in Seq(Messages) /\ input # <<>> /\ input' = Tail(input) /\ Head(input).kind = kind
  BY DEF TypeInv, TypeOK, Takes
<1>2. Len(input) \in Nat \ {0} /\ Head(input) = input[1] /\ input[1] \in Messages /\ Dropped(input', input, 1)
  BY <1>1, TakesOne
<1>3. 1 \in 1..Len(input) /\ input' \in Seq(Messages)
  BY <1>2 DEF Dropped
<1>4. loop' = "reading" /\ skipCheck' \in BOOLEAN
  BY DEF Takes, TypeInv, TypeOK
<1>5. AskCount(input') <= AskCount(input)
      /\ (input[1].kind \in Asks => AskCount(input') + 1 <= AskCount(input))
  BY <1>1, <1>2, <1>3, DroppedCount
<1>6. AskCount(input) \in Nat /\ AskCount(input') \in Nat
  BY <1>1, <1>3, Places
<1> QED BY <1>1, <1>2, <1>3, <1>4, <1>5, <1>6

LEMMA Handled ==
    ASSUME TypeInv, NEW kind, Takes(kind), UNCHANGED line,
           RootsOK', CallsOK',
           roots'.seq = roots.seq \/ (kind \in Asks /\ roots'.seq = roots.seq + 1),
           writeErr' \in BOOLEAN, answers' \in [Requests -> Nat], refused' \subseteq Requests,
           legacy' \in BOOLEAN, longName' \in BOOLEAN
    PROVE  TypeInv'
<1>1. ClientOK'
  BY Reads, Parts DEF TypeInv, ClientOK, line
<1>2. ServerOK'
  BY Reads, Parts DEF TypeInv, ServerOK, line
<1>3. /\ roots.seq \in Nat /\ left["initialized"] \in Nat /\ left["changed"] \in Nat /\ left["update"] \in Nat
      /\ left' = left /\ has' = has /\ Due \in Nat /\ Due' = Due /\ MaxRounds \in Nat
  BY DueValue, Numbers DEF TypeInv, TypeOK, line, Kinds
<1>4. roots'.seq + AskCount(input') <= roots.seq + AskCount(input)
  BY <1>3, Reads
<1>5. AskCount(input) \in Nat /\ AskCount(input') \in Nat /\ roots'.seq \in Nat /\ loop' = "reading"
  BY <1>3, Reads
<1>6. Budgeted'
  <2>1. has' + left'["changed"] <= 1 + MaxChanges
    BY <1>3 DEF TypeInv, Budgeted
  <2>2. roots'.seq + AskCount(input') + left'["initialized"] + left'["changed"] + left'["update"]
           + Due' <= MaxRounds
    BY <1>3, <1>4, <1>5 DEF TypeInv, Budgeted
  <2> QED BY <1>5, <2>1, <2>2 DEF Budgeted
<1>7. TypeOK'
  BY <1>1, <1>2, PartsNext
<1> QED BY <1>6, <1>7 DEF TypeInv

LEMMA HandleTyped ==
    ASSUME TypeInv, Handle
    PROVE  TypeInv'
<1>0. /\ TypeOK /\ RootsOK /\ CallsOK /\ roots \in RootRecords /\ calls \in [Requests -> CallRecords]
      /\ legacy \in BOOLEAN /\ longName \in BOOLEAN /\ writeErr \in BOOLEAN
      /\ answers \in [Requests -> Nat] /\ refused \subseteq Requests /\ open \in BOOLEAN
      /\ toAnswer \in [Rounds -> Roots]
  BY Parts DEF TypeInv, TypeOK, RootsOK, CallsOK
<1>1. Outcomes \subseteq BOOLEAN
  BY DEF Outcomes
<1>2. ASSUME Initialize PROVE TypeInv'
  <2>1. Takes("initialize") /\ UNCHANGED line /\ legacy' = TRUE
    BY <1>2 DEF Initialize
  <2>2. input[1] \in Messages /\ input[1].kind = "initialize" /\ Head(input) = input[1]
    BY <2>1, Reads
  <2>3. input[1].req \in Requests /\ input[1].hello.long \in BOOLEAN /\ input[1].hello.offered \in BOOLEAN
        /\ input[1].hello.changed \in BOOLEAN
    BY <2>2, Fields
  <2>4. longName' \in BOOLEAN /\ writeErr' \in BOOLEAN /\ answers' \in [Requests -> Nat]
    BY <1>0, <1>1, <1>2, <2>2, <2>3, Answered DEF Initialize
  <2>5. roots' \in RootRecords /\ roots'.seq = roots.seq
    BY <1>0, <1>2, <2>2, <2>3, Numbers DEF Initialize, RootRecords, NoRoots
  <2>6. RootsOK' /\ CallsOK' /\ refused' = refused
    BY <1>0, <1>2, <2>5, SameCalls DEF Initialize, RootsOK
  <2> QED BY <1>0, <2>1, <2>4, <2>5, <2>6, Handled
<1>3. ASSUME NEW changed \in BOOLEAN, RequestRoots(changed) PROVE TypeInv'
  <2> DEFINE kind == IF changed THEN "changed" ELSE "initialized"
  <2>1. Takes(kind) /\ UNCHANGED line /\ kind \in Asks
        /\ UNCHANGED <<legacy, longName, calls, answers, refused>>
    BY <1>3 DEF RequestRoots, Asks
  <2> HIDE DEF kind
  <2>2. CASE UNCHANGED <<roots, open, toAnswer, writeErr>>
    <3>1. RootsOK' /\ CallsOK' /\ roots'.seq = roots.seq
      BY <1>0, <2>1, <2>2, SameCalls, SameRoots
    <3> QED BY <1>0, <2>1, <2>2, <3>1, Handled
  <2>3. ASSUME NEW ok \in Outcomes, AskRoots(roots, ok) PROVE TypeInv'
    <3>1. roots.seq + 1 <= MaxRounds
      <4>1. AskCount(input) \in Nat /\ AskCount(input') \in Nat /\ AskCount(input') + 1 <= AskCount(input)
        BY <2>1, Reads
      <4>2. /\ roots.seq \in Nat /\ left["initialized"] \in Nat /\ left["changed"] \in Nat
            /\ left["update"] \in Nat /\ Due \in Nat /\ MaxRounds \in Nat
        BY <1>0, DueValue, Numbers DEF TypeOK, Kinds
      <4> QED BY <4>1, <4>2 DEF TypeInv, Budgeted
    <3>2. RootsOK' /\ roots'.seq = roots.seq + 1 /\ writeErr' \in BOOLEAN
      BY <1>0, <1>1, <2>3, <3>1, Asked
    <3>3. CallsOK'
      BY <1>0, <2>1, SameCalls
    <3> QED BY <1>0, <2>1, <3>2, <3>3, Handled
  <2> QED BY <1>3, <2>2, <2>3 DEF RequestRoots
<1>4. ASSUME ReceiveReply PROVE TypeInv'
  <2>1. Takes("reply") /\ UNCHANGED line /\ UNCHANGED <<toAnswer, writeErr, legacy, longName, calls, answers, refused>>
    BY <1>4 DEF ReceiveReply
  <2>2. Head(input) \in Messages /\ Head(input).kind = "reply"
    BY <2>1, Reads
  <2>3. RootDirs(Head(input).roots) \in Roots
    BY <2>2, Fields, Numbers DEF RootDirs
  <2>4. roots' \in RootRecords /\ roots'.seq = roots.seq /\ open' \in BOOLEAN
    <3>1. CASE UNCHANGED <<roots, open>>
      BY <1>0, <3>1
    <3>2. CASE roots' = [roots EXCEPT !.pending = None, !.dirs = RootDirs(Head(input).roots)] /\ open' = FALSE
      BY <1>0, <2>3, <3>2 DEF RootRecords
    <3> QED BY <1>4, <3>1, <3>2 DEF ReceiveReply
  <2>5. RootsOK' /\ CallsOK'
    BY <1>0, <2>1, <2>4, SameCalls DEF RootsOK
  <2> QED BY <1>0, <2>1, <2>4, <2>5, Handled
<1>5. ASSUME Cancel PROVE TypeInv'
  <2>1. Takes("cancelled") /\ UNCHANGED line
        /\ UNCHANGED <<toAnswer, writeErr, legacy, longName, roots, open, answers, refused>>
    BY <1>5 DEF Cancel
  <2>2. /\ calls' \in [Requests -> CallRecords]
        /\ \A r \in Requests : calls'[r].st = calls[r].st
    BY ZenonT(60), <1>0, <1>5 DEF Cancel, CallRecords
  <2>3. CallsOK' /\ RootsOK' /\ roots'.seq = roots.seq
    <3>1. \A r \in Requests : r \in InFlight' => r \in InFlight
      BY <2>2 DEF InFlight
    <3> QED BY <1>0, <2>1, <2>2, <3>1, FewerCalls, SameRoots
  <2> QED BY <1>0, <2>1, <2>3, Handled
<1>6. ASSUME NEW m, m = Head(input), m.req \in Requests, Refuses(m) PROVE refused' \subseteq Requests
  BY <1>0, <1>6 DEF Refuses
<1>7. ASSUME AnswerQuery \/ RefuseCall PROVE TypeInv'
  <2>1. /\ Takes("query") \/ Takes("call") 
        /\ UNCHANGED line /\ UNCHANGED <<toAnswer, legacy, longName, roots, open, calls>>
        /\ Refuses(Head(input)) /\ \E ok \in Outcomes : Answer(Head(input).req, ok)
    BY <1>7 DEF AnswerQuery, RefuseCall
  <2>2. Head(input) \in Messages /\ Head(input).kind \in RequestKinds
    BY <2>1, Reads DEF RequestKinds
  <2>3. Head(input).req \in Requests
    BY <2>2, Fields
  <2>4. refused' \subseteq Requests /\ writeErr' \in BOOLEAN /\ answers' \in [Requests -> Nat]
    BY <1>0, <1>1, <1>6, <2>1, <2>3, Answered
  <2>5. RootsOK' /\ CallsOK' /\ roots'.seq = roots.seq
    BY <1>0, <2>1, SameCalls, SameRoots
  <2> QED BY <1>0, <2>1, <2>4, <2>5, Handled
<1>8. ASSUME StartCall PROVE TypeInv'
  <2> DEFINE m == Head(input)
  <2>1. Takes("call") /\ UNCHANGED line
        /\ UNCHANGED <<toAnswer, writeErr, legacy, longName, roots, open, answers, refused>>
        /\ Cardinality(InFlight) < MaxInFlight
        /\ calls' = [calls EXCEPT ![m.req] = [NoCall EXCEPT !.st = "begun", !.key = m.key,
                                                           !.session = ~m.declares]]
    BY <1>8 DEF StartCall
  <2>2. m \in Messages /\ m.kind = "call"
    BY <2>1, Reads
  <2>3. m.req \in Requests /\ m.key \in Keys /\ m.declares \in BOOLEAN
    BY <2>2, Fields
  <2> HIDE DEF m
  <2>4. /\ calls' \in [Requests -> CallRecords]
        /\ \A q \in Requests \ {m.req} : calls'[q] = calls[q]
    <3>1. [NoCall EXCEPT !.st = "begun", !.key = m.key, !.session = ~m.declares] \in CallRecords
      BY <2>3, Numbers DEF CallRecords, CallStates
    <3> QED BY <1>0, <2>1, <2>3, <3>1
  <2>5. \A q \in Requests : q \in InFlight' => q \in InFlight \/ q = m.req
    BY <2>4 DEF InFlight
  <2>6. RootsOK' /\ CallsOK' /\ roots'.seq = roots.seq
    BY <1>0, <2>1, <2>3, <2>4, <2>5, OneMoreCall, SameRoots
  <2> QED BY <1>0, <2>1, <2>6, Handled
<1> QED BY <1>2, <1>3, <1>4, <1>5, <1>7, <1>8 DEF Handle

(* A step that spends nothing and reads nothing. *)
LEMMA Aside ==
    ASSUME TypeInv, TypeOK', UNCHANGED <<has, left, replaced, input>>, roots'.seq = roots.seq,
           loop' = loop \/ loop' # "restarting" \/ replaced
    PROVE  TypeInv'
BY DueValue DEF TypeInv, Budgeted

LEMMA CallTyped ==
    ASSUME TypeInv, NEW r \in Requests, Call(r)
    PROVE  TypeInv'
<1>0. /\ TypeOK /\ ClientOK /\ ServerOK /\ RootsOK /\ CallsOK /\ roots \in RootRecords
      /\ calls \in [Requests -> CallRecords] /\ calls[r] \in CallRecords
      /\ roots.dirs \in Roots /\ roots.round \in Rounds \cup {None}
  BY Parts DEF TypeInv, RootsOK, CallsOK, RootRecords
<1>1. UNCHANGED call /\ writeErr' \in BOOLEAN /\ answers' \in [Requests -> Nat]
  <2>1. Outcomes \subseteq BOOLEAN
    BY DEF Outcomes
  <2>2. UNCHANGED <<writeErr, answers>> \/ \E ok \in Outcomes : Answer(r, ok)
    BY DEF Call, ReadRound, WaitEnds, Respond, LogToolCall
  <2>3. UNCHANGED call
    BY DEF Call, ReadRound, WaitEnds, Respond, LogToolCall
  <2> QED BY <1>0, <2>1, <2>2, <2>3, Answered DEF ServerOK
<1>2. \E c \in CallRecords : calls' = [calls EXCEPT ![r] = c]
                             /\ calls[r].st \in {"begun", "waiting", "working", "logging"}
                             /\ c.st \in {"waiting", "working", "logging", "over"}
                             /\ (calls[r].st = "logging" => c.st = "over")
  <2>1. CASE ReadRound(r)
    <3>1. calls[r].st = "begun"
          /\ \/ calls' = [calls EXCEPT ![r] = [calls[r] EXCEPT !.st = "waiting", !.round = roots.round]]
             \/ calls' = [calls EXCEPT ![r] = [calls[r] EXCEPT !.st = "working"]]
      BY <1>0, <2>1 DEF ReadRound
    <3>2. /\ [calls[r] EXCEPT !.st = "waiting", !.round = roots.round] \in CallRecords
          /\ [calls[r] EXCEPT !.st = "waiting", !.round = roots.round].st = "waiting"
          /\ [calls[r] EXCEPT !.st = "working"] \in CallRecords
          /\ [calls[r] EXCEPT !.st = "working"].st = "working"
      BY <1>0 DEF CallRecords, CallStates
    <3> QED BY <3>1, <3>2
  <2>2. CASE WaitEnds(r)
    <3>1. calls[r].st = "waiting"
          /\ \/ calls' = [calls EXCEPT ![r] = [calls[r] EXCEPT !.st = "working", !.roots = roots.dirs]]
             \/ calls' = [calls EXCEPT ![r] = [calls[r] EXCEPT !.st = "working"]]
      BY <1>0, <2>2 DEF WaitEnds
    <3>2. /\ [calls[r] EXCEPT !.st = "working", !.roots = roots.dirs] \in CallRecords
          /\ [calls[r] EXCEPT !.st = "working", !.roots = roots.dirs].st = "working"
          /\ [calls[r] EXCEPT !.st = "working"] \in CallRecords
          /\ [calls[r] EXCEPT !.st = "working"].st = "working"
      BY <1>0 DEF CallRecords, CallStates
    <3> QED BY <3>1, <3>2
  <2>3. CASE Respond(r)
    <3>1. calls[r].st = "working" /\ calls' = [calls EXCEPT ![r] = [calls[r] EXCEPT !.st = "logging"]]
      BY <1>0, <2>3 DEF Respond
    <3>2. [calls[r] EXCEPT !.st = "logging"] \in CallRecords /\ [calls[r] EXCEPT !.st = "logging"].st = "logging"
      BY <1>0 DEF CallRecords, CallStates
    <3> QED BY <3>1, <3>2
  <2>4. CASE LogToolCall(r)
    <3> DEFINE c == [NoCall EXCEPT !.st = "over", !.cancelled = calls[r].cancelled]
    <3>1. calls[r].st = "logging" /\ calls' = [calls EXCEPT ![r] = c]
      BY <2>4 DEF LogToolCall
    <3>2. c \in CallRecords /\ c.st = "over"
      BY <1>0, Numbers DEF CallRecords, CallStates
    <3> HIDE DEF c
    <3> QED BY <3>1, <3>2
  <2> QED BY <2>1, <2>2, <2>3, <2>4 DEF Call
<1>3. CallsOK'
  <2>1. PICK c \in CallRecords : /\ calls' = [calls EXCEPT ![r] = c]
                                 /\ calls[r].st \in {"begun", "waiting", "working", "logging"}
                                 /\ c.st \in {"waiting", "working", "logging", "over"}
                                 /\ (calls[r].st = "logging" => c.st = "over")
    BY <1>2
  <2>2. calls' \in [Requests -> CallRecords] /\ calls'[r] = c /\ \A q \in Requests \ {r} : calls'[q] = calls[q]
    BY <1>0, <2>1
  <2>3. \A q \in Requests : q \in InFlight' => q \in InFlight
    BY <2>1, <2>2 DEF InFlight
  <2> QED BY <1>0, <2>2, <2>3, FewerCalls
<1>4. ClientOK' /\ ServerOK' /\ RootsOK'
  BY <1>0, <1>1 DEF ClientOK, ServerOK, RootsOK, call, rest
<1> QED BY <1>1, <1>3, <1>4, PartsNext, Aside DEF call, rest

LEMMA RestartTyped ==
    ASSUME TypeInv, Restart
    PROVE  TypeInv'
<1>0. /\ TypeOK /\ ClientOK /\ ServerOK /\ RootsOK /\ CallsOK /\ roots \in RootRecords
      /\ input \in Seq(Messages) /\ loop = "restarting" /\ replaced
  BY Parts DEF TypeInv, RootsOK, Restart, Executes, Budgeted, TypeOK
<1>1. /\ UNCHANGED <<left, sent, has, session, stdin, calls, answers, refused, inSession, since>>
      /\ replaced' = FALSE /\ tried' = FALSE /\ loop' = "reading" /\ ~writeErr
  BY DEF Restart, Executes
<1>2. /\ roots.seq \in Nat /\ left["initialized"] \in Nat /\ left["changed"] \in Nat /\ left["update"] \in Nat
      /\ Due = 1 /\ Due' = 0 /\ MaxRounds \in Nat /\ AskCount(input) \in Nat
      /\ has + left["changed"] <= 1 + MaxChanges
      /\ roots.seq + AskCount(input) + left["initialized"] + left["changed"] + left["update"] + 1 <= MaxRounds
  <2>1. AskCount(input) \in Nat
    BY <1>0, Places
  <2>2. Due = 1 /\ Due' = 0
    BY <1>0, <1>1 DEF Due
  <2> QED BY <1>0, <2>1, <2>2, Numbers DEF TypeInv, Budgeted, TypeOK, Kinds
<1>3. CallsOK'
  BY <1>0, <1>1, SameCalls
<1>4. ASSUME input' \in Seq(Messages), AskCount(input') <= AskCount(input),
             roots'.seq \in Nat, roots'.seq <= roots.seq + 1
      PROVE  ClientOK' /\ Budgeted'
  <2>1. ClientOK'
    BY <1>0, <1>1, <1>4 DEF ClientOK
  <2>2. AskCount(input') \in Nat
    BY <1>4, Places
  <2>3. roots'.seq + AskCount(input') + left'["initialized"] + left'["changed"] + left'["update"] + Due' <= MaxRounds
    <3>1. left' = left
      BY <1>1
    <3>2. roots'.seq + AskCount(input') <= roots.seq + 1 + AskCount(input)
      BY <1>2, <1>4, <2>2
    <3>3. \A a, b, c, d, e, i, j, k, n \in Nat :
             /\ a + b <= c + 1 + d /\ c + d + i + j + k + 1 <= n /\ e = 0
             => a + b + i + j + k + e <= n
      OBVIOUS
    <3>4. Due' \in Nat
      BY <1>2
    <3> QED BY <1>2, <1>4, <2>2, <3>1, <3>2, <3>3, <3>4
  <2> QED BY <1>1, <1>2, <2>1, <2>3 DEF Budgeted
<1>5. ASSUME Adopt, UNCHANGED forgot PROVE TypeInv'
  <2>1. input' = input /\ UNCHANGED <<legacy, longName, lost, forgot>> /\ skipCheck' = TRUE
    BY <1>5 DEF Adopt
  <2>2. RootsOK' /\ writeErr' \in BOOLEAN /\ roots'.seq \in Nat /\ roots'.seq <= roots.seq + 1
    <3>1. CASE UNCHANGED <<roots, open, toAnswer, writeErr>>
      BY <1>0, <1>2, <3>1, SameRoots DEF ServerOK
    <3>2. ASSUME NEW ok \in BOOLEAN, AskRoots([roots EXCEPT !.round = None], ok)
          PROVE  RootsOK' /\ writeErr' \in BOOLEAN /\ roots'.seq \in Nat /\ roots'.seq <= roots.seq + 1
      <4>1. [roots EXCEPT !.round = None] \in RootRecords /\ [roots EXCEPT !.round = None].seq = roots.seq
        BY <1>0 DEF RootRecords
      <4>2. roots.seq + 1 <= MaxRounds
        BY <1>2
      <4> DEFINE asked == [roots EXCEPT !.round = None]
      <4>3. asked \in RootRecords /\ asked.seq = roots.seq /\ AskRoots(asked, ok)
        BY <3>2, <4>1
      <4> HIDE DEF asked
      <4>4. RootsOK' /\ roots'.seq = asked.seq + 1 /\ writeErr' \in BOOLEAN
        BY <1>0, <4>2, <4>3, Asked
      <4> QED BY <1>2, <4>3, <4>4
    <3> QED BY <1>5, <3>1, <3>2 DEF Adopt
  <2>3. ClientOK' /\ Budgeted'
    BY <1>0, <1>2, <1>4, <2>1, <2>2
  <2>4. ServerOK'
    BY <1>0, <1>1, <2>1, <2>2 DEF ServerOK
  <2> QED BY <1>3, <2>2, <2>3, <2>4, PartsNext DEF TypeInv
<1>6. ASSUME Malformed PROVE TypeInv'
  <2>1. PICK n \in 1..Len(input) :
          /\ input' = SubSeq(input, n + 1, Len(input))
          /\ lost' = lost \cup {input[i].req : i \in {j \in 1..n : input[j].kind \in RequestKinds}}
    BY <1>6 DEF Malformed
  <2>2. Dropped(input', input, n) /\ input' \in Seq(Messages) /\ Len(input) \in Nat
    BY <1>0, <2>1, DropsSome DEF Dropped
  <2>3. AskCount(input') <= AskCount(input)
    BY <1>0, <2>2, DroppedCount
  <2>4. lost' \subseteq Requests
    <3>1. \A j \in 1..n : input[j] \in Messages
      BY <1>0, <2>2, ElementOfSeq
    <3>2. \A j \in 1..n : input[j].kind \in RequestKinds => input[j].req \in Requests
      BY <3>1, Fields
    <3> QED BY <1>0, <2>1, <3>2 DEF ServerOK
  <2>5. /\ UNCHANGED <<toAnswer, writeErr>> /\ skipCheck' = FALSE /\ legacy' = FALSE /\ longName' = FALSE
        /\ roots' = NoRoots /\ open' = FALSE /\ forgot' = TRUE
    BY <1>6 DEF Malformed
  <2>6. RootsOK' /\ roots'.seq = 0
    BY <1>0, <2>5, Numbers DEF RootsOK, NoRoots
  <2>7. ClientOK' /\ Budgeted'
    BY <1>2, <1>4, <2>2, <2>3, <2>6
  <2>8. ServerOK'
    BY <1>0, <1>1, <2>4, <2>5 DEF ServerOK
  <2> QED BY <1>3, <2>6, <2>7, <2>8, PartsNext DEF TypeInv
<1> QED BY <1>5, <1>6 DEF Restart

LEMMA NextTyped ==
    ASSUME TypeInv, [Next]_vars
    PROVE  TypeInv'
<1>0. /\ TypeOK /\ ClientOK /\ ServerOK /\ RootsOK /\ CallsOK /\ calls \in [Requests -> CallRecords]
  BY Parts DEF TypeInv, CallsOK
<1>1. ASSUME Update PROVE TypeInv'
  <2>1. /\ ~replaced /\ replaced' = TRUE /\ Spends("update") /\ "update" \in Kinds
        /\ UNCHANGED <<input, sent, has, session, toAnswer, stdin, writeErr, loop, legacy, longName, roots,
                       open, calls, tried, skipCheck, history>>
    BY <1>1 DEF Update, Kinds
  <2>2. /\ left' \in [Kinds -> Nat] /\ left["update"] \in Nat /\ left'["update"] = left["update"] - 1
        /\ left'["changed"] = left["changed"] /\ left'["initialized"] = left["initialized"]
        /\ left["changed"] \in Nat /\ left["initialized"] \in Nat /\ roots.seq \in Nat
    <3>1. /\ left' \in [Kinds -> Nat] /\ left["update"] \in Nat /\ left'["update"] = left["update"] - 1
          /\ \A k \in Kinds \ {"update"} : left'[k] = left[k]
      BY <1>0, <2>1, SpendsOne
    <3>2. left \in [Kinds -> Nat] /\ roots.seq \in Nat
      BY <1>0, Numbers DEF ClientOK, RootsOK, RootRecords
    <3> QED BY <3>1, <3>2 DEF Kinds
  <2>3. TypeOK'
    <3>1. ClientOK' /\ ServerOK'
      BY <1>0, <2>1, <2>2 DEF ClientOK, ServerOK, history
    <3> QED BY <1>0, <2>1, <3>1, SameCalls, SameRoots, PartsNext
  <2>4. Budgeted'
    <3>1. AskCount(input) \in Nat /\ AskCount(input') = AskCount(input) /\ Due = 0 /\ Due' = 1 /\ MaxRounds \in Nat
      BY <1>0, <2>1, Places, Numbers DEF Due, ClientOK
    <3>2. roots'.seq + AskCount(input') + left'["initialized"] + left'["changed"] + left'["update"] + Due' <= MaxRounds
      BY <2>1, <2>2, <3>1 DEF TypeInv, Budgeted
    <3> QED BY <2>1, <2>2, <3>2 DEF TypeInv, Budgeted
  <2> QED BY <2>3, <2>4 DEF TypeInv
<1>2. ASSUME EndOfInput PROVE TypeInv'
  <2>1. /\ \A r \in Requests : calls'[r] = calls[r] \/ calls'[r] = [calls[r] EXCEPT !.cancelled = TRUE]
        /\ loop' = "closing" /\ calls' \in [Requests -> CallRecords]
    BY <1>0, <1>2 DEF EndOfInput, CallRecords
  <2>2. \A r \in Requests : r \in InFlight' => r \in InFlight
    BY <1>0, <2>1 DEF InFlight, CallRecords
  <2>3. UNCHANGED <<pipes, legacy, longName, roots, open, rest, history>>
    BY <1>2 DEF EndOfInput
  <2>4. ClientOK' /\ ServerOK' /\ RootsOK' /\ CallsOK'
    BY <1>0, <2>1, <2>2, <2>3, FewerCalls DEF ClientOK, ServerOK, RootsOK, pipes, rest, history
  <2> QED BY <2>1, <2>3, <2>4, PartsNext, Aside DEF pipes, rest
<1>3. ASSUME Exit \/ BeginRestart \/ StayOn \/ RoundTimesOut PROVE TypeInv'
  <2>1. /\ UNCHANGED <<pipes, legacy, longName, roots, calls, replaced, skipCheck, history>>
        /\ tried' \in BOOLEAN /\ open' \in BOOLEAN
        /\ loop' \in {"reading", "goOn", "restarting", "closing", "ended"}
        /\ loop' = loop \/ loop' # "restarting" \/ replaced
    BY <1>0, <1>3 DEF Exit, BeginRestart, StayOn, RoundTimesOut, Restartable, ServerOK, RootsOK, rest
  <2>2. ClientOK' /\ ServerOK' /\ RootsOK' /\ CallsOK'
    BY <1>0, <2>1, SameCalls DEF ClientOK, ServerOK, RootsOK, pipes, history
  <2> QED BY <2>1, <2>2, PartsNext, Aside DEF pipes
<1>4. ASSUME UNCHANGED vars PROVE TypeInv'
  <2>1. ClientOK' /\ ServerOK' /\ RootsOK' /\ CallsOK'
    BY <1>0, <1>4, SameCalls DEF ClientOK, ServerOK, RootsOK, vars, pipes, rest, history
  <2> QED BY <1>4, <2>1, PartsNext, Aside DEF vars, pipes, rest
<1> QED BY <1>1, <1>2, <1>3, <1>4, ClientTyped, HandleTyped, RestartTyped, CallTyped DEF Next, Loop

(***************************************************************************)
(* Every behaviour has the types of TypeOK, for all bounds: no more calls  *)
(* are in flight than MaxInFlight, and the client is asked for its roots   *)
(* as often as MaxRounds allows at most, once for each of its notices and  *)
(* each restart.                                                           *)
(***************************************************************************)
THEOREM McpTyped == Spec => []TypeInv
<1>1. Init => TypeInv
  BY InitTyped
<1>2. TypeInv /\ [Next]_vars => TypeInv'
  BY NextTyped
<1> QED BY <1>1, <1>2, PTL DEF Spec

THEOREM McpTypeCorrect == Spec => []TypeOK
<1>1. TypeInv => TypeOK
  BY DEF TypeInv
<1> QED BY <1>1, McpTyped, PTL

=============================================================================
