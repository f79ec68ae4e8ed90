------------------------- MODULE InvokeLog_proofs -------------------------
(***************************************************************************)
(* That the invocation log is found intact, complete and tamper-evident    *)
(* for any number of writers, days and lines and any retention windows,    *)
(* whatever fails.                                                         *)
(***************************************************************************)
EXTENDS InvokeLog, TLAPS, WellFoundedInduction

---------------------------------------------------------------------------
(* Lemmas about the operators *)

LEMMA Least ==
    ASSUME NEW T \in SUBSET Nat, T # {}
    PROVE  \E x \in T : \A y \in T : x <= y
<1>1. PICK x \in T : \A y \in T : ~(<<y, x>> \in OpToRel(<, Nat))
  BY NatLessThanWellFounded, WFMin
<1>2. ASSUME NEW y \in T PROVE ~(y < x)
  <2>1. y \in Nat /\ x \in Nat
    OBVIOUS
  <2>2. ~(<<y, x>> \in OpToRel(<, Nat))
    BY <1>1
  <2> QED BY <2>1, <2>2 DEF OpToRel
<1> QED BY <1>2

LEMMA MinIs ==
    ASSUME NEW T \in SUBSET Nat, T # {}
    PROVE  Min(T) \in T /\ \A y \in T : Min(T) <= y
BY Least DEF Min

LEMMA MaxIs ==
    ASSUME NEW T \in SUBSET Nat, T # {}, NEW b \in Nat, \A y \in T : y <= b
    PROVE  Max(T) \in T /\ \A y \in T : y <= Max(T)
<1> DEFINE U == {n \in Nat : \A y \in T : y <= n}
<1>1. PICK u \in U : \A n \in U : u <= n
  <2>1. U \in SUBSET Nat /\ U # {}
    OBVIOUS
  <2> HIDE DEF U
  <2> QED BY <2>1, Least
<1>2. u \in T
  <2> SUFFICES ASSUME u \notin T PROVE FALSE
    OBVIOUS
  <2>1. u \in Nat /\ \A y \in T : y \in Nat /\ y < u
    OBVIOUS
  <2>2. PICK y \in T : TRUE
    OBVIOUS
  <2>3. u - 1 \in Nat /\ \A z \in T : z <= u - 1
    BY <2>1, <2>2
  <2>4. u - 1 \in U
    BY <2>3
  <2> HIDE DEF U
  <2> QED BY <1>1, <2>1, <2>4
<1>3. \E x \in T : \A y \in T : x >= y
  BY <1>2
<1> QED BY <1>3 DEF Max

LEMMA Numerals ==
    /\ Days \subseteq Nat /\ Ids \subseteq Nat \ {0} /\ MaxLines \in Nat /\ MaxDay \in Nat
    /\ Retentions \subseteq Nat /\ Genesis = 0
BY InvokeLogAssumption DEF Days, Ids, Genesis

LEMMA LineIs ==
    ASSUME NEW l \in Line
    PROVE  /\ l.id \in Ids /\ l.seq \in Ids /\ l.prev \in Ids \cup {0} /\ l.day \in Days
           /\ l.through \in Ids \cup {0} /\ l.parses \in BOOLEAN /\ l.ended \in BOOLEAN
           /\ l.id \in Nat /\ l.seq \in Nat /\ l.seq >= 1 /\ l.day \in Nat /\ l.through \in Nat
           /\ l.through <= MaxLines
<1>1. /\ l.id \in Ids /\ l.seq \in Ids /\ l.prev \in Ids \cup {0} /\ l.day \in Days
      /\ l.through \in Ids \cup {0} /\ l.parses \in BOOLEAN /\ l.ended \in BOOLEAN
  BY Numerals DEF Line
<1>2. \A n \in Ids : n \in Nat /\ n >= 1 /\ n <= MaxLines
  BY Numerals DEF Ids
<1>3. l.through \in Nat /\ l.through <= MaxLines
  <2>1. CASE l.through \in Ids
    BY <2>1, <1>2
  <2>2. CASE l.through = 0
    <3>1. 0 <= MaxLines
      BY Numerals
    <3> QED BY <2>2, <3>1
  <2> QED BY <1>1, <2>1, <2>2
<1>4. l.day \in Nat
  BY <1>1, Numerals
<1> QED BY <1>1, <1>2, <1>3, <1>4

LEMMA NoLineIs == NoLine.seq = 0 /\ NoLine.id = 0 /\ NoLine.parses
BY DEF NoLine, Genesis

LEMMA RemovedIs ==
    ASSUME NEW l \in Line \cup {NoLine}
    PROVE  l.id \in Nat /\ l.seq \in Nat /\ (l.seq # 0 => l \in Line)
BY LineIs, NoLineIs

LEMMA JobIs ==
    ASSUME NEW j \in Job
    PROVE  /\ j.now \in Days /\ j.expired \in SUBSET Days /\ j.removed \in Line \cup {NoLine}
           /\ j.todo \in Seq(Line)
BY DEF Job

(* The files up to a day end with the last line of no later day. *)
LEMMA PlaceIs ==
    ASSUME NEW s \in Seq(Line), NEW day \in Nat
    PROVE  LET n == Max({0} \cup {i \in DOMAIN s : s[i].day <= day})
           IN  /\ n \in 0..Len(s)
               /\ \A i \in 1..Len(s) : s[i].day <= day => i <= n
               /\ n # 0 => s[n].day <= day
<1> DEFINE T == {0} \cup {i \in DOMAIN s : s[i].day <= day}
<1>1. Len(s) \in Nat /\ DOMAIN s = 1..Len(s)
  OBVIOUS
<1>2. T \in SUBSET Nat /\ T # {} /\ \A i \in T : i <= Len(s)
  BY <1>1
<1> HIDE DEF T
<1>3. Max(T) \in T /\ \A i \in T : i <= Max(T)
  BY <1>1, <1>2, MaxIs
<1> QED BY <1>1, <1>3 DEF T

(* The greatest number a cut of s documents. *)
LEMMA CutIs ==
    ASSUME NEW s \in Seq(Line)
    PROVE  /\ CutThrough(s) \in Nat
           /\ \A i \in 1..Len(s) : s[i].parses => s[i].through <= CutThrough(s)
           /\ CutThrough(s) # 0 => \E i \in 1..Len(s) : s[i].parses /\ s[i].through = CutThrough(s)
<1> DEFINE T == {0} \cup {s[i].through : i \in {j \in DOMAIN s : s[j].parses}}
<1>1. Len(s) \in Nat /\ DOMAIN s = 1..Len(s) /\ \A i \in 1..Len(s) : s[i] \in Line
  OBVIOUS
<1>2. T \in SUBSET Nat /\ T # {} /\ \A t \in T : t <= MaxLines
  BY <1>1, LineIs, Numerals
<1>3. \A i \in 1..Len(s) : s[i].parses => s[i].through \in T
  BY <1>1
<1>4. \A t \in T : t # 0 => \E i \in 1..Len(s) : s[i].parses /\ s[i].through = t
  BY <1>1
<1> HIDE DEF T
<1>5. Max(T) \in T /\ \A t \in T : t <= Max(T)
  BY <1>2, MaxIs, Numerals
<1>6. CutThrough(s) = Max(T)
  BY DEF CutThrough, T
<1> QED BY <1>2, <1>3, <1>4, <1>5, <1>6

LEMMA CutBelow ==
    ASSUME NEW s \in Seq(Line), NEW n \in Nat,
           \A i \in 1..Len(s) : s[i].parses => s[i].through <= n
    PROVE  CutThrough(s) <= n
BY CutIs

LEMMA HeadIs ==
    ASSUME NEW S, NEW s \in Seq(S), Len(s) >= 1
    PROVE  /\ Head(s) = s[1] /\ Tail(s) \in Seq(S) /\ Len(Tail(s)) = Len(s) - 1
           /\ \A i \in 1..(Len(s) - 1) : Tail(s)[i] = s[i + 1]
           /\ Last(s) = s[Len(s)] /\ s # <<>> /\ s[1] \in S
BY DEF Last

LEMMA EmptyIs ==
    ASSUME NEW S, NEW s \in Seq(S)
    PROVE  /\ Len(s) \in Nat /\ DOMAIN s = 1..Len(s)
           /\ s = <<>> <=> Len(s) = 0
           /\ \A i \in 1..Len(s) : s[i] \in S
           /\ s # <<>> => Last(s) = s[Len(s)] /\ Len(s) \in 1..Len(s) /\ Last(s) \in S /\ 1 \in 1..Len(s)
<1>1. Len(s) \in Nat /\ DOMAIN s = 1..Len(s) /\ (s = <<>> <=> Len(s) = 0)
  OBVIOUS
<1> QED BY <1>1 DEF Last

LEMMA TwoIs ==
    ASSUME NEW S, NEW a \in S, NEW b \in S
    PROVE  /\ <<a>> \in Seq(S) /\ Len(<<a>>) = 1 /\ <<a>>[1] = a
           /\ <<a, b>> \in Seq(S) /\ Len(<<a, b>>) = 2 /\ <<a, b>>[1] = a /\ <<a, b>>[2] = b
OBVIOUS
---------------------------------------------------------------------------
(* What holds whatever failed.  The lines lie in the order of their days    *)
(* and none is of a later day than the writer's, so that what a writer      *)
(* removes is where they start and what it writes goes to their end.        *)
InOrder ==
    /\ \A i, j \in DOMAIN lines : i < j => lines[i].day <= lines[j].day
    /\ \A i \in DOMAIN lines : lines[i].day <= today

(* A line numbers itself, and is numbered, by what was there before it. *)
Numbers(l) == l.seq <= l.id /\ l.id <= lastId /\ (l.seq = 1 => l.prev = Genesis)

LinesOK ==
    /\ \A i \in DOMAIN lines : Numbers(lines[i]) /\ lines[i].through <= gone
    /\ gone <= lastId
    /\ acked # {} /\ lines = <<>> => gone > 0
    /\ \A e \in acked : e.id <= lastId

(* The files to be removed are the oldest, and outside of a window; the     *)
(* last line of the newest is the one remembered.                           *)
Removing(w) ==
    /\ lastId + 2 <= MaxLines
    /\ job[w].todo = <<>>
    /\ job[w].expired \subseteq files
    /\ \A d \in job[w].expired, f \in files \ job[w].expired : d < f
    /\ \A d \in job[w].expired : \E r \in Retentions \ {0} : d + r < today
    /\ job[w].expired # {} => job[w].removed = LastOfDay(Max(job[w].expired))

(* What is still to be written follows on. *)
Writing(w) ==
    LET todo == job[w].todo IN
    /\ Len(todo) \in {1, 2}
    /\ \A k \in 1..Len(todo) : /\ Numbers(todo[k])
                               /\ todo[k].day = job[w].now /\ todo[k].parses /\ todo[k].ended
                               /\ todo[k].through <= job[w].removed.seq
                               /\ \A e \in acked : e.id < todo[k].id
    /\ Len(todo) = 2 => Follows(todo[2], todo[1])

Written(w) ==
    /\ Len(job[w].todo) = 1
    /\ lines # <<>>
    /\ Last(lines).parses => Last(lines) = job[w].todo[1]

AtWork(w) ==
    /\ job[w].now <= today
    /\ \A i \in DOMAIN lines : lines[i].day <= job[w].now
    /\ job[w].removed.seq <= job[w].removed.id /\ job[w].removed.id <= lastId
    /\ job[w].removed.parses
    /\ job[w].removed.seq = 0 => job[w].removed.id = Genesis
    /\ job[w].expired = {} => job[w].removed.seq <= gone
    /\ pc[w] = "removing" => Removing(w)
    /\ pc[w] # "removing" => job[w].expired = {} /\ Writing(w)
    /\ pc[w] = "written" => Written(w)

WorkInv ==
    /\ InOrder
    /\ LinesOK
    /\ \A w \in Writers : pc[w] # "idle" => AtWork(w)

(* A writer removed lines and will document less. *)
Doomed ==
    \E w \in Writers : /\ pc[w] # "idle"
                       /\ CutThrough(lines) < gone
                       /\ job[w].removed.seq < gone

(* While nothing failed, the lines are those after the ones removed, each   *)
(* chained to the one before it.                                            *)
Chained ==
    /\ \A i \in DOMAIN lines : lines[i].seq = gone + i
    /\ \A i \in 2..Len(lines) : lines[i].prev = lines[i - 1].id
    /\ \A w \in Writers :
          /\ pc[w] = "removing" /\ lines = <<>> => job[w].removed.seq = gone
          /\ pc[w] = "writing" =>
                /\ job[w].todo[1].seq = gone + Len(lines) + 1
                /\ lines # <<>> => job[w].todo[1].prev = Last(lines).id

ChainInv ==
    trouble = {} =>
       /\ \A i \in DOMAIN lines : lines[i].parses /\ lines[i].ended
       /\ lock = NoWriter => gone <= CutThrough(lines)
       /\ Doomed \/ Chained

(* While the disk left no line without its newline alone, what is written   *)
(* goes to a line of its own.                                               *)
WholeInv ==
    "unended" \notin trouble =>
       /\ \A i \in DOMAIN lines : lines[i].parses => lines[i].ended
       /\ \A w \in Writers : pc[w] \in {"writing", "written"} /\ lines # <<>> => Last(lines).parses
       /\ \A e \in acked : \/ \E i \in DOMAIN lines : lines[i] = e
                           \/ \E r \in Retentions \ {0} : e.day + r < today

(* The next number is above that of any entry. *)
Below(e) ==
    \/ lines # <<>> /\ (~Last(lines).parses \/ e.seq <= Last(lines).seq)
    \/ lines = <<>> /\ \E w \in Writers : pc[w] # "idle" /\ e.seq <= job[w].removed.seq

GrowInv ==
    "uncut" \notin trouble =>
       /\ NumbersGrow
       /\ \/ Doomed
          \/ /\ \A e \in acked : Below(e)
             /\ \A w \in Writers : pc[w] \in {"writing", "written"} =>
                   \A e \in acked : e.seq < job[w].todo[1].seq
---------------------------------------------------------------------------
(* Lemmas about the steps that remove and write lines *)

(* What the types say of the lines. *)
LEMMA LinesAre ==
    ASSUME TypeOK
    PROVE  /\ lines \in Seq(Line) /\ Len(lines) \in Nat /\ DOMAIN lines = 1..Len(lines)
           /\ lines = <<>> <=> Len(lines) = 0
           /\ lines # <<>> => Last(lines) = lines[Len(lines)] /\ Len(lines) \in 1..Len(lines)
           /\ \A i \in 1..Len(lines) : lines[i] \in Line
           /\ \A i \in 1..Len(lines) : lines[i].seq \in Nat /\ lines[i].id \in Nat
                                       /\ lines[i].day \in Nat /\ lines[i].through \in Nat
<1>1. lines \in Seq(Line)
  BY DEF TypeOK
<1>2. /\ Len(lines) \in Nat /\ DOMAIN lines = 1..Len(lines)
      /\ lines = <<>> <=> Len(lines) = 0
      /\ \A i \in 1..Len(lines) : lines[i] \in Line
      /\ lines # <<>> => Last(lines) = lines[Len(lines)] /\ Len(lines) \in 1..Len(lines)
  BY <1>1, EmptyIs
<1> QED BY <1>1, <1>2, LineIs

LEMMA UpToIs ==
    ASSUME TypeOK, NEW day \in Nat
    PROVE  /\ UpTo(day) \in 0..Len(lines)
           /\ \A i \in 1..Len(lines) : lines[i].day <= day => i <= UpTo(day)
           /\ UpTo(day) # 0 => lines[UpTo(day)].day <= day
BY LinesAre, PlaceIs DEF UpTo

LEMMA LastOfDayIs ==
    ASSUME TypeOK, InOrder, NEW day \in Nat
    PROVE  /\ LastOfDay(day) \in Line \cup {NoLine}
           /\ LastOfDay(day) # NoLine =>
                 /\ UpTo(day) \in 1..Len(lines) /\ LastOfDay(day) = lines[UpTo(day)]
                 /\ LastOfDay(day).day = day
           /\ (\A i \in 1..Len(lines) : lines[i].day # day) => LastOfDay(day) = NoLine
           /\ \A i \in 1..Len(lines) : lines[i].day = day =>
                 LastOfDay(day) = lines[UpTo(day)] /\ i <= UpTo(day)
<1>1. CASE \A i \in 1..Len(lines) : lines[i].day # day
  BY <1>1, LinesAre DEF LastOfDay
<1>2. CASE \E i \in 1..Len(lines) : lines[i].day = day
  <2> PICK i \in 1..Len(lines) : lines[i].day = day
    BY <1>2
  <2>0. /\ UpTo(day) \in 0..Len(lines)
        /\ \A k \in 1..Len(lines) : lines[k].day <= day => k <= UpTo(day)
        /\ UpTo(day) # 0 => lines[UpTo(day)].day <= day
    BY UpToIs
  <2>1. UpTo(day) \in 1..Len(lines) /\ lines[UpTo(day)].day <= day /\ i <= UpTo(day)
    <3>1. i <= UpTo(day)
      BY <2>0
    <3> QED BY <2>0, <3>1, LinesAre
  <2>2. lines[UpTo(day)].day >= day
    <3>1. CASE i = UpTo(day)
      BY <3>1, LinesAre
    <3>2. CASE i < UpTo(day)
      BY <3>2, <2>1, LinesAre DEF InOrder
    <3> QED BY <3>1, <3>2, <2>1, LinesAre
  <2>3. LastOfDay(day) = lines[UpTo(day)]
    BY LinesAre DEF LastOfDay
  <2>4. lines[UpTo(day)].day = day
    BY <2>1, <2>2, LinesAre
  <2>5. lines[UpTo(day)] \in Line
    BY <2>1, LinesAre
  <2>6. \A k \in 1..Len(lines) : lines[k].day = day => k <= UpTo(day)
    BY <2>0
  <2> QED BY <2>1, <2>3, <2>4, <2>5, <2>6
<1> QED BY <1>1, <1>2

(* How the lines t come from the lines s: some at their start are gone, one *)
(* is put after the last, or the last runs on into what is written.         *)
Drops(s, t, n) ==
    /\ n \in 0..Len(s)
    /\ Len(t) = Len(s) - n
    /\ \A i \in 1..Len(t) : t[i] = s[i + n]

Adds(s, t, l) ==
    /\ Len(t) = Len(s) + 1
    /\ \A i \in 1..Len(s) : t[i] = s[i]
    /\ t[Len(s) + 1] = l

RunsOn(s, t) ==
    /\ Len(t) = Len(s)
    /\ Len(s) # 0
    /\ ~s[Len(s)].ended
    /\ \A i \in 1..(Len(s) - 1) : t[i] = s[i]
    /\ LET b == s[Len(s)]  a == t[Len(s)] IN
          /\ a.id = b.id /\ a.seq = b.seq /\ a.prev = b.prev /\ a.day = b.day
          /\ a.through = b.through /\ ~a.parses

LEMMA JoinedIs ==
    ASSUME NEW S, NEW s \in Seq(S), NEW t \in Seq(S)
    PROVE  /\ s \o t \in Seq(S)
           /\ Len(s \o t) = Len(s) + Len(t) /\ (Len(t) = 0 => Len(s \o t) = Len(s))
           /\ \A i \in 1..Len(s) : (s \o t)[i] = s[i]
           /\ \A i \in 1..Len(t) : (s \o t)[Len(s) + i] = t[i]
OBVIOUS

LEMMA WithIs ==
    ASSUME TypeOK, InOrder, NEW l \in Line, \A i \in 1..Len(lines) : lines[i].day <= l.day
    PROVE  /\ With(l) \in Seq(Line)
           /\ Adds(lines, With(l), l) \/ RunsOn(lines, With(l))
<1> DEFINE n == UpTo(l.day)
<1>0. l.day \in Nat /\ l.ended \in BOOLEAN
  BY LineIs
<1>1. n = Len(lines)
  <2>1. n \in 0..Len(lines) /\ \A i \in 1..Len(lines) : i <= n
    BY <1>0, UpToIs
  <2> QED BY <2>1, LinesAre
<1>2. CASE n # 0 /\ ~lines[n].ended /\ lines[n].day = l.day
  <2> DEFINE a == [lines[n] EXCEPT !.parses = FALSE, !.ended = l.ended]
  <2>1. With(l) = [lines EXCEPT ![n] = a]
    BY <1>2, LinesAre, <1>1 DEF With
  <2>2. n \in 1..Len(lines) /\ lines[n] \in Line
    BY <1>1, <1>2, LinesAre
  <2>3. a \in Line /\ a.id = lines[n].id /\ a.seq = lines[n].seq /\ a.prev = lines[n].prev
        /\ a.day = lines[n].day /\ a.through = lines[n].through /\ ~a.parses
    BY <2>2, <1>0 DEF Line
  <2> HIDE DEF a, n
  <2>4. [lines EXCEPT ![n] = a] \in Seq(Line)
    BY <2>2, <2>3, LinesAre
  <2>5. /\ Len([lines EXCEPT ![n] = a]) = Len(lines) /\ [lines EXCEPT ![n] = a][n] = a
        /\ \A i \in 1..Len(lines) : i # n => [lines EXCEPT ![n] = a][i] = lines[i]
    BY <2>2, LinesAre
  <2>6. RunsOn(lines, With(l))
    <3>1. With(l)[Len(lines)] = a /\ lines[n] = lines[Len(lines)] /\ Len(lines) # 0
      BY <2>1, <2>5, <1>1, <1>2
    <3>2. \A i \in 1..Len(lines) : i # Len(lines) => With(l)[i] = lines[i]
      BY <2>1, <2>5, <1>1
    <3>3. \A i \in 1..(Len(lines) - 1) : i \in 1..Len(lines) /\ i # Len(lines)
      <4>1. Len(lines) \in Nat
        BY LinesAre
      <4> QED BY <4>1
    <3> QED BY <2>1, <2>3, <2>5, <1>2, <3>1, <3>2, <3>3 DEF RunsOn
  <2> QED BY <2>1, <2>4, <2>6
<1>3. CASE ~(n # 0 /\ ~lines[n].ended /\ lines[n].day = l.day)
  <2>1. With(l) = SubSeq(lines, 1, n) \o <<l>> \o SubSeq(lines, n + 1, Len(lines))
    BY <1>3 DEF With
  <2>2. SubSeq(lines, 1, Len(lines)) \in Seq(Line) /\ Len(SubSeq(lines, 1, Len(lines))) = Len(lines)
        /\ \A i \in 1..Len(lines) : SubSeq(lines, 1, Len(lines))[i] = lines[i]
    BY LinesAre
  <2>3. SubSeq(lines, Len(lines) + 1, Len(lines)) \in Seq(Line)
        /\ Len(SubSeq(lines, Len(lines) + 1, Len(lines))) = 0
    BY LinesAre
  <2> DEFINE x == SubSeq(lines, 1, Len(lines))
             y == SubSeq(lines, Len(lines) + 1, Len(lines))
  <2>4. With(l) = x \o <<l>> \o y
    BY <2>1, <1>1
  <2> HIDE DEF x, y
  <2>5. x \in Seq(Line) /\ Len(x) = Len(lines) /\ y \in Seq(Line) /\ Len(y) = 0
        /\ \A i \in 1..Len(lines) : x[i] = lines[i]
    BY <2>2, <2>3 DEF x, y
  <2>6. x \o <<l>> \in Seq(Line) /\ Len(x \o <<l>>) = Len(lines) + 1
        /\ (x \o <<l>>)[Len(lines) + 1] = l /\ \A i \in 1..Len(lines) : (x \o <<l>>)[i] = lines[i]
    <3>1. <<l>> \in Seq(Line) /\ Len(<<l>>) = 1 /\ <<l>>[1] = l
      OBVIOUS
    <3> DEFINE u == <<l>>
    <3> HIDE DEF u
    <3>2. u \in Seq(Line) /\ Len(u) = 1 /\ u[1] = l
      BY <3>1 DEF u
    <3>3. /\ x \o u \in Seq(Line) /\ Len(x \o u) = Len(x) + Len(u)
          /\ \A i \in 1..Len(x) : (x \o u)[i] = x[i]
          /\ \A i \in 1..Len(u) : (x \o u)[Len(x) + i] = u[i]
      BY <2>5, <3>2, JoinedIs
    <3>4. (x \o u)[Len(x) + 1] = l
      BY <3>2, <3>3
    <3> QED BY <2>5, <3>2, <3>3, <3>4 DEF u
  <2> DEFINE z == x \o <<l>>
  <2> HIDE DEF z
  <2>7. z \in Seq(Line) /\ Len(z) = Len(lines) + 1 /\ z[Len(lines) + 1] = l
        /\ \A i \in 1..Len(lines) : z[i] = lines[i]
    BY <2>6 DEF z
  <2>8. z \o y \in Seq(Line) /\ Len(z \o y) = Len(z) /\ \A i \in 1..Len(z) : (z \o y)[i] = z[i]
    BY <2>5, <2>7, JoinedIs
  <2>9. Adds(lines, z \o y, l)
    BY <2>7, <2>8, LinesAre DEF Adds
  <2> QED BY <2>4, <2>8, <2>9 DEF z
<1> QED BY <1>2, <1>3

(* Only the holder of the lock is at work. *)
LEMMA LockIs ==
    ASSUME TypeOK
    PROVE  /\ \A w \in Writers : pc[w] # "idle" => lock = w /\ lock # NoWriter
           /\ \A v, w \in Writers : pc[v] # "idle" /\ pc[w] # "idle" => v = w
           /\ lock = NoWriter => \A w \in Writers : pc[w] = "idle"
           /\ lock # NoWriter => \E w \in Writers : lock = w /\ pc[w] # "idle"
BY InvokeLogAssumption DEF TypeOK

LEMMA CutOneIs ==
    ASSUME NEW s \in Seq(Line), NEW n \in 0..Len(s)
    PROVE  /\ SubSeq(s, 1, 0) \o SubSeq(s, n + 1, Len(s)) \in Seq(Line)
           /\ Drops(s, SubSeq(s, 1, 0) \o SubSeq(s, n + 1, Len(s)), n)
<1> DEFINE x == SubSeq(s, 1, 0)
           y == SubSeq(s, n + 1, Len(s))
<1>1. x \in Seq(Line) /\ Len(x) = 0
  OBVIOUS
<1>2. y \in Seq(Line) /\ Len(y) = Len(s) - n /\ \A i \in 1..Len(y) : y[i] = s[i + n]
  OBVIOUS
<1> HIDE DEF x, y
<1>3. /\ x \o y \in Seq(Line) /\ Len(x \o y) = Len(x) + Len(y)
      /\ \A i \in 1..Len(y) : (x \o y)[Len(x) + i] = y[i]
  BY <1>1, <1>2, JoinedIs
<1>4. Len(y) \in Nat /\ Len(s) \in Nat
  BY <1>2
<1>5. Len(x \o y) = Len(y) /\ \A i \in 1..Len(y) : (x \o y)[i] = y[i]
  BY <1>1, <1>3, <1>4
<1>6. Drops(s, x \o y, n)
  BY <1>2, <1>5 DEF Drops
<1> QED BY <1>3, <1>6 DEF x, y

Oldest(w) == Min(job[w].expired)
Taken(w) == UpTo(Oldest(w))

(* What is removed is where the lines start. *)
LEMMA RemovalIs ==
    ASSUME TypeOK, WorkInv, NEW w \in Writers, RemoveExpired(w)
    PROVE  /\ Oldest(w) \in job[w].expired /\ \A d \in job[w].expired : Oldest(w) <= d
           /\ Oldest(w) \in files /\ Oldest(w) \in Days /\ Oldest(w) \in Nat
           /\ Taken(w) \in 0..Len(lines)
           /\ \A i \in 1..Len(lines) : lines[i].day >= Oldest(w)
           /\ \A i \in 1..Len(lines) : i <= Taken(w) <=> lines[i].day = Oldest(w)
           /\ lines' \in Seq(Line)
           /\ Drops(lines, lines', Taken(w))
           /\ LastOfDay(Oldest(w)) = IF Taken(w) = 0 THEN NoLine ELSE lines[Taken(w)]
           /\ gone' \in 0..MaxLines /\ gone <= gone' /\ LastOfDay(Oldest(w)).seq <= gone'
           /\ gone' \in {gone, LastOfDay(Oldest(w)).seq}
<1> DEFINE d == Oldest(w)
           n == Taken(w)
<1>0. pc[w] = "removing" /\ job[w].expired # {}
  BY DEF RemoveExpired
<1>1. job[w].expired \in SUBSET Days /\ job[w].expired \in SUBSET Nat /\ files \in SUBSET Nat
  BY JobIs, Numerals DEF TypeOK
<1>2. Removing(w) /\ InOrder
  BY <1>0 DEF WorkInv, AtWork
<1>3. d \in job[w].expired /\ \A e \in job[w].expired : d <= e
  BY <1>0, <1>1, MinIs DEF Oldest
<1> HIDE DEF d
<1>4. d \in files /\ d \in Days /\ d \in Nat
  BY <1>1, <1>2, <1>3 DEF Removing
<1>5. \A i \in 1..Len(lines) : lines[i].day \in Nat /\ lines[i].day >= d
  <2> SUFFICES ASSUME NEW i \in 1..Len(lines)
               PROVE  lines[i].day \in Nat /\ lines[i].day >= d
    OBVIOUS
  <2>1. lines[i].day \in files /\ lines[i].day \in Nat
    BY LinesAre DEF TypeOK
  <2>2. CASE lines[i].day \in job[w].expired
    BY <2>1, <2>2, <1>3, <1>4
  <2>3. CASE lines[i].day \in files \ job[w].expired
    BY <2>1, <2>3, <1>2, <1>3, <1>4 DEF Removing
  <2> QED BY <2>1, <2>2, <2>3
<1>6. n = UpTo(d)
  BY DEF Taken, d
<1> HIDE DEF n
<1>7. /\ n \in 0..Len(lines)
      /\ \A i \in 1..Len(lines) : lines[i].day <= d => i <= n
      /\ n # 0 => lines[n].day <= d
  BY <1>4, <1>6, UpToIs
<1>8. Len(lines) \in Nat /\ n \in Nat
  BY <1>7, LinesAre
<1>9. \A i \in 1..Len(lines) : i <= n <=> lines[i].day = d
  <2> SUFFICES ASSUME NEW i \in 1..Len(lines)
               PROVE  i <= n <=> lines[i].day = d
    OBVIOUS
  <2>1. ASSUME lines[i].day = d PROVE i <= n
    BY <2>1, <1>4, <1>7
  <2>2. ASSUME i <= n PROVE lines[i].day = d
    <3>1. n \in 1..Len(lines) /\ n # 0
      BY <2>2, <1>7, <1>8
    <3>2. lines[n].day = d
      BY <3>1, <1>4, <1>5, <1>7
    <3>3. lines[i].day <= lines[n].day
      <4>1. CASE i = n
        BY <4>1, <1>5
      <4>2. CASE i < n
        BY <4>2, <3>1, <1>2, LinesAre DEF InOrder
      <4> QED BY <2>2, <1>8, <4>1, <4>2
    <3> QED BY <3>2, <3>3, <1>4, <1>5
  <2> QED BY <2>1, <2>2
<1>10. UpTo(d - 1) = 0
  <2>1. d - 1 \in Nat /\ d - 1 < d
    BY <1>4 DEF Days
  <2>2. UpTo(d - 1) \in 0..Len(lines) /\ (UpTo(d - 1) # 0 => lines[UpTo(d - 1)].day <= d - 1)
    BY <2>1, UpToIs
  <2>3. ASSUME UpTo(d - 1) # 0 PROVE FALSE
    <3>1. UpTo(d - 1) \in 1..Len(lines)
      BY <2>2, <2>3, <1>8
    <3> QED BY <3>1, <2>1, <2>2, <2>3, <1>4, <1>5
  <2> QED BY <2>3
<1>11. lines' = SubSeq(lines, 1, 0) \o SubSeq(lines, n + 1, Len(lines))
  BY <1>6, <1>10 DEF RemoveExpired, d, Oldest
<1>12. lines' \in Seq(Line) /\ Drops(lines, lines', n)
  BY <1>7, <1>11, CutOneIs, LinesAre
<1>13. LastOfDay(d) = IF n = 0 THEN NoLine ELSE lines[n]
  <2>1. CASE n = 0
    <3>1. \A i \in 1..Len(lines) : lines[i].day # d
      BY <2>1, <1>9
    <3> QED BY <2>1, <3>1, <1>2, <1>4, LastOfDayIs
  <2>2. CASE n # 0
    <3>1. n \in 1..Len(lines) /\ lines[n].day = d
      BY <2>2, <1>7, <1>8, <1>9
    <3> QED BY <2>2, <3>1, <1>2, <1>4, <1>6, LastOfDayIs
  <2> QED BY <2>1, <2>2
<1>14. gone' = Max({gone, LastOfDay(d).seq})
  BY DEF RemoveExpired, d, Oldest
<1>15. gone \in 0..MaxLines /\ gone \in Nat /\ LastOfDay(d).seq \in 0..MaxLines
       /\ LastOfDay(d).seq \in Nat /\ MaxLines \in Nat
  <2>1. LastOfDay(d) \in Line \cup {NoLine}
    BY <1>2, <1>4, LastOfDayIs
  <2>2. LastOfDay(d).seq \in Ids \/ LastOfDay(d).seq = 0
    BY <2>1, LineIs, NoLineIs
  <2> QED BY <2>2, Numerals DEF TypeOK, Ids
<1>16. gone' \in {gone, LastOfDay(d).seq} /\ gone <= gone' /\ LastOfDay(d).seq <= gone'
  <2> DEFINE T == {gone, LastOfDay(d).seq}
  <2>1. T \in SUBSET Nat /\ T # {} /\ \A y \in T : y <= MaxLines
    BY <1>15
  <2>2. Max(T) \in T /\ \A y \in T : y <= Max(T)
    BY <2>1, <1>15, MaxIs
  <2> QED BY <2>2, <1>14
<1>17. gone' \in 0..MaxLines
  BY <1>15, <1>16
<1> QED BY <1>3, <1>4, <1>5, <1>7, <1>9, <1>12, <1>13, <1>16, <1>17 DEF d, n

(* The last line before the entry, and what it is. *)
LEMMA PreviousIs ==
    ASSUME TypeOK, WorkInv, NEW w \in Writers, pc[w] # "idle"
    PROVE  /\ Previous(w) \in Line \cup {NoLine}
           /\ Previous(w).seq \in Nat /\ Previous(w).id \in Nat
           /\ Previous(w).seq <= Previous(w).id /\ Previous(w).id <= lastId
           /\ Previous(w).seq = 0 => Previous(w).id = 0
           /\ lines = <<>> => Previous(w) = job[w].removed
           /\ lines # <<>> => Previous(w) = lines[Len(lines)]
<1>1. AtWork(w) /\ LinesOK
  BY DEF WorkInv
<1>2. CASE lines = <<>>
  <2>1. Previous(w) = job[w].removed
    BY <1>2 DEF Previous
  <2>2. job[w].removed \in Line \cup {NoLine}
    BY JobIs DEF TypeOK
  <2>3. job[w].removed.seq \in Nat /\ job[w].removed.id \in Nat
    BY <2>2, RemovedIs
  <2> QED BY <1>1, <1>2, <2>1, <2>2, <2>3 DEF AtWork, Genesis
<1>3. CASE lines # <<>>
  <2>1. Previous(w) = lines[Len(lines)] /\ Len(lines) \in 1..Len(lines)
    BY <1>3, LinesAre DEF Previous
  <2>2. lines[Len(lines)] \in Line /\ Numbers(lines[Len(lines)])
    BY <1>1, <2>1, LinesAre DEF LinesOK
  <2>3. lines[Len(lines)].seq \in Nat /\ lines[Len(lines)].id \in Nat /\ lines[Len(lines)].seq >= 1
    BY <2>2, LineIs
  <2> QED BY <1>3, <2>1, <2>2, <2>3 DEF Numbers
<1> QED BY <1>2, <1>3

(* The one or two lines composed. *)
LEMMA ComposeIs ==
    ASSUME TypeOK, WorkInv, NEW w \in Writers, Compose(w)
    PROVE  /\ pc[w] = "removing" /\ AtWork(w) /\ Previous(w).parses
           /\ job' = [job EXCEPT ![w].todo = job'[w].todo]
           /\ job'[w] \in Job /\ job'[w].now = job[w].now /\ job'[w].expired = {}
           /\ job[w].expired = {} /\ job'[w].removed = job[w].removed
           /\ job'[w].todo \in Seq(Line) /\ Len(job'[w].todo) \in {1, 2}
           /\ LET l == job'[w].todo[1] IN
                 /\ l.id = lastId + 1 /\ l.seq = Previous(w).seq + 1 /\ l.prev = Previous(w).id
                 /\ l.day = job[w].now /\ l.through = job[w].removed.seq /\ l.parses /\ l.ended
           /\ Len(job'[w].todo) = 2 =>
                 LET l == job'[w].todo[2] IN
                 /\ l.id = lastId + 2 /\ l.seq = Previous(w).seq + 2 /\ l.prev = lastId + 1
                 /\ l.day = job[w].now /\ l.through = 0 /\ l.parses /\ l.ended
           /\ (job[w].removed.seq = 0) = (Len(job'[w].todo) = 1)
           /\ lastId' = lastId + Len(job'[w].todo) /\ lastId' \in 0..MaxLines
<1> DEFINE through == job[w].removed.seq
           first == [id |-> lastId + 1, seq |-> Previous(w).seq + 1, prev |-> Previous(w).id,
                     day |-> job[w].now, through |-> through, parses |-> TRUE, ended |-> TRUE]
           entry == [id |-> lastId + 2, seq |-> Previous(w).seq + 2, prev |-> lastId + 1,
                     day |-> job[w].now, through |-> 0, parses |-> TRUE, ended |-> TRUE]
           todo == IF through = 0 THEN <<first>> ELSE <<first, entry>>
<1>1. pc[w] = "removing" /\ Previous(w).parses /\ job[w].expired = {}
  BY DEF Compose
<1>2. AtWork(w) /\ Removing(w)
  BY <1>1 DEF WorkInv, AtWork
<1>3. /\ Previous(w).seq \in Nat /\ Previous(w).id \in Nat
      /\ Previous(w).seq <= Previous(w).id /\ Previous(w).id <= lastId
  BY <1>1, PreviousIs
<1>4. lastId \in Nat /\ lastId + 2 <= MaxLines /\ MaxLines \in Nat
  BY <1>2, Numerals DEF TypeOK, Removing
<1>5. job[w] \in Job /\ job \in [Writers -> Job]
  BY DEF TypeOK
<1>6. through \in Ids \cup {0} /\ job[w].now \in Days
  <2>1. job[w].removed \in Line \cup {NoLine}
    BY <1>5, JobIs
  <2> QED BY <2>1, <1>5, JobIs, LineIs, NoLineIs
<1>7. /\ lastId + 1 \in Ids /\ lastId + 2 \in Ids /\ Previous(w).seq + 1 \in Ids
      /\ Previous(w).seq + 2 \in Ids /\ Previous(w).id \in Ids \cup {0}
  BY <1>3, <1>4 DEF Ids
<1>8. first \in Line /\ entry \in Line
  BY <1>6, <1>7 DEF Line, Genesis
<1>9. lastId + 1 + 1 = lastId + 2 /\ Previous(w).seq + 1 + 1 = Previous(w).seq + 2
  BY <1>3, <1>4
<1>10. job' = [job EXCEPT ![w].todo = todo] /\ lastId' = lastId + Len(todo)
  <2> DEFINE other == [first EXCEPT !.id = @ + 1, !.seq = @ + 1, !.prev = first.id, !.through = 0]
  <2>0. /\ first.id + 1 = lastId + 2 /\ first.seq + 1 = Previous(w).seq + 2
        /\ first.id = lastId + 1
    BY <1>9
  <2>1. other = entry
    <3> HIDE DEF first
    <3>1. /\ other.id = first.id + 1 /\ other.seq = first.seq + 1 /\ other.prev = first.id
          /\ other.through = 0 /\ other.day = first.day /\ other.parses = first.parses
          /\ other.ended = first.ended
      BY <1>8 DEF Line
    <3>2. other \in Line
      BY <1>7, <1>8, <2>0 DEF Line
    <3>3. /\ first.day = job[w].now /\ first.parses = TRUE /\ first.ended = TRUE
      BY DEF first
    <3>4. /\ entry.id = other.id /\ entry.seq = other.seq /\ entry.prev = other.prev
          /\ entry.through = other.through /\ entry.day = other.day
          /\ entry.parses = other.parses /\ entry.ended = other.ended
      BY <2>0, <3>1, <3>3
    <3> HIDE DEF other, entry
    <3> QED BY <1>8, <3>2, <3>4 DEF Line
  <2>2. LET written == IF through = 0 THEN <<first>> ELSE <<first, other>>
        IN  job' = [job EXCEPT ![w].todo = written] /\ lastId' = lastId + Len(written)
    BY DEF Compose
  <2> HIDE DEF other, first, entry
  <2> QED BY <2>1, <2>2
<1>11. /\ todo \in Seq(Line) /\ Len(todo) \in {1, 2} /\ todo[1] = first
       /\ (Len(todo) = 2 => todo[2] = entry) /\ (through = 0) = (Len(todo) = 1)
  <2> HIDE DEF first, entry
  <2>1. CASE through = 0
    BY <2>1, <1>8, TwoIs
  <2>2. CASE through # 0
    BY <2>2, <1>8, TwoIs
  <2> QED BY <2>1, <2>2
<1>12. /\ first.id = lastId + 1 /\ first.seq = Previous(w).seq + 1 /\ first.prev = Previous(w).id
       /\ first.day = job[w].now /\ first.through = through /\ first.parses /\ first.ended
  OBVIOUS
<1>13. /\ entry.id = lastId + 2 /\ entry.seq = Previous(w).seq + 2 /\ entry.prev = lastId + 1
       /\ entry.day = job[w].now /\ entry.through = 0 /\ entry.parses /\ entry.ended
  OBVIOUS
<1> HIDE DEF first, entry, todo
<1>14. /\ job'[w].todo = todo /\ job'[w].now = job[w].now /\ job'[w].expired = job[w].expired
       /\ job'[w].removed = job[w].removed
  BY <1>5, <1>10 DEF Job
<1>15. job'[w] \in Job
  BY <1>5, <1>10, <1>11 DEF Job
<1>16. lastId' \in 0..MaxLines
  <2>1. lastId' = lastId + 1 \/ lastId' = lastId + 2
    BY <1>10, <1>11
  <2> QED BY <2>1, <1>4
<1>17. (job[w].removed.seq = 0) = (Len(job'[w].todo) = 1)
  BY <1>11, <1>14
<1> QED BY <1>1, <1>2, <1>10, <1>11, <1>12, <1>13, <1>14, <1>15, <1>16, <1>17

(* What a writer starts with. *)
LEMMA BeginIs ==
    ASSUME TypeOK, InOrder, NEW w \in Writers, Begin(w)
    PROVE  \E r \in Retentions :
             /\ lock = NoWriter /\ lastId + 2 <= MaxLines
             /\ lock' = w /\ pc' = [pc EXCEPT ![w] = "removing"]
             /\ job' \in [Writers -> Job] /\ \A v \in Writers : v # w => job'[v] = job[v]
             /\ job'[w].now = today /\ job'[w].expired = Expired(today, r)
             /\ job'[w].expired \in SUBSET files /\ job'[w].expired \in SUBSET Nat
             /\ job'[w].todo = <<>>
             /\ job'[w].removed = IF Expired(today, r) = {} THEN NoLine
                                  ELSE LastOfDay(Max(Expired(today, r)))
             /\ job'[w].removed.parses /\ job'[w].removed \in Line \cup {NoLine}
             /\ UNCHANGED <<today, files, lines, lastId, history>>
<1> PICK r \in Retentions :
          LET days == Expired(today, r)
              last == IF days = {} THEN NoLine ELSE LastOfDay(Max(days))
          IN /\ last.parses
             /\ job' = [job EXCEPT ![w] = [now |-> today, expired |-> days, removed |-> last,
                                           todo |-> <<>>]]
  BY DEF Begin, StartsOn
<1> DEFINE days == Expired(today, r)
           last == IF days = {} THEN NoLine ELSE LastOfDay(Max(days))
           new == [now |-> today, expired |-> days, removed |-> last, todo |-> <<>>]
<1>1. days \in SUBSET files /\ days \in SUBSET Days /\ days \in SUBSET Nat
  BY Numerals DEF Expired, TypeOK
<1>2. last \in Line \cup {NoLine}
  <2>1. CASE days = {}
    BY <2>1
  <2>2. CASE days # {}
    <3> HIDE DEF days
    <3>1. \A d \in days : d <= MaxDay
      BY <1>1 DEF Days
    <3>2. Max(days) \in Nat
      BY <2>2, <3>1, <1>1, MaxIs, Numerals
    <3> QED BY <2>2, <3>2, LastOfDayIs
  <2> QED BY <2>1, <2>2
<1>3. today \in Days
  BY DEF TypeOK
<1>4. last.parses /\ job' = [job EXCEPT ![w] = new]
  OBVIOUS
<1>5. new.now = today /\ new.expired = days /\ new.removed = last /\ new.todo = <<>>
  OBVIOUS
<1> HIDE DEF days, last
<1>6. new \in Job
  BY <1>1, <1>2, <1>3 DEF Job
<1> HIDE DEF new
<1>7. job \in [Writers -> Job]
  BY DEF TypeOK
<1>8. job' \in [Writers -> Job] /\ job'[w] = new /\ \A v \in Writers : v # w => job'[v] = job[v]
  BY <1>4, <1>6, <1>7
<1>9. /\ lock = NoWriter /\ lastId + 2 <= MaxLines
      /\ lock' = w /\ pc' = [pc EXCEPT ![w] = "removing"]
      /\ UNCHANGED <<today, files, lines, lastId, history>>
  BY DEF Begin, StartsOn
<1> QED BY <1>1, <1>2, <1>4, <1>5, <1>8, <1>9 DEF days, last

(* The line to be written next goes to the end. *)
LEMMA NextLineIs ==
    ASSUME TypeOK, WorkInv, NEW w \in Writers, pc[w] = "writing"
    PROVE  /\ AtWork(w) /\ Writing(w) /\ job[w].expired = {} /\ job[w].removed.seq <= gone
           /\ job[w] \in Job /\ job[w].todo \in Seq(Line) /\ Len(job[w].todo) \in {1, 2}
           /\ Head(job[w].todo) = job[w].todo[1] /\ job[w].todo[1] \in Line
           /\ job[w].todo[1].day = job[w].now
           /\ \A i \in 1..Len(lines) : lines[i].day <= job[w].now
           /\ Len(job[w].todo) = 1 => Last(job[w].todo) = job[w].todo[1]
           /\ Len(job[w].todo) = 2 => /\ Tail(job[w].todo) \in Seq(Line) /\ Len(Tail(job[w].todo)) = 1
                                      /\ Tail(job[w].todo)[1] = job[w].todo[2]
                                      /\ job[w].todo[2] \in Line
<1>1. AtWork(w) /\ Writing(w) /\ job[w].expired = {} /\ job[w].removed.seq <= gone
  BY DEF WorkInv, AtWork
<1>2. job[w] \in Job /\ job[w].todo \in Seq(Line)
  BY JobIs DEF TypeOK
<1> DEFINE s == job[w].todo
<1> HIDE DEF s
<1>3. s \in Seq(Line) /\ Len(s) \in {1, 2}
  BY <1>1, <1>2 DEF Writing, s
<1>4. /\ Head(s) = s[1] /\ s[1] \in Line /\ (Len(s) = 1 => Last(s) = s[1])
      /\ Tail(s) \in Seq(Line) /\ Len(Tail(s)) = Len(s) - 1
      /\ \A i \in 1..(Len(s) - 1) : Tail(s)[i] = s[i + 1]
  <2>1. Len(s) >= 1
    <3>1. ASSUME NEW n \in {1, 2} PROVE n >= 1
      OBVIOUS
    <3> QED BY <1>3, <3>1
  <2>2. Head(s) = s[1] /\ s[1] \in Line /\ Tail(s) \in Seq(Line) /\ Last(s) = s[Len(s)]
    BY <1>3, <2>1, HeadIs
  <2>3. Len(Tail(s)) = Len(s) - 1 /\ \A i \in 1..(Len(s) - 1) : Tail(s)[i] = s[i + 1]
    BY <1>3, <2>1, HeadIs
  <2> QED BY <2>2, <2>3
<1>5. Len(s) = 2 => Len(Tail(s)) = 1 /\ Tail(s)[1] = s[2] /\ s[2] \in Line
  BY <1>3, <1>4
<1>6. job[w].todo[1].day = job[w].now
  BY <1>1, <1>3 DEF Writing, s
<1>7. \A i \in 1..Len(lines) : lines[i].day <= job[w].now
  BY <1>1, LinesAre DEF AtWork
<1> QED BY <1>1, <1>2, <1>3, <1>4, <1>5, <1>6, <1>7 DEF s

LEMMA WriteIs ==
    ASSUME TypeOK, WorkInv, NEW w \in Writers, WriteLine(w)
    PROVE  /\ pc[w] = "writing" /\ job[w].now \in files
           /\ lines' \in Seq(Line)
           /\ Adds(lines, lines', job[w].todo[1]) \/ RunsOn(lines, lines')
           /\ job' \in [Writers -> Job]
           /\ \A v \in Writers : v # w => job'[v] = job[v]
           /\ job'[w].now = job[w].now /\ job'[w].expired = job[w].expired
           /\ job'[w].removed = job[w].removed
           /\ \/ /\ Len(job[w].todo) = 2 /\ pc' = pc /\ job'[w].todo = Tail(job[w].todo)
              \/ /\ Len(job[w].todo) = 1 /\ pc' = [pc EXCEPT ![w] = "written"] /\ job' = job
           /\ UNCHANGED <<today, files, lastId, lock, history>>
<1>1. pc[w] = "writing" /\ job[w].now \in files /\ UNCHANGED <<today, files, lastId, lock, history>>
  BY DEF WriteLine
<1>2. /\ job[w] \in Job /\ job[w].todo \in Seq(Line) /\ Len(job[w].todo) \in {1, 2}
      /\ Head(job[w].todo) = job[w].todo[1] /\ job[w].todo[1] \in Line
      /\ job[w].todo[1].day = job[w].now
      /\ \A i \in 1..Len(lines) : lines[i].day <= job[w].now
      /\ (Len(job[w].todo) = 2 => Tail(job[w].todo) \in Seq(Line))
  BY <1>1, NextLineIs
<1>3. lines' \in Seq(Line) /\ (Adds(lines, lines', job[w].todo[1]) \/ RunsOn(lines, lines'))
  <2>1. lines' = With(job[w].todo[1])
    BY <1>2 DEF WriteLine
  <2>2. InOrder
    BY DEF WorkInv
  <2> QED BY <1>2, <2>1, <2>2, WithIs
<1>4. job \in [Writers -> Job]
  BY DEF TypeOK
<1>5. CASE Len(job[w].todo) = 2
  <2>1. job' = [job EXCEPT ![w].todo = Tail(@)] /\ pc' = pc
    BY <1>5 DEF WriteLine
  <2>2. [job[w] EXCEPT !.todo = Tail(job[w].todo)] \in Job
    BY <1>2, <1>5 DEF Job
  <2>3. /\ job' \in [Writers -> Job] /\ job'[w].todo = Tail(job[w].todo)
        /\ \A v \in Writers : v # w => job'[v] = job[v]
        /\ job'[w].now = job[w].now /\ job'[w].expired = job[w].expired
        /\ job'[w].removed = job[w].removed
    BY <1>2, <1>4, <2>1, <2>2 DEF Job
  <2> QED BY <1>1, <1>3, <1>5, <2>1, <2>3
<1>6. CASE Len(job[w].todo) = 1
  <2>1. job' = job /\ pc' = [pc EXCEPT ![w] = "written"]
    BY <1>6 DEF WriteLine
  <2> QED BY <1>1, <1>3, <1>4, <1>6, <2>1
<1> QED BY <1>2, <1>5, <1>6

LEMMA TornIs ==
    ASSUME TypeOK, WorkInv, NEW w \in Writers, WriteTorn(w)
    PROVE  \E parses \in BOOLEAN, l \in Line :
             /\ pc[w] = "writing" /\ job[w].now \in files
             /\ lines' \in Seq(Line)
             /\ Adds(lines, lines', l) \/ RunsOn(lines, lines')
             /\ l.id = job[w].todo[1].id /\ l.seq = job[w].todo[1].seq
             /\ l.prev = job[w].todo[1].prev /\ l.day = job[w].now
             /\ l.through = job[w].todo[1].through /\ l.parses = parses /\ ~l.ended
             /\ trouble' = trouble \cup {IF parses THEN "unended" ELSE "torn"}
                                   \cup {t \in {"uncut"} : gone > CutThrough(lines)}
             /\ Ends(w)
             /\ UNCHANGED <<today, files, lastId, acked, gone>>
<1>1. pc[w] = "writing" /\ job[w].now \in files
      /\ UNCHANGED <<today, files, lastId, acked, gone>> /\ Ends(w)
  BY DEF WriteTorn
<1>2. /\ Head(job[w].todo) = job[w].todo[1] /\ job[w].todo[1] \in Line
      /\ job[w].todo[1].day = job[w].now
      /\ \A i \in 1..Len(lines) : lines[i].day <= job[w].now
  BY <1>1, NextLineIs
<1> PICK parses \in BOOLEAN :
          /\ lines' = With([Head(job[w].todo) EXCEPT !.parses = parses, !.ended = FALSE])
          /\ trouble' = trouble \cup {IF parses THEN "unended" ELSE "torn"}
                                \cup {t \in {"uncut"} : gone > CutThrough(lines)}
  BY DEF WriteTorn
<1> DEFINE l == [job[w].todo[1] EXCEPT !.parses = parses, !.ended = FALSE]
<1>3. /\ l \in Line /\ l.id = job[w].todo[1].id /\ l.seq = job[w].todo[1].seq
      /\ l.prev = job[w].todo[1].prev /\ l.day = job[w].todo[1].day
      /\ l.through = job[w].todo[1].through /\ l.parses = parses /\ ~l.ended
  BY <1>2 DEF Line
<1>4. lines' = With(l)
  BY <1>2
<1> HIDE DEF l
<1>5. InOrder
  BY DEF WorkInv
<1>6. l.day = job[w].now
  BY <1>2, <1>3
<1>7. \A i \in 1..Len(lines) : lines[i].day <= l.day
  BY <1>2, <1>6
<1>8. lines' \in Seq(Line) /\ (Adds(lines, lines', l) \/ RunsOn(lines, lines'))
  BY <1>3, <1>4, <1>5, <1>7, WithIs
<1> QED BY <1>1, <1>3, <1>6, <1>8

LEMMA EndsIs ==
    ASSUME TypeOK, NEW w \in Writers, pc[w] # "idle", Ends(w)
    PROVE  /\ lock' = NoWriter /\ job' \in [Writers -> Job]
           /\ pc' \in [Writers -> {"idle"}] /\ \A v \in Writers : pc'[v] = "idle"
<1>1. lock' = NoWriter
  BY DEF Ends
<1>2. pc' \in [Writers -> {"idle"}]
  BY LockIs DEF Ends, TypeOK
<1>3. NoJob \in Job
  <2>1. 1 \in Days
    BY InvokeLogAssumption DEF Days
  <2>2. <<>> \in Seq(Line)
    OBVIOUS
  <2> QED BY <2>1, <2>2 DEF NoJob, Job
<1>4. job' \in [Writers -> Job]
  BY <1>3 DEF Ends, TypeOK
<1> QED BY <1>1, <1>2, <1>4

(* Each line still there is of a day whose file is. *)
LEMMA TypeStep ==
    ASSUME TypeOK, WorkInv, [Next]_vars
    PROVE  TypeOK'
<1>0. lines \in Seq(Line) /\ DOMAIN lines = 1..Len(lines) /\ job \in [Writers -> Job]
      /\ pc \in [Writers -> {"idle", "removing", "writing", "written"}]
  BY LinesAre DEF TypeOK
<1>1. CASE NextDay
  <2>1. today' \in Days
    BY <1>1, Numerals DEF NextDay, TypeOK, Days
  <2> QED BY <1>1, <2>1 DEF NextDay, TypeOK, appendVars, history
<1>2. ASSUME NEW w \in Writers, Begin(w) PROVE TypeOK'
  <2>1. InOrder
    BY DEF WorkInv
  <2>2. /\ lock = NoWriter /\ lock' = w /\ pc' = [pc EXCEPT ![w] = "removing"]
        /\ job' \in [Writers -> Job] /\ UNCHANGED <<today, files, lines, lastId, history>>
    BY <1>2, <2>1, BeginIs
  <2>3. pc' \in [Writers -> {"idle", "removing", "writing", "written"}]
        /\ \A v \in Writers : pc'[v] # "idle" <=> lock' = v
    BY <2>2, LockIs, <1>0
  <2> QED BY <2>2, <2>3 DEF TypeOK, history
<1>3. ASSUME NEW w \in Writers, RemoveExpired(w) PROVE TypeOK'
  <2>1. /\ lines' \in Seq(Line) /\ Drops(lines, lines', Taken(w)) /\ gone' \in 0..MaxLines
        /\ Taken(w) \in 0..Len(lines)
        /\ \A i \in 1..Len(lines) : i <= Taken(w) <=> lines[i].day = Oldest(w)
    BY <1>3, RemovalIs
  <2>2. /\ files' = files \ {Oldest(w)} /\ job' = [job EXCEPT ![w].expired = @ \ {Oldest(w)}]
        /\ UNCHANGED <<today, lastId, lock, pc, acked, trouble>>
    BY <1>3 DEF RemoveExpired, Oldest
  <2>3. \A i \in DOMAIN lines' : lines'[i].day \in files'
    <3> SUFFICES ASSUME NEW i \in 1..Len(lines') PROVE lines'[i].day \in files'
      BY <2>1, EmptyIs
    <3>1. lines'[i] = lines[i + Taken(w)] /\ i + Taken(w) \in 1..Len(lines) /\ ~(i + Taken(w) <= Taken(w))
      BY <2>1, LinesAre DEF Drops
    <3>2. lines[i + Taken(w)].day # Oldest(w) /\ lines[i + Taken(w)].day \in files
      BY <2>1, <3>1, <1>0 DEF TypeOK
    <3> QED BY <2>2, <3>1, <3>2
  <2>4. job' \in [Writers -> Job]
    <3>1. [job[w] EXCEPT !.expired = @ \ {Oldest(w)}] \in Job
      BY <1>0 DEF Job
    <3> QED BY <2>2, <3>1, <1>0
  <2> QED BY <2>1, <2>2, <2>3, <2>4 DEF TypeOK
<1>4. ASSUME NEW w \in Writers, Compose(w) PROVE TypeOK'
  <2>1. /\ job' = [job EXCEPT ![w].todo = job'[w].todo] /\ job'[w] \in Job
        /\ lastId' \in 0..MaxLines /\ pc[w] = "removing"
    BY <1>4, ComposeIs
  <2>2. job' \in [Writers -> Job]
    BY <2>1, <1>0
  <2>3. pc' = [pc EXCEPT ![w] = "writing"] /\ UNCHANGED <<today, files, lines, lock, history>>
    BY <1>4 DEF Compose
  <2> QED BY <2>1, <2>2, <2>3 DEF TypeOK, history
<1>5. ASSUME NEW w \in Writers, OpenFile(w) PROVE TypeOK'
  <2>1. job[w].now \in Days
    BY <1>0, JobIs
  <2> QED BY <1>5, <2>1 DEF OpenFile, TypeOK, appendVars, history
<1>6. ASSUME NEW w \in Writers, NEW l \in Line, l.day \in files, files' = files,
             Adds(lines, lines', l) \/ RunsOn(lines, lines'), lines' \in Seq(Line)
      PROVE  \A i \in DOMAIN lines' : lines'[i].day \in files'
  <2> SUFFICES ASSUME NEW i \in 1..Len(lines') PROVE lines'[i].day \in files
    BY <1>6, EmptyIs
  <2>1. CASE Adds(lines, lines', l)
    <3>1. i \in 1..Len(lines) \/ i = Len(lines) + 1
      BY <2>1, LinesAre DEF Adds
    <3> QED BY <2>1, <3>1, <1>0, <1>6 DEF Adds, TypeOK
  <2>2. CASE RunsOn(lines, lines')
    <3>1. i \in 1..Len(lines) /\ (i \in 1..(Len(lines) - 1) \/ i = Len(lines))
      BY <2>2, LinesAre DEF RunsOn
    <3> QED BY <2>2, <3>1, <1>0 DEF RunsOn, TypeOK
  <2> QED BY <1>6, <2>1, <2>2
<1>7. ASSUME NEW w \in Writers, WriteLine(w) PROVE TypeOK'
  <2>1. /\ pc[w] = "writing" /\ job[w].now \in files /\ lines' \in Seq(Line)
        /\ Adds(lines, lines', job[w].todo[1]) \/ RunsOn(lines, lines')
        /\ job' \in [Writers -> Job] /\ UNCHANGED <<today, files, lastId, lock, history>>
        /\ pc' = pc \/ pc' = [pc EXCEPT ![w] = "written"]
    BY <1>7, WriteIs
  <2>2. job[w].todo[1] \in Line /\ job[w].todo[1].day = job[w].now
    BY <2>1, NextLineIs
  <2>3. \A i \in DOMAIN lines' : lines'[i].day \in files'
    BY <2>1, <2>2, <1>6
  <2>4. pc' \in [Writers -> {"idle", "removing", "writing", "written"}]
        /\ \A v \in Writers : pc'[v] # "idle" <=> lock' = v
    BY <2>1, <1>0 DEF TypeOK
  <2> QED BY <2>1, <2>3, <2>4 DEF TypeOK, history
<1>8. ASSUME NEW w \in Writers, pc[w] # "idle", Ends(w)
      PROVE  /\ lock' = NoWriter /\ job' \in [Writers -> Job]
             /\ pc' \in [Writers -> {"idle", "removing", "writing", "written"}]
             /\ \A v \in Writers : pc'[v] # "idle" <=> lock' = v
  BY <1>8, EndsIs, InvokeLogAssumption
<1>9. ASSUME NEW w \in Writers, Return(w) PROVE TypeOK'
  <2>1. pc[w] = "written" /\ Ends(w) /\ UNCHANGED <<today, files, lines, lastId, gone>>
        /\ acked' = acked \cup {Last(job[w].todo)} /\ trouble' \subseteq trouble \cup {"uncut"}
    BY <1>9 DEF Return
  <2>2. Last(job[w].todo) \in Line
    <3>1. Len(job[w].todo) = 1
      BY <2>1 DEF WorkInv, AtWork, Written
    <3> DEFINE s == job[w].todo
    <3>2. s \in Seq(Line) /\ Len(s) = 1
      BY <1>0, <3>1, JobIs
    <3> HIDE DEF s
    <3>3. s # <<>> /\ Last(s) \in Line
      BY <3>2, EmptyIs
    <3> QED BY <3>3 DEF s
  <2>3. acked' \subseteq Line /\ trouble' \subseteq {"uncut", "torn", "unended"}
    BY <2>1, <2>2 DEF TypeOK
  <2> QED BY <2>1, <2>3, <1>8 DEF TypeOK
<1>10. ASSUME NEW w \in Writers, EndsEarly(w) PROVE TypeOK'
  <2>1. /\ pc[w] # "idle" /\ Ends(w) /\ UNCHANGED <<today, files, lines, lastId, acked, gone>>
        /\ trouble' \subseteq trouble \cup {"uncut"}
    BY <1>10 DEF EndsEarly
  <2>2. trouble' \subseteq {"uncut", "torn", "unended"}
    BY <2>1 DEF TypeOK
  <2> QED BY <2>1, <2>2, <1>8 DEF TypeOK
<1>11. ASSUME NEW w \in Writers, WriteTorn(w) PROVE TypeOK'
  <2>1. PICK parses \in BOOLEAN, l \in Line :
             /\ pc[w] = "writing" /\ job[w].now \in files
             /\ lines' \in Seq(Line)
             /\ Adds(lines, lines', l) \/ RunsOn(lines, lines')
             /\ l.day = job[w].now
             /\ trouble' = trouble \cup {IF parses THEN "unended" ELSE "torn"}
                                   \cup {t \in {"uncut"} : gone > CutThrough(lines)}
             /\ Ends(w)
             /\ UNCHANGED <<today, files, lastId, acked, gone>>
    BY <1>11, TornIs
  <2>2. trouble' \subseteq {"uncut", "torn", "unended"}
    BY <2>1 DEF TypeOK
  <2>3. \A i \in DOMAIN lines' : lines'[i].day \in files'
    BY <2>1, <1>6
  <2> QED BY <2>1, <2>2, <2>3, <1>8 DEF TypeOK
<1>12. CASE UNCHANGED vars
  BY <1>12 DEF vars, appendVars, history, TypeOK
<1> QED BY <1>1, <1>2, <1>3, <1>4, <1>5, <1>7, <1>9, <1>10, <1>11, <1>12 DEF Next
---------------------------------------------------------------------------
(* WorkInv *)

Same(a, b) == /\ a.id = b.id /\ a.seq = b.seq /\ a.prev = b.prev
              /\ a.day = b.day /\ a.through = b.through

LEMMA DropsIs ==
    ASSUME NEW s \in Seq(Line), NEW t \in Seq(Line), NEW n \in Nat, Drops(s, t, n)
    PROVE  /\ \A i \in 1..Len(t) : i + n \in 1..Len(s) /\ t[i] = s[i + n]
           /\ \A i \in 1..Len(s) : i > n => i - n \in 1..Len(t) /\ t[i - n] = s[i]
           /\ t = <<>> <=> n = Len(s)
           /\ Len(t) = Len(s) - n /\ Len(s) \in Nat /\ Len(t) \in Nat
<1>1. Len(s) \in Nat /\ Len(t) \in Nat /\ (t = <<>> <=> Len(t) = 0)
  BY EmptyIs
<1>2. Len(t) = Len(s) - n
  BY DEF Drops
<1>3. \A i \in 1..Len(t) : i + n \in 1..Len(s) /\ t[i] = s[i + n]
  BY <1>1, <1>2 DEF Drops
<1>4. \A i \in 1..Len(s) : i > n => i - n \in 1..Len(t) /\ (i - n) + n = i
  BY <1>1, <1>2
<1>5. \A i \in 1..Len(s) : i > n => t[i - n] = s[i]
  BY <1>3, <1>4
<1> QED BY <1>1, <1>2, <1>3, <1>4, <1>5

LEMMA AddsIs ==
    ASSUME NEW s \in Seq(Line), NEW t \in Seq(Line), NEW l, Adds(s, t, l)
    PROVE  /\ \A i \in 1..Len(t) : \/ i \in 1..Len(s) /\ t[i] = s[i]
                                   \/ i = Len(s) + 1 /\ t[i] = l
           /\ \A i \in 1..Len(s) : i \in 1..Len(t) /\ t[i] = s[i]
           /\ Len(s) + 1 \in 1..Len(t) /\ t[Len(s) + 1] = l
           /\ t # <<>> /\ Last(t) = l /\ Len(t) = Len(s) + 1 /\ Len(s) \in Nat
<1>1. Len(s) \in Nat /\ Len(t) \in Nat /\ (t = <<>> <=> Len(t) = 0)
      /\ (t # <<>> => Last(t) = t[Len(t)])
  BY EmptyIs
<1>2. Len(t) = Len(s) + 1 /\ t[Len(s) + 1] = l /\ \A i \in 1..Len(s) : t[i] = s[i]
  BY DEF Adds
<1>3. t # <<>> /\ Last(t) = l
  BY <1>1, <1>2
<1>4. \A i \in 1..Len(t) : i \in 1..Len(s) \/ i = Len(s) + 1
  BY <1>1, <1>2
<1>5. Len(s) + 1 \in 1..Len(t) /\ \A i \in 1..Len(s) : i \in 1..Len(t)
  BY <1>1, <1>2
<1> QED BY <1>1, <1>2, <1>3, <1>4, <1>5

LEMMA RunsOnIs ==
    ASSUME NEW s \in Seq(Line), NEW t \in Seq(Line), RunsOn(s, t)
    PROVE  /\ \A i \in 1..Len(t) : /\ i \in 1..Len(s) /\ Same(t[i], s[i])
                                   /\ i < Len(t) => t[i] = s[i]
                                   /\ t[i].parses => t[i] = s[i]
           /\ t # <<>> /\ s # <<>> /\ ~Last(t).parses /\ ~Last(s).ended /\ Len(s) = Len(t)
           /\ Last(t) = t[Len(t)] /\ Last(s) = s[Len(s)]
           /\ Len(s) \in 1..Len(s) /\ Len(s) \in Nat
<1>1. Len(s) \in Nat /\ Len(t) \in Nat /\ (t = <<>> <=> Len(t) = 0) /\ (s = <<>> <=> Len(s) = 0)
      /\ (t # <<>> => Last(t) = t[Len(t)]) /\ (s # <<>> => Last(s) = s[Len(s)])
  BY EmptyIs
<1>2. Len(t) = Len(s) /\ Len(s) # 0 /\ ~s[Len(s)].ended /\ ~t[Len(s)].parses
      /\ Same(t[Len(s)], s[Len(s)]) /\ \A i \in 1..(Len(s) - 1) : t[i] = s[i]
  BY DEF RunsOn, Same
<1>3. ASSUME NEW i \in 1..Len(t)
      PROVE  /\ i \in 1..Len(s) /\ Same(t[i], s[i])
             /\ i < Len(t) => t[i] = s[i]
             /\ t[i].parses => t[i] = s[i]
  <2>1. CASE i = Len(s)
    BY <2>1, <1>1, <1>2
  <2>2. CASE i # Len(s)
    <3>1. i \in 1..(Len(s) - 1)
      BY <2>2, <1>1, <1>2
    <3> QED BY <3>1, <1>1, <1>2 DEF Same
  <2> QED BY <2>1, <2>2
<1>4. Len(s) \in 1..Len(s)
  BY <1>1, <1>2
<1>5. t # <<>> /\ s # <<>> /\ ~Last(t).parses /\ ~Last(s).ended
      /\ Last(t) = t[Len(t)] /\ Last(s) = s[Len(s)]
  BY <1>1, <1>2
<1> QED BY <1>1, <1>2, <1>3, <1>4, <1>5

(* Where a line is put, whole or torn. *)
LEMMA WroteIs ==
    ASSUME TypeOK, WorkInv, NEW w \in Writers, WriteLine(w) \/ WriteTorn(w)
    PROVE  \E l \in Line :
             /\ pc[w] = "writing" /\ Same(l, job[w].todo[1]) /\ l.day = job[w].now
             /\ lines' \in Seq(Line) /\ lines' # <<>>
             /\ \A i \in 1..Len(lines') : \/ i \in 1..Len(lines) /\ Same(lines'[i], lines[i])
                                          \/ i = Len(lines) + 1 /\ Same(lines'[i], l)
             /\ UNCHANGED <<today, files, lastId, acked, gone>>
<1>1. PICK l \in Line :
             /\ pc[w] = "writing" /\ Same(l, job[w].todo[1]) /\ l.day = job[w].now
             /\ lines' \in Seq(Line) /\ (Adds(lines, lines', l) \/ RunsOn(lines, lines'))
             /\ UNCHANGED <<today, files, lastId, acked, gone>>
  <2>1. CASE WriteLine(w)
    <3>1. /\ pc[w] = "writing" /\ lines' \in Seq(Line)
          /\ Adds(lines, lines', job[w].todo[1]) \/ RunsOn(lines, lines')
          /\ UNCHANGED <<today, files, lastId, acked, gone>>
      BY <2>1, WriteIs DEF history
    <3>2. job[w].todo[1] \in Line /\ job[w].todo[1].day = job[w].now
      BY <3>1, NextLineIs
    <3>3. Same(job[w].todo[1], job[w].todo[1])
      BY DEF Same
    <3> QED BY <3>1, <3>2, <3>3
  <2>2. CASE WriteTorn(w)
    <3>1. PICK parses \in BOOLEAN, l \in Line :
             /\ pc[w] = "writing"
             /\ lines' \in Seq(Line)
             /\ Adds(lines, lines', l) \/ RunsOn(lines, lines')
             /\ l.id = job[w].todo[1].id /\ l.seq = job[w].todo[1].seq
             /\ l.prev = job[w].todo[1].prev /\ l.day = job[w].now
             /\ l.through = job[w].todo[1].through
             /\ UNCHANGED <<today, files, lastId, acked, gone>>
      BY <2>2, TornIs
    <3>2. job[w].todo[1].day = job[w].now
      BY <3>1, NextLineIs
    <3>3. Same(l, job[w].todo[1])
      BY <3>1, <3>2 DEF Same
    <3> QED BY <3>1, <3>3
  <2> QED BY <2>1, <2>2
<1>2. CASE Adds(lines, lines', l)
  <2>1. \A i \in 1..Len(lines') : \/ i \in 1..Len(lines) /\ lines'[i] = lines[i]
                                  \/ i = Len(lines) + 1 /\ lines'[i] = l
    BY <1>1, <1>2, AddsIs, LinesAre
  <2>2. lines' # <<>>
    BY <1>1, <1>2, AddsIs, LinesAre
  <2>3. \A a, b : a = b => Same(a, b)
    BY DEF Same
  <2> QED BY <1>1, <2>1, <2>2, <2>3
<1>3. CASE RunsOn(lines, lines')
  BY <1>1, <1>3, RunsOnIs, LinesAre
<1> QED BY <1>1, <1>2, <1>3

LEMMA OrderStep ==
    ASSUME TypeOK, WorkInv, [Next]_vars
    PROVE  InOrder'
<1>0. /\ DOMAIN lines = 1..Len(lines) /\ Len(lines) \in Nat /\ lines \in Seq(Line)
      /\ \A i \in 1..Len(lines) : lines[i].day \in Nat
      /\ today \in Nat
  BY LinesAre, Numerals DEF TypeOK
<1>1. /\ \A i, j \in 1..Len(lines) : i < j => lines[i].day <= lines[j].day
      /\ \A i \in 1..Len(lines) : lines[i].day <= today
  BY <1>0 DEF WorkInv, InOrder
<1>2. CASE NextDay
  <2>1. today' = today + 1 /\ lines' = lines
    BY <1>2 DEF NextDay
  <2>2. \A i \in 1..Len(lines) : lines[i].day <= today'
    BY <2>1, <1>0, <1>1
  <2> QED BY <2>1, <2>2, <1>0, <1>1 DEF InOrder
<1>3. ASSUME UNCHANGED <<today, lines>> PROVE InOrder'
  BY <1>3 DEF WorkInv, InOrder
<1>4. ASSUME NEW w \in Writers, RemoveExpired(w) PROVE InOrder'
  <2>1. /\ lines' \in Seq(Line) /\ Drops(lines, lines', Taken(w)) /\ Taken(w) \in Nat
        /\ today' = today
    <3>1. lines' \in Seq(Line) /\ Drops(lines, lines', Taken(w)) /\ Taken(w) \in 0..Len(lines)
      BY <1>4, RemovalIs
    <3> QED BY <3>1, <1>0, <1>4 DEF RemoveExpired
  <2>2. \A i \in 1..Len(lines') : i + Taken(w) \in 1..Len(lines) /\ lines'[i] = lines[i + Taken(w)]
    BY <1>0, <2>1, DropsIs
  <2>3. \A i, j \in 1..Len(lines') : i < j => i + Taken(w) < j + Taken(w)
    BY <2>1
  <2>4. DOMAIN lines' = 1..Len(lines')
    BY <2>1, EmptyIs
  <2> QED BY <1>1, <2>1, <2>2, <2>3, <2>4 DEF InOrder
<1>5. ASSUME NEW w \in Writers, WriteLine(w) \/ WriteTorn(w) PROVE InOrder'
  <2>1. PICK l \in Line :
             /\ pc[w] = "writing" /\ l.day = job[w].now
             /\ lines' \in Seq(Line)
             /\ \A i \in 1..Len(lines') : \/ i \in 1..Len(lines) /\ Same(lines'[i], lines[i])
                                          \/ i = Len(lines) + 1 /\ Same(lines'[i], l)
             /\ UNCHANGED <<today, files, lastId, acked, gone>>
    BY <1>5, WroteIs
  <2>2. job[w].now <= today /\ job[w].now \in Nat /\ \A i \in 1..Len(lines) : lines[i].day <= job[w].now
    <3>1. AtWork(w)
      BY <2>1 DEF WorkInv
    <3>2. job[w].now \in Nat
      BY JobIs, Numerals DEF TypeOK
    <3> QED BY <3>1, <3>2, <1>0 DEF AtWork
  <2>3. \A i \in 1..Len(lines') : \/ i \in 1..Len(lines) /\ lines'[i].day = lines[i].day
                                  \/ i = Len(lines) + 1 /\ lines'[i].day = job[w].now
    BY <2>1 DEF Same
  <2>4. DOMAIN lines' = 1..Len(lines')
    BY <2>1, EmptyIs
  <2>5. \A i \in 1..Len(lines') : lines'[i].day <= today
    BY <2>2, <2>3, <1>1
  <2>6. ASSUME NEW i \in 1..Len(lines'), NEW j \in 1..Len(lines'), i < j
        PROVE  lines'[i].day <= lines'[j].day
    <3>1. i \in 1..Len(lines) /\ lines'[i].day = lines[i].day
      <4>1. j \in Nat /\ j <= Len(lines) + 1 /\ i \in Nat
        BY <2>1, <2>3, <1>0
      <4>2. i # Len(lines) + 1
        BY <4>1, <2>6, <1>0
      <4> QED BY <4>2, <2>3
    <3>2. CASE j \in 1..Len(lines) /\ lines'[j].day = lines[j].day
      BY <3>1, <3>2, <2>6, <1>1
    <3>3. CASE lines'[j].day = job[w].now
      BY <3>1, <3>3, <2>2
    <3> QED BY <3>2, <3>3, <2>3
  <2> QED BY <2>1, <2>4, <2>5, <2>6 DEF InOrder
<1>6. ASSUME NEW w \in Writers, Begin(w) \/ Compose(w) \/ OpenFile(w) \/ Return(w) \/ EndsEarly(w)
      PROVE  UNCHANGED <<today, lines>>
  BY <1>6 DEF Begin, StartsOn, Compose, OpenFile, Return, EndsEarly
<1>7. CASE UNCHANGED vars
  BY <1>3, <1>7 DEF vars
<1> QED BY <1>2, <1>3, <1>4, <1>5, <1>6, <1>7 DEF Next

LEMMA LinesStep ==
    ASSUME TypeOK, WorkInv, [Next]_vars
    PROVE  LinesOK'
<1>0. /\ DOMAIN lines = 1..Len(lines) /\ Len(lines) \in Nat /\ lines \in Seq(Line)
      /\ lastId \in Nat /\ gone \in Nat
      /\ \A i \in 1..Len(lines) : lines[i].seq \in Nat /\ lines[i].id \in Nat /\ lines[i].through \in Nat
      /\ \A e \in acked : e.id \in Nat
  BY LinesAre, LineIs DEF TypeOK
<1>1. /\ \A i \in 1..Len(lines) : /\ lines[i].seq <= lines[i].id /\ lines[i].id <= lastId
                                  /\ lines[i].seq = 1 => lines[i].prev = Genesis
                                  /\ lines[i].through <= gone
      /\ gone <= lastId
      /\ acked # {} /\ lines = <<>> => gone > 0
      /\ \A e \in acked : e.id <= lastId
  BY <1>0 DEF WorkInv, LinesOK, Numbers
<1>2. ASSUME UNCHANGED <<lines, lastId, acked, gone>> PROVE LinesOK'
  BY <1>2 DEF WorkInv, LinesOK, Numbers
<1>3. ASSUME NEW w \in Writers, RemoveExpired(w) PROVE LinesOK'
  <2>1. /\ lines' \in Seq(Line) /\ Drops(lines, lines', Taken(w)) /\ Taken(w) \in Nat
        /\ UNCHANGED <<lastId, acked>>
    <3>1. lines' \in Seq(Line) /\ Drops(lines, lines', Taken(w)) /\ Taken(w) \in 0..Len(lines)
      BY <1>3, RemovalIs
    <3> QED BY <3>1, <1>0, <1>3 DEF RemoveExpired
  <2>2. /\ gone' \in Nat /\ gone <= gone' /\ LastOfDay(Oldest(w)).seq <= gone'
        /\ gone' \in {gone, LastOfDay(Oldest(w)).seq}
    <3>1. gone' \in 0..MaxLines /\ gone <= gone' /\ LastOfDay(Oldest(w)).seq <= gone'
          /\ gone' \in {gone, LastOfDay(Oldest(w)).seq}
      BY <1>3, RemovalIs
    <3> QED BY <3>1, Numerals
  <2>3. /\ LastOfDay(Oldest(w)) = IF Taken(w) = 0 THEN NoLine ELSE lines[Taken(w)]
        /\ Taken(w) \in 0..Len(lines)
    BY <1>3, RemovalIs
  <2>4. \A i \in 1..Len(lines') : i + Taken(w) \in 1..Len(lines) /\ lines'[i] = lines[i + Taken(w)]
    BY <1>0, <2>1, DropsIs
  <2>5. DOMAIN lines' = 1..Len(lines')
    BY <2>1, EmptyIs
  <2>6. gone' <= lastId
    <3>1. CASE Taken(w) = 0
      BY <3>1, <2>2, <2>3, <1>0, <1>1, NoLineIs
    <3>2. CASE Taken(w) # 0
      <4>1. Taken(w) \in 1..Len(lines) /\ LastOfDay(Oldest(w)) = lines[Taken(w)]
        BY <3>2, <2>3, <1>0
      <4>2. LastOfDay(Oldest(w)).seq <= lastId
        BY <4>1, <1>0, <1>1
      <4> QED BY <4>2, <2>2, <1>1
    <3> QED BY <3>1, <3>2
  <2>7. ASSUME acked # {}, lines' = <<>> PROVE gone' > 0
    <3>1. CASE lines = <<>>
      BY <2>7, <3>1, <2>2, <1>0, <1>1
    <3>2. CASE lines # <<>>
      <4>1. Taken(w) = Len(lines)
        BY <2>1, <2>7, <1>0, DropsIs
      <4>2. Len(lines) # 0 /\ Len(lines) \in 1..Len(lines)
        BY <3>2, LinesAre
      <4>3. lines[Len(lines)].seq >= 1 /\ lines[Len(lines)].seq \in Nat
        BY <4>2, LinesAre, LineIs
      <4> QED BY <4>1, <4>2, <4>3, <2>2, <2>3
    <3> QED BY <3>1, <3>2
  <2>8. \A i \in 1..Len(lines') : lines'[i].through <= gone'
    <3> SUFFICES ASSUME NEW i \in 1..Len(lines') PROVE lines'[i].through <= gone'
      OBVIOUS
    <3>1. lines'[i].through \in Nat /\ lines'[i].through <= gone
      BY <2>4, <1>0, <1>1
    <3> QED BY <3>1, <2>2, <1>0
  <2>9. \A i \in 1..Len(lines') : /\ lines'[i].seq <= lines'[i].id /\ lines'[i].id <= lastId
                                  /\ lines'[i].seq = 1 => lines'[i].prev = Genesis
    BY <2>4, <1>1
  <2> QED BY <1>1, <2>1, <2>5, <2>6, <2>7, <2>8, <2>9 DEF LinesOK, Numbers
<1>4. ASSUME NEW w \in Writers, Compose(w) PROVE LinesOK'
  <2>1. lastId' = lastId + Len(job'[w].todo) /\ Len(job'[w].todo) \in {1, 2}
    BY <1>4, ComposeIs
  <2>2. lastId' \in Nat /\ lastId <= lastId'
    BY <2>1, <1>0
  <2>3. UNCHANGED <<lines, acked, gone>>
    BY <1>4 DEF Compose, history
  <2>4. \A i \in 1..Len(lines) : lines[i].id <= lastId'
    BY <2>2, <1>0, <1>1
  <2>5. \A e \in acked : e.id <= lastId'
    BY <2>2, <1>0, <1>1
  <2>6. gone <= lastId'
    BY <2>2, <1>0, <1>1
  <2> QED BY <2>3, <2>4, <2>5, <2>6, <1>0, <1>1 DEF LinesOK, Numbers
<1>5. ASSUME NEW w \in Writers, WriteLine(w) \/ WriteTorn(w) PROVE LinesOK'
  <2>1. PICK l \in Line :
             /\ pc[w] = "writing" /\ Same(l, job[w].todo[1])
             /\ lines' \in Seq(Line) /\ lines' # <<>>
             /\ \A i \in 1..Len(lines') : \/ i \in 1..Len(lines) /\ Same(lines'[i], lines[i])
                                          \/ i = Len(lines) + 1 /\ Same(lines'[i], l)
             /\ UNCHANGED <<today, files, lastId, acked, gone>>
    BY <1>5, WroteIs
  <2>2. /\ job[w].todo[1].seq <= job[w].todo[1].id /\ job[w].todo[1].id <= lastId
        /\ job[w].todo[1].seq = 1 => job[w].todo[1].prev = Genesis
        /\ job[w].todo[1].through <= gone
    <3>1. Writing(w) /\ job[w].removed.seq <= gone /\ job[w].todo[1] \in Line
          /\ Len(job[w].todo) \in {1, 2} /\ job[w] \in Job
      BY <2>1, NextLineIs
    <3>2. 1 \in 1..Len(job[w].todo)
      BY <3>1
    <3>3. Numbers(job[w].todo[1]) /\ job[w].todo[1].through <= job[w].removed.seq
      BY <3>1, <3>2 DEF Writing
    <3>4. job[w].removed.seq \in Nat /\ job[w].todo[1].through \in Nat
      BY <3>1, JobIs, RemovedIs, LineIs
    <3> QED BY <3>1, <3>3, <3>4, <1>0 DEF Numbers
  <2>3. DOMAIN lines' = 1..Len(lines')
    BY <2>1, EmptyIs
  <2>4. \A i \in 1..Len(lines') : Numbers(lines[i])' /\ lines'[i].through <= gone'
    <3> SUFFICES ASSUME NEW i \in 1..Len(lines')
                 PROVE  Numbers(lines[i])' /\ lines'[i].through <= gone'
      OBVIOUS
    <3>1. CASE i \in 1..Len(lines) /\ Same(lines'[i], lines[i])
      BY <2>1, <3>1, <1>1 DEF Same, Numbers
    <3>2. CASE Same(lines'[i], l)
      BY <2>1, <3>2, <2>2 DEF Same, Numbers
    <3> QED BY <2>1, <3>1, <3>2
  <2> QED BY <2>1, <2>3, <2>4, <1>1 DEF LinesOK
<1>6. ASSUME NEW w \in Writers, Return(w) PROVE LinesOK'
  <2>1. pc[w] = "written" /\ UNCHANGED <<lines, lastId, gone>>
        /\ acked' = acked \cup {Last(job[w].todo)}
    BY <1>6 DEF Return
  <2>2. AtWork(w) /\ Writing(w) /\ Written(w)
    BY <2>1 DEF WorkInv, AtWork
  <2>3. Last(job[w].todo) = job[w].todo[1] /\ job[w].todo[1].id <= lastId
    <3>1. Len(job[w].todo) = 1
      BY <2>2 DEF Written
    <3>2. Last(job[w].todo) = job[w].todo[1]
      BY <3>1 DEF Last
    <3>3. Numbers(job[w].todo[1])
      BY <3>1, <2>2 DEF Writing
    <3> QED BY <3>2, <3>3 DEF Numbers
  <2>4. lines # <<>>
    BY <2>2 DEF Written
  <2>5. \A e \in acked' : e.id <= lastId
    BY <2>1, <2>3, <1>1
  <2>6. \A i \in DOMAIN lines : Numbers(lines[i])' /\ lines[i].through <= gone
    BY <2>1, <1>0, <1>1 DEF Numbers
  <2> QED BY <2>1, <2>4, <2>5, <2>6, <1>1 DEF LinesOK
<1>7. ASSUME NEW w \in Writers, Begin(w) \/ OpenFile(w) \/ EndsEarly(w)
      PROVE  UNCHANGED <<lines, lastId, acked, gone>>
  BY <1>7 DEF Begin, StartsOn, OpenFile, EndsEarly, history
<1>8. CASE NextDay \/ UNCHANGED vars
  BY <1>2, <1>8 DEF vars, NextDay, history
<1> QED BY <1>2, <1>3, <1>4, <1>5, <1>6, <1>7, <1>8 DEF Next

(* LastOfDay of any lines. *)
DayLast(s, day) ==
    IF \E i \in DOMAIN s : s[i].day = day
    THEN s[Max({0} \cup {i \in DOMAIN s : s[i].day <= day})] ELSE NoLine

(* The last line of a later day stays what it is when the lines up to an    *)
(* earlier one are removed.                                                 *)
LEMMA LastOfDayKept ==
    ASSUME TypeOK, TypeOK', InOrder, InOrder', NEW n \in Nat, Drops(lines, lines', n),
           NEW day \in Nat, \A i \in 1..Len(lines) : i <= n => lines[i].day # day
    PROVE  DayLast(lines', day) = LastOfDay(day)
<1> DEFINE s == lines'
           P(t) == Max({0} \cup {i \in DOMAIN t : t[i].day <= day})
           m == P(s)
           j == P(lines)
<1>0. /\ s \in Seq(Line) /\ DOMAIN s = 1..Len(s) /\ Len(s) \in Nat
      /\ lines \in Seq(Line) /\ DOMAIN lines = 1..Len(lines) /\ Len(lines) \in Nat
      /\ \A i \in 1..Len(lines) : lines[i].day \in Nat
  BY EmptyIs, LinesAre DEF TypeOK
<1>1. DayLast(s, day) = IF \E i \in DOMAIN s : s[i].day = day THEN s[m] ELSE NoLine
  BY DEF DayLast
<1>2. LastOfDay(day) = IF \E i \in DOMAIN lines : lines[i].day = day THEN lines[j] ELSE NoLine
  BY DEF LastOfDay, UpTo
<1>3. m \in 0..Len(s) /\ (\A i \in 1..Len(s) : s[i].day <= day => i <= m) /\ (m # 0 => s[m].day <= day)
  BY <1>0, PlaceIs
<1>4. j \in 0..Len(lines) /\ (\A i \in 1..Len(lines) : lines[i].day <= day => i <= j)
      /\ (j # 0 => lines[j].day <= day)
  BY <1>0, PlaceIs
<1> HIDE DEF m, j, P
<1>5. /\ \A i \in 1..Len(s) : i + n \in 1..Len(lines) /\ s[i] = lines[i + n]
      /\ \A i \in 1..Len(lines) : i > n => i - n \in 1..Len(s) /\ s[i - n] = lines[i]
  <2>1. lines \in Seq(Line) /\ s \in Seq(Line) /\ Drops(lines, s, n)
    BY <1>0
  <2> HIDE DEF s
  <2> QED BY <2>1, DropsIs
<1>6. \A i, k \in 1..Len(lines) : i < k => lines[i].day <= lines[k].day
  BY <1>0 DEF InOrder
<1> HIDE DEF s
<1>7. CASE \E i \in 1..Len(s) : s[i].day = day
  <2> PICK i \in 1..Len(s) : s[i].day = day
    BY <1>7
  <2>1. i + n \in 1..Len(lines) /\ lines[i + n].day = day
    BY <1>5
  <2>2. i <= m /\ m \in 1..Len(s) /\ s[m].day <= day
    BY <1>0, <1>3
  <2>3. m + n \in 1..Len(lines) /\ lines[m + n] = s[m] /\ m + n <= j
    BY <2>2, <1>4, <1>5
  <2>4. j \in 1..Len(lines) /\ lines[j].day <= day /\ j > n
    BY <2>2, <2>3, <1>0, <1>4
  <2>5. j - n \in 1..Len(s) /\ s[j - n] = lines[j] /\ j - n <= m
    BY <2>4, <1>3, <1>5
  <2>6. m = j - n
    BY <2>2, <2>3, <2>4, <2>5, <1>0
  <2>7. DayLast(s, day) = s[m] /\ LastOfDay(day) = lines[j]
    BY <1>0, <1>1, <1>2, <2>1
  <2> QED BY <2>5, <2>6, <2>7 DEF s
<1>8. CASE ~\E i \in 1..Len(s) : s[i].day = day
  <2>1. ASSUME NEW i \in 1..Len(lines), lines[i].day = day PROVE FALSE
    <3>1. i > n
      BY <2>1, <1>0
    <3>2. i - n \in 1..Len(s) /\ s[i - n] = lines[i]
      BY <3>1, <1>5
    <3> QED BY <1>8, <2>1, <3>2
  <2> QED BY <1>0, <1>1, <1>2, <1>8, <2>1 DEF s
<1> QED BY <1>7, <1>8

(* A writer starts with what lies outside of its window. *)
LEMMA BeginWork ==
    ASSUME TypeOK, WorkInv, NEW w \in Writers, Begin(w)
    PROVE  AtWork(w)'
<1>0. /\ DOMAIN lines = 1..Len(lines) /\ today \in Nat /\ lastId \in Nat /\ gone \in Nat
      /\ files \in SUBSET Nat /\ MaxDay \in Nat /\ \A d \in files : d <= MaxDay
  BY LinesAre, Numerals DEF TypeOK, Days
<1>1. InOrder /\ LinesOK
  BY DEF WorkInv
<1> PICK r \in Retentions :
             /\ lastId + 2 <= MaxLines
             /\ pc' = [pc EXCEPT ![w] = "removing"]
             /\ job'[w].now = today /\ job'[w].expired = Expired(today, r)
             /\ job'[w].todo = <<>>
             /\ job'[w].removed = IF Expired(today, r) = {} THEN NoLine
                                  ELSE LastOfDay(Max(Expired(today, r)))
             /\ job'[w].removed.parses
             /\ UNCHANGED <<today, files, lines, lastId, history>>
  BY <1>1, BeginIs
<1> DEFINE days == Expired(today, r)
           last == job'[w].removed
<1>2. r \in Nat /\ days = {d \in files : r # 0 /\ d + r < today}
  BY Numerals DEF Expired
<1>3. days \in SUBSET files /\ \A d \in days, f \in files \ days : d < f
  <2>1. ASSUME NEW d \in days, NEW f \in files \ days PROVE d < f
    <3>1. d \in Nat /\ r # 0 /\ d + r < today
      BY <1>0, <1>2, <2>1
    <3>2. f \in Nat /\ ~(f + r < today)
      BY <1>0, <1>2, <2>1, <3>1
    <3> QED BY <3>1, <3>2, <1>0, <1>2
  <2> QED BY <1>2, <2>1
<1>4. \A d \in days : r \in Retentions \ {0} /\ d + r < today
  BY <1>2
<1>5. pc'[w] = "removing"
  BY DEF TypeOK
<1> HIDE DEF days
<1>6. /\ last.seq <= last.id /\ last.id <= lastId /\ (last.seq = 0 => last.id = 0)
      /\ (days = {} => last.seq = 0)
  <2>1. CASE last = NoLine
    BY <2>1, NoLineIs, <1>0
  <2>2. CASE last # NoLine
    <3>1. days # {} /\ last = LastOfDay(Max(days))
      BY <2>2 DEF days
    <3>2. Max(days) \in Nat
      <4>1. days \in SUBSET Nat /\ \A d \in days : d <= MaxDay
        BY <1>0, <1>3
      <4>2. Max(days) \in days
        BY <4>1, <3>1, <1>0, MaxIs
      <4> QED BY <4>1, <4>2
    <3>3. UpTo(Max(days)) \in 1..Len(lines) /\ last = lines[UpTo(Max(days))]
      BY <2>2, <3>1, <3>2, <1>1, LastOfDayIs
    <3>4. last \in Line /\ Numbers(last)
      BY <3>3, <1>0, <1>1, LinesAre DEF LinesOK
    <3> QED BY <3>1, <3>4, LineIs DEF Numbers
  <2> QED BY <2>1, <2>2
<1>7. Removing(w)'
  <2>1. job'[w].expired = days /\ (days # {} => last = LastOfDay(Max(days)))
    BY DEF days
  <2>2. LastOfDay(Max(job[w].expired))' = LastOfDay(Max(days))
    <3>1. LastOfDay(Max(job[w].expired))' = DayLast(lines', Max(job'[w].expired))
      BY DEF LastOfDay, UpTo, DayLast
    <3>2. LastOfDay(Max(days)) = DayLast(lines, Max(days))
      BY DEF LastOfDay, UpTo, DayLast
    <3> QED BY <2>1, <3>1, <3>2
  <2> QED BY <2>1, <2>2, <1>3, <1>4 DEF Removing, last
<1>8. today <= today /\ \A i \in DOMAIN lines : lines[i].day <= today
  BY <1>0, <1>1 DEF InOrder
<1>9. job'[w].expired = {} => job'[w].removed.seq <= gone'
  BY <1>0, <1>6 DEF days, history
<1> HIDE DEF last
<1> QED BY <1>5, <1>6, <1>7, <1>8, <1>9 DEF AtWork, Genesis, last

LEMMA RemoveWork ==
    ASSUME TypeOK, TypeOK', WorkInv, InOrder', NEW w \in Writers, RemoveExpired(w)
    PROVE  AtWork(w)'
<1> DEFINE d == Oldest(w)
           e == job[w].expired
<1>0. /\ DOMAIN lines = 1..Len(lines) /\ Len(lines) \in Nat /\ lines \in Seq(Line) /\ InOrder
      /\ MaxDay \in Nat
  BY LinesAre, Numerals DEF WorkInv
<1>1. pc[w] = "removing" /\ files' = files \ {d} /\ job' = [job EXCEPT ![w].expired = @ \ {d}]
      /\ UNCHANGED <<today, lastId, lock, pc, acked, trouble>> /\ e # {}
  BY DEF RemoveExpired, Oldest
<1>2. AtWork(w) /\ Removing(w)
  BY <1>1 DEF WorkInv, AtWork
<1>3. /\ d \in e /\ (\A x \in e : d <= x) /\ d \in Nat
      /\ lines' \in Seq(Line) /\ Drops(lines, lines', Taken(w)) /\ Taken(w) \in Nat
      /\ \A i \in 1..Len(lines) : i <= Taken(w) => lines[i].day = d
  <2>1. /\ d \in e /\ (\A x \in e : d <= x) /\ d \in Nat
        /\ lines' \in Seq(Line) /\ Drops(lines, lines', Taken(w)) /\ Taken(w) \in 0..Len(lines)
        /\ \A i \in 1..Len(lines) : i <= Taken(w) => lines[i].day = d
    BY RemovalIs
  <2>2. Taken(w) \in Nat
    BY <2>1, <1>0
  <2> QED BY <2>1, <2>2
<1>4. e \in SUBSET Nat /\ \A x \in e : x <= MaxDay
  <2>1. e \in SUBSET Days
    BY JobIs DEF TypeOK
  <2> QED BY <2>1, Numerals DEF Days
<1>5. /\ job'[w].now = job[w].now /\ job'[w].expired = e \ {d}
      /\ job'[w].removed = job[w].removed /\ job'[w].todo = job[w].todo
  BY <1>1 DEF TypeOK, Job
<1>6. /\ gone <= gone' /\ LastOfDay(d).seq <= gone'
  BY RemovalIs
<1> HIDE DEF d, e
<1>7. Max(e) \in e /\ \A x \in e : x <= Max(e)
  BY <1>1, <1>4, <1>0, MaxIs
<1>8. job[w].removed = LastOfDay(Max(e))
  BY <1>1, <1>2 DEF Removing, e
<1>9. ASSUME e \ {d} = {} PROVE job[w].removed.seq <= gone'
  <2>1. Max(e) = d
    BY <1>7, <1>9
  <2> QED BY <2>1, <1>6, <1>8
<1>10. ASSUME e \ {d} # {} PROVE job[w].removed = DayLast(lines', Max(e \ {d}))
  <2> DEFINE f == e \ {d}
  <2>1. f \in SUBSET Nat /\ \A x \in f : x <= MaxDay
    BY <1>4
  <2>2. Max(f) \in f /\ \A x \in f : x <= Max(f)
    BY <2>1, <1>0, <1>10, MaxIs
  <2>3. Max(e) \in Nat /\ Max(f) \in Nat /\ Max(f) # d /\ Max(f) <= Max(e) /\ d <= Max(f)
    BY <2>1, <2>2, <1>3, <1>4, <1>7
  <2>4. Max(e) \in f
    BY <2>3, <1>3, <1>7
  <2>5. Max(e) = Max(f)
    BY <2>2, <2>3, <2>4
  <2>6. \A i \in 1..Len(lines) : i <= Taken(w) => lines[i].day # Max(f)
    BY <1>3, <2>3
  <2> HIDE DEF f
  <2>7. DayLast(lines', Max(f)) = LastOfDay(Max(f))
    BY <2>3, <2>6, <1>0, <1>3, LastOfDayKept
  <2> QED BY <2>5, <2>7, <1>8 DEF f
<1>11. Removing(w)'
  <2>1. e \ {d} \subseteq files' /\ files' \ (e \ {d}) \subseteq files \ e
    BY <1>1, <1>2, <1>3 DEF Removing, e
  <2>2. \A x \in e \ {d}, f \in files' \ (e \ {d}) : x < f
    BY <2>1, <1>2 DEF Removing, e
  <2>3. \A x \in e \ {d} : \E r \in Retentions \ {0} : x + r < today
    BY <1>2 DEF Removing, e
  <2>4. lastId + 2 <= MaxLines /\ job[w].todo = <<>>
    BY <1>2 DEF Removing
  <2>5. LastOfDay(Max(job[w].expired))' = DayLast(lines', Max(job'[w].expired))
    BY DEF LastOfDay, UpTo, DayLast
  <2> QED BY <2>1, <2>2, <2>3, <2>4, <2>5, <1>1, <1>5, <1>10 DEF Removing
<1>12. \A i \in DOMAIN lines' : lines'[i].day <= job[w].now
  <2>1. DOMAIN lines' = 1..Len(lines')
    BY <1>3, EmptyIs
  <2>2. \A i \in 1..Len(lines') : i + Taken(w) \in 1..Len(lines) /\ lines'[i] = lines[i + Taken(w)]
    BY <1>0, <1>3, DropsIs
  <2> QED BY <2>1, <2>2, <1>0, <1>2 DEF AtWork
<1> QED BY <1>1, <1>2, <1>5, <1>9, <1>11, <1>12 DEF AtWork

LEMMA ComposeWork ==
    ASSUME TypeOK, WorkInv, NEW w \in Writers, Compose(w)
    PROVE  AtWork(w)'
<1> DEFINE todo == job'[w].todo
           p == Previous(w)
<1>0. /\ lastId \in Nat /\ p.seq \in Nat /\ p.id \in Nat /\ p.seq <= p.id /\ p.id <= lastId
      /\ p.seq = 0 => p.id = 0
      /\ job[w].removed.seq \in Nat /\ gone \in Nat /\ job[w].removed.id \in Nat
      /\ \A e \in acked : e.id \in Nat /\ e.id <= lastId
  <2>1. pc[w] # "idle"
    BY DEF Compose
  <2>2. /\ p.seq \in Nat /\ p.id \in Nat /\ p.seq <= p.id /\ p.id <= lastId
        /\ p.seq = 0 => p.id = 0
    BY <2>1, PreviousIs
  <2>3. job[w].removed.seq \in Nat /\ job[w].removed.id \in Nat
    BY JobIs, RemovedIs DEF TypeOK
  <2>4. \A e \in acked : e.id \in Nat /\ e.id <= lastId
    BY LineIs DEF TypeOK, WorkInv, LinesOK
  <2> QED BY <2>2, <2>3, <2>4 DEF TypeOK
<1>1. /\ pc[w] = "removing" /\ AtWork(w)
      /\ job'[w].now = job[w].now /\ job'[w].expired = {}
      /\ job[w].expired = {} /\ job'[w].removed = job[w].removed
      /\ todo \in Seq(Line) /\ Len(todo) \in {1, 2}
      /\ lastId' = lastId + Len(todo)
  BY ComposeIs
<1>2. LET l == todo[1] IN
      /\ l.id = lastId + 1 /\ l.seq = p.seq + 1 /\ l.prev = p.id
      /\ l.day = job[w].now /\ l.through = job[w].removed.seq /\ l.parses /\ l.ended
  BY ComposeIs
<1>3. Len(todo) = 2 => LET l == todo[2] IN
                       /\ l.id = lastId + 2 /\ l.seq = p.seq + 2 /\ l.prev = lastId + 1
                       /\ l.day = job[w].now /\ l.through = 0 /\ l.parses /\ l.ended
  BY ComposeIs
<1>4. pc' = [pc EXCEPT ![w] = "writing"] /\ UNCHANGED <<today, files, lines, lock, acked, gone, trouble>>
  BY DEF Compose, history
<1>5. pc'[w] = "writing"
  BY <1>4 DEF TypeOK
<1> HIDE DEF todo, p
<1>6. Writing(w)'
  <2>1. ASSUME NEW k \in 1..Len(todo)
        PROVE  /\ todo[k].seq <= todo[k].id /\ todo[k].id <= lastId'
               /\ todo[k].seq = 1 => todo[k].prev = Genesis
               /\ todo[k].day = job[w].now /\ todo[k].parses /\ todo[k].ended
               /\ todo[k].through <= job[w].removed.seq
               /\ \A e \in acked : e.id < todo[k].id
    <3>0. k = 1 \/ (k = 2 /\ Len(todo) = 2)
      <4>1. ASSUME NEW n \in {1, 2}, NEW i \in 1..n PROVE i = 1 \/ (i = 2 /\ n = 2)
        OBVIOUS
      <4> QED BY <4>1, <1>1
    <3>1. CASE k = 1
      <4>1. lastId + 1 <= lastId'
        BY <1>0, <1>1
      <4> QED BY <3>1, <4>1, <1>0, <1>2 DEF Genesis
    <3>2. CASE k = 2
      <4>1. Len(todo) = 2
        BY <3>2, <3>0
      <4>2. lastId' = lastId + 2
        BY <4>1, <1>1
      <4> QED BY <3>2, <4>1, <4>2, <1>0, <1>3
    <3> QED BY <3>0, <3>1, <3>2
  <2>2. Len(todo) = 2 => Follows(todo[2], todo[1])
    <3> SUFFICES ASSUME Len(todo) = 2 PROVE Follows(todo[2], todo[1])
      OBVIOUS
    <3>1. todo[2].seq = p.seq + 2 /\ todo[1].seq = p.seq + 1
      BY <1>2, <1>3
    <3>2. todo[2].prev = lastId + 1 /\ todo[1].id = lastId + 1
      BY <1>2, <1>3
    <3>3. todo[2].seq = todo[1].seq + 1
      BY <3>1, <1>0
    <3> QED BY <3>2, <3>3 DEF Follows
  <2> QED BY <1>1, <1>4, <2>1, <2>2 DEF Writing, Numbers, Follows, todo
<1>7. job[w].removed.id <= lastId'
  <2>1. job[w].removed.id <= lastId
    BY <1>1 DEF AtWork
  <2>2. lastId <= lastId' /\ lastId' \in Nat
    BY <1>0, <1>1
  <2> QED BY <2>1, <2>2, <1>0
<1> QED BY <1>1, <1>4, <1>5, <1>6, <1>7 DEF AtWork

LEMMA WriteWork ==
    ASSUME TypeOK, WorkInv, NEW w \in Writers, WriteLine(w)
    PROVE  AtWork(w)'
<1>1. /\ pc[w] = "writing" /\ lines' \in Seq(Line)
      /\ Adds(lines, lines', job[w].todo[1]) \/ RunsOn(lines, lines')
      /\ job'[w].now = job[w].now /\ job'[w].expired = job[w].expired
      /\ job'[w].removed = job[w].removed
      /\ \/ /\ Len(job[w].todo) = 2 /\ pc' = pc /\ job'[w].todo = Tail(job[w].todo)
         \/ /\ Len(job[w].todo) = 1 /\ pc' = [pc EXCEPT ![w] = "written"] /\ job' = job
      /\ UNCHANGED <<today, files, lastId, lock, history>>
  BY WriteIs
<1>2. /\ AtWork(w) /\ Writing(w) /\ job[w].expired = {}
      /\ \A i \in 1..Len(lines) : lines[i].day <= job[w].now
      /\ (Len(job[w].todo) = 2 => /\ Len(Tail(job[w].todo)) = 1
                                  /\ Tail(job[w].todo)[1] = job[w].todo[2])
  BY <1>1, NextLineIs
<1>3. \A i \in DOMAIN lines' : lines'[i].day <= job[w].now
  <2>1. PICK l \in Line :
             /\ l.day = job[w].now
             /\ \A i \in 1..Len(lines') : \/ i \in 1..Len(lines) /\ Same(lines'[i], lines[i])
                                          \/ i = Len(lines) + 1 /\ Same(lines'[i], l)
    BY WroteIs
  <2>2. DOMAIN lines' = 1..Len(lines')
    BY <1>1, EmptyIs
  <2>3. job[w].now \in Nat
    BY JobIs, Numerals DEF TypeOK
  <2> QED BY <2>1, <2>2, <2>3, <1>2 DEF Same
<1>4. lines' # <<>> /\ (Last(lines').parses => Last(lines') = job[w].todo[1])
  <2>1. CASE Adds(lines, lines', job[w].todo[1])
    BY <2>1, <1>1, LinesAre, AddsIs
  <2>2. CASE RunsOn(lines, lines')
    BY <2>2, <1>1, LinesAre, RunsOnIs
  <2> QED BY <1>1, <2>1, <2>2
<1>5. acked' = acked /\ gone' = gone /\ lastId' = lastId /\ today' = today /\ trouble' = trouble
  BY <1>1 DEF history
<1>6. CASE Len(job[w].todo) = 2
  <2>1. pc' = pc /\ job'[w].todo = Tail(job[w].todo)
    BY <1>1, <1>6
  <2>2. Len(job'[w].todo) = 1 /\ job'[w].todo[1] = job[w].todo[2]
    BY <2>1, <1>2, <1>6
  <2>3. 2 \in 1..Len(job[w].todo)
    BY <1>6
  <2>4. ASSUME NEW k \in 1..1 PROVE job'[w].todo[k] = job[w].todo[2]
    BY <2>2
  <2>5. Writing(w)'
    BY <2>2, <2>3, <2>4, <1>1, <1>2, <1>5 DEF Writing, Numbers
  <2> QED BY <2>1, <2>5, <1>1, <1>2, <1>3, <1>5 DEF AtWork
<1>7. CASE Len(job[w].todo) = 1
  <2>1. pc'[w] = "written" /\ job' = job
    BY <1>1, <1>7 DEF TypeOK
  <2>2. Writing(w)' /\ Written(w)'
    BY <2>1, <1>2, <1>4, <1>5, <1>7 DEF Writing, Written, Numbers
  <2> QED BY <2>1, <2>2, <1>2, <1>3, <1>5 DEF AtWork
<1> QED BY <1>1, <1>6, <1>7

LEMMA WorkStep ==
    ASSUME TypeOK, TypeOK', WorkInv, [Next]_vars
    PROVE  WorkInv'
<1>1. InOrder' /\ LinesOK'
  BY OrderStep, LinesStep
<1>2. ASSUME NEW v \in Writers, pc'[v] # "idle" PROVE AtWork(v)'
  <2>1. CASE NextDay
    <3>1. today' = today + 1 /\ today \in Nat /\ job[v].now \in Nat
      BY <2>1, JobIs, Numerals DEF NextDay, TypeOK
    <3>2. UNCHANGED <<files, lines, lastId, lock, pc, job, acked, gone, trouble>>
      BY <2>1 DEF NextDay, appendVars, history
    <3>3. AtWork(v)
      BY <1>2, <3>2 DEF WorkInv
    <3>4. job[v].now <= today'
      BY <3>1, <3>3 DEF AtWork
    <3>5. pc[v] = "removing" => Removing(v)'
      <4> SUFFICES ASSUME pc[v] = "removing" PROVE Removing(v)'
        OBVIOUS
      <4>1. Removing(v)
        BY <3>3 DEF AtWork
      <4>2. LastOfDay(Max(job[v].expired))' = LastOfDay(Max(job[v].expired))
        BY <3>2 DEF LastOfDay, UpTo
      <4>3. \A d \in job[v].expired : \E r \in Retentions \ {0} : d + r < today'
        <5> SUFFICES ASSUME NEW d \in job[v].expired
                     PROVE  \E r \in Retentions \ {0} : d + r < today'
          OBVIOUS
        <5>1. PICK r \in Retentions \ {0} : d + r < today
          BY <4>1 DEF Removing
        <5>2. d \in Nat /\ r \in Nat
          BY JobIs, Numerals DEF TypeOK
        <5>3. d + r < today'
          BY <5>1, <5>2, <3>1
        <5> QED BY <5>3
      <4> QED BY <4>1, <4>2, <4>3, <3>2 DEF Removing
    <3>6. pc[v] # "removing" => job[v].expired = {} /\ Writing(v)'
      BY <3>2, <3>3 DEF AtWork, Writing, Numbers
    <3>7. pc[v] = "written" => Written(v)'
      BY <3>2, <3>3 DEF AtWork, Written
    <3> QED BY <3>2, <3>3, <3>4, <3>5, <3>6, <3>7 DEF AtWork
  <2>2. ASSUME NEW w \in Writers, Begin(w) PROVE AtWork(v)'
    <3>1. v = w
      BY <2>2, <1>2, LockIs DEF Begin, StartsOn, TypeOK
    <3> QED BY <2>2, <3>1, BeginWork
  <2>3. ASSUME NEW w \in Writers, pc[w] # "idle",
               RemoveExpired(w) \/ Compose(w) \/ OpenFile(w) \/ WriteLine(w)
        PROVE  v = w
    <3>1. pc[v] # "idle" \/ v = w
      BY <2>3, <1>2 DEF RemoveExpired, Compose, OpenFile, WriteLine, appendVars, TypeOK
    <3> QED BY <2>3, <3>1, LockIs
  <2>4. ASSUME NEW w \in Writers, RemoveExpired(w) PROVE AtWork(v)'
    <3>1. v = w
      BY <2>3, <2>4 DEF RemoveExpired
    <3> QED BY <2>4, <3>1, <1>1, RemoveWork
  <2>5. ASSUME NEW w \in Writers, Compose(w) PROVE AtWork(v)'
    <3>1. v = w
      BY <2>3, <2>5 DEF Compose
    <3> QED BY <2>5, <3>1, ComposeWork
  <2>6. ASSUME NEW w \in Writers, OpenFile(w) PROVE AtWork(v)'
    <3>1. v = w
      BY <2>3, <2>6 DEF OpenFile
    <3>2. pc[w] = "writing" /\ UNCHANGED <<today, lines, lastId, lock, pc, job, acked, gone, trouble>>
      BY <2>6 DEF OpenFile, appendVars, history
    <3>3. AtWork(w)
      BY <3>2 DEF WorkInv
    <3>4. Writing(w)'
      BY <3>2, <3>3 DEF AtWork, Writing, Numbers
    <3> QED BY <3>1, <3>2, <3>3, <3>4 DEF AtWork
  <2>7. ASSUME NEW w \in Writers, WriteLine(w) PROVE AtWork(v)'
    <3>1. v = w
      BY <2>3, <2>7 DEF WriteLine
    <3> QED BY <2>7, <3>1, WriteWork
  <2>8. ASSUME NEW w \in Writers, Return(w) \/ EndsEarly(w) \/ WriteTorn(w) PROVE FALSE
    <3>1. pc[w] # "idle" /\ Ends(w)
      BY <2>8 DEF Return, EndsEarly, WriteTorn
    <3> QED BY <3>1, <1>2, EndsIs
  <2>9. CASE UNCHANGED vars
    <3>1. UNCHANGED <<today, files, lines, lastId, lock, pc, job, acked, gone, trouble>>
      BY <2>9 DEF vars, appendVars, history
    <3>2. AtWork(v)
      BY <3>1, <1>2 DEF WorkInv
    <3> QED BY <3>1, <3>2 DEF AtWork, Removing, Writing, Written, Numbers, LastOfDay, UpTo
  <2> QED BY <2>1, <2>2, <2>4, <2>5, <2>6, <2>7, <2>8, <2>9 DEF Next
<1> QED BY <1>1, <1>2 DEF WorkInv

---------------------------------------------------------------------------
(* WholeInv *)

(* A line that is put after one that ended is a line of its own. *)
LEMMA OwnLine ==
    ASSUME TypeOK, WorkInv, WholeInv, "unended" \notin trouble,
           NEW w \in Writers, pc[w] = "writing", lines' \in Seq(Line)
    PROVE  ~RunsOn(lines, lines')
<1> SUFFICES ASSUME RunsOn(lines, lines') PROVE FALSE
  OBVIOUS
<1>1. lines # <<>> /\ ~Last(lines).ended /\ Last(lines) = lines[Len(lines)] /\ Len(lines) \in 1..Len(lines)
  BY LinesAre, RunsOnIs
<1>2. Last(lines).parses
  BY <1>1 DEF WholeInv
<1> QED BY <1>1, <1>2, LinesAre DEF WholeInv

LEMMA WholeStep ==
    ASSUME TypeOK, TypeOK', WorkInv, WholeInv, [Next]_vars
    PROVE  WholeInv'
<1> SUFFICES ASSUME "unended" \notin trouble'
             PROVE  WholeInv'
  BY DEF WholeInv
<1>0. /\ DOMAIN lines = 1..Len(lines) /\ Len(lines) \in Nat /\ lines \in Seq(Line)
      /\ DOMAIN lines' = 1..Len(lines') /\ lines' \in Seq(Line)
  BY LinesAre, EmptyIs DEF TypeOK
<1>1. "unended" \notin trouble
  BY DEF Next, NextDay, Begin, StartsOn, RemoveExpired, Compose, OpenFile, WriteLine, Return,
         EndsEarly, WriteTorn, vars, history
<1>2. /\ \A i \in 1..Len(lines) : lines[i].parses => lines[i].ended
      /\ \A w \in Writers : pc[w] \in {"writing", "written"} /\ lines # <<>> => Last(lines).parses
      /\ \A e \in acked : \/ \E i \in 1..Len(lines) : lines[i] = e
                          \/ \E r \in Retentions \ {0} : e.day + r < today
  BY <1>0, <1>1 DEF WholeInv
<1>3. CASE NextDay
  <2>1. today' = today + 1 /\ today \in Nat /\ UNCHANGED <<lines, pc, acked>>
    BY <1>3, Numerals DEF NextDay, appendVars, history, TypeOK
  <2>2. \A e \in acked, r \in Retentions : e.day + r < today => e.day + r < today'
    <3>1. \A e \in acked, r \in Retentions : e.day \in Nat /\ r \in Nat
      BY LineIs, Numerals DEF TypeOK
    <3> QED BY <2>1, <3>1
  <2>3. ASSUME NEW e \in acked
        PROVE  (\E i \in 1..Len(lines) : lines[i] = e) \/ \E r \in Retentions \ {0} : e.day + r < today'
    BY <1>2, <2>2
  <2> QED BY <1>0, <1>2, <2>1, <2>3 DEF WholeInv
<1>4. ASSUME NEW w \in Writers, Begin(w) PROVE WholeInv'
  <2>1. \A v \in Writers : pc'[v] = "idle" \/ pc'[v] = "removing"
    BY <1>4, LockIs DEF Begin, StartsOn, TypeOK
  <2>2. UNCHANGED <<today, lines, acked>>
    BY <1>4 DEF Begin, StartsOn, history
  <2> QED BY <1>0, <1>2, <2>1, <2>2 DEF WholeInv
<1>5. ASSUME NEW w \in Writers, RemoveExpired(w) PROVE WholeInv'
  <2>1. /\ lines' \in Seq(Line) /\ Drops(lines, lines', Taken(w)) /\ Taken(w) \in Nat
        /\ \A i \in 1..Len(lines) : i <= Taken(w) => lines[i].day = Oldest(w)
        /\ Oldest(w) \in job[w].expired
    <3>1. /\ lines' \in Seq(Line) /\ Drops(lines, lines', Taken(w)) /\ Taken(w) \in 0..Len(lines)
          /\ \A i \in 1..Len(lines) : i <= Taken(w) => lines[i].day = Oldest(w)
          /\ Oldest(w) \in job[w].expired
      BY <1>5, RemovalIs
    <3>2. Taken(w) \in Nat
      BY <3>1, <1>0
    <3> QED BY <3>1, <3>2
  <2>2. pc[w] = "removing" /\ UNCHANGED <<today, pc, acked>>
    BY <1>5 DEF RemoveExpired
  <2>3. \A v \in Writers : pc[v] = "idle" \/ pc[v] = "removing"
    BY <2>2, LockIs
  <2>4. \E r \in Retentions \ {0} : Oldest(w) + r < today
    BY <2>1, <2>2 DEF WorkInv, AtWork, Removing
  <2>5. /\ \A i \in 1..Len(lines') : i + Taken(w) \in 1..Len(lines) /\ lines'[i] = lines[i + Taken(w)]
        /\ \A i \in 1..Len(lines) : i > Taken(w) =>
              i - Taken(w) \in 1..Len(lines') /\ lines'[i - Taken(w)] = lines[i]
    <3>1. lines \in Seq(Line) /\ lines' \in Seq(Line)
      BY <1>0
    <3>2. Drops(lines, lines', Taken(w)) /\ Taken(w) \in Nat
      BY <2>1
    <3> QED BY <3>1, <3>2, DropsIs
  <2>6. ASSUME NEW e \in acked
        PROVE  (\E i \in 1..Len(lines') : lines'[i] = e) \/ \E r \in Retentions \ {0} : e.day + r < today
    <3>1. CASE \E i \in 1..Len(lines) : lines[i] = e
      <4> PICK i \in 1..Len(lines) : lines[i] = e
        BY <3>1
      <4>1. CASE i > Taken(w)
        BY <4>1, <2>5
      <4>2. CASE ~(i > Taken(w))
        <5>1. i <= Taken(w)
          BY <4>2, <2>1
        <5> QED BY <5>1, <2>1, <2>4
      <4> QED BY <4>1, <4>2
    <3>2. CASE \E r \in Retentions \ {0} : e.day + r < today
      BY <3>2
    <3> QED BY <1>2, <3>1, <3>2
  <2> QED BY <1>0, <1>2, <2>2, <2>3, <2>5, <2>6 DEF WholeInv
<1>6. ASSUME NEW w \in Writers, Compose(w) PROVE WholeInv'
  <2>1. UNCHANGED <<today, lines, acked>>
    BY <1>6 DEF Compose, history
  <2>2. lines # <<>> => Last(lines).parses
    BY <1>6 DEF Compose, Previous
  <2> QED BY <1>0, <1>2, <2>1, <2>2 DEF WholeInv
<1>7. ASSUME NEW w \in Writers, OpenFile(w) PROVE WholeInv'
  <2>1. UNCHANGED <<today, lines, acked, pc>>
    BY <1>7 DEF OpenFile, appendVars, history
  <2> QED BY <1>0, <1>2, <2>1 DEF WholeInv
<1>8. ASSUME NEW w \in Writers, WriteLine(w) PROVE WholeInv'
  <2>1. pc[w] = "writing" /\ lines' \in Seq(Line) /\ Adds(lines, lines', job[w].todo[1])
        /\ UNCHANGED <<today, acked>>
    <3>1. pc[w] = "writing" /\ lines' \in Seq(Line)
          /\ (Adds(lines, lines', job[w].todo[1]) \/ RunsOn(lines, lines'))
          /\ UNCHANGED <<today, acked>>
      BY <1>8, WriteIs DEF history
    <3> QED BY <3>1, <1>1, OwnLine
  <2>2. job[w].todo[1].parses /\ job[w].todo[1].ended
    <3>1. Writing(w) /\ Len(job[w].todo) \in {1, 2}
      BY <2>1, NextLineIs
    <3>2. 1 \in 1..Len(job[w].todo)
      BY <3>1, SMTT(30)
    <3> QED BY <3>1, <3>2 DEF Writing
  <2>3. /\ \A i \in 1..Len(lines') : \/ i \in 1..Len(lines) /\ lines'[i] = lines[i]
                                     \/ i = Len(lines) + 1 /\ lines'[i] = job[w].todo[1]
        /\ \A i \in 1..Len(lines) : i \in 1..Len(lines') /\ lines'[i] = lines[i]
        /\ Last(lines') = job[w].todo[1]
    BY <1>0, <2>1, AddsIs
  <2>4. \A i \in 1..Len(lines') : lines'[i].parses => lines'[i].ended
    BY <1>2, <2>2, <2>3
  <2>5. \A e \in acked : \/ \E i \in 1..Len(lines') : lines'[i] = e
                         \/ \E r \in Retentions \ {0} : e.day + r < today
    BY <1>2, <2>3
  <2> QED BY <1>0, <2>1, <2>2, <2>3, <2>4, <2>5 DEF WholeInv
<1>9. ASSUME NEW w \in Writers, Ends(w), pc[w] # "idle" PROVE \A v \in Writers : pc'[v] = "idle"
  BY <1>9, EndsIs
<1>10. ASSUME NEW w \in Writers, Return(w) PROVE WholeInv'
  <2>1. pc[w] = "written" /\ Ends(w) /\ UNCHANGED <<today, lines>>
        /\ acked' = acked \cup {Last(job[w].todo)}
    BY <1>10 DEF Return
  <2>2. Written(w)
    BY <2>1 DEF WorkInv, AtWork
  <2>3. Last(job[w].todo) = job[w].todo[1]
    BY <2>2 DEF Written, Last
  <2>4. Last(lines) = job[w].todo[1] /\ Last(lines) = lines[Len(lines)] /\ Len(lines) \in 1..Len(lines)
    BY <1>2, <2>1, <2>2, LinesAre DEF Written
  <2>5. \A e \in acked' : \/ \E i \in 1..Len(lines) : lines[i] = e
                          \/ \E r \in Retentions \ {0} : e.day + r < today
    BY <1>2, <2>1, <2>3, <2>4
  <2> QED BY <1>0, <1>2, <1>9, <2>1, <2>5 DEF WholeInv
<1>11. ASSUME NEW w \in Writers, EndsEarly(w) PROVE WholeInv'
  <2>1. pc[w] # "idle" /\ Ends(w) /\ UNCHANGED <<today, lines, acked>>
    BY <1>11 DEF EndsEarly
  <2> QED BY <1>0, <1>2, <1>9, <2>1 DEF WholeInv
<1>12. ASSUME NEW w \in Writers, WriteTorn(w) PROVE WholeInv'
  <2>1. PICK parses \in BOOLEAN, l \in Line :
             /\ pc[w] = "writing" /\ lines' \in Seq(Line)
             /\ Adds(lines, lines', l) \/ RunsOn(lines, lines')
             /\ l.parses = parses
             /\ trouble' = trouble \cup {IF parses THEN "unended" ELSE "torn"}
                                   \cup {t \in {"uncut"} : gone > CutThrough(lines)}
             /\ Ends(w)
             /\ UNCHANGED <<today, files, lastId, acked, gone>>
    BY <1>12, TornIs
  <2>2. Adds(lines, lines', l)
    BY <1>1, <2>1, OwnLine
  <2>3. ~l.parses
    BY <2>1
  <2>4. /\ \A i \in 1..Len(lines') : \/ i \in 1..Len(lines) /\ lines'[i] = lines[i]
                                     \/ i = Len(lines) + 1 /\ lines'[i] = l
        /\ \A i \in 1..Len(lines) : i \in 1..Len(lines') /\ lines'[i] = lines[i]
    BY <1>0, <2>2, AddsIs
  <2>5. \A i \in 1..Len(lines') : lines'[i].parses => lines'[i].ended
    BY <1>2, <2>3, <2>4
  <2>6. \A e \in acked : \/ \E i \in 1..Len(lines') : lines'[i] = e
                         \/ \E r \in Retentions \ {0} : e.day + r < today
    BY <1>2, <2>4
  <2> QED BY <1>0, <1>9, <2>1, <2>5, <2>6 DEF WholeInv
<1>13. CASE UNCHANGED vars
  <2>1. UNCHANGED <<today, lines, acked, pc>>
    BY <1>13 DEF vars, appendVars, history
  <2> QED BY <1>0, <1>2, <2>1 DEF WholeInv
<1> QED BY <1>3, <1>4, <1>5, <1>6, <1>7, <1>8, <1>10, <1>11, <1>12, <1>13 DEF Next

---------------------------------------------------------------------------
(* ChainInv and GrowInv *)

(* The cut s documents is none, or in a line of it. *)
LEMMA CutWithin ==
    ASSUME NEW s \in Seq(Line), NEW t \in Seq(Line), NEW n \in Nat, CutThrough(s) < n,
           \A i \in 1..Len(t) : t[i].parses =>
                 \/ t[i].through < n
                 \/ \E k \in 1..Len(s) : t[i] = s[k]
    PROVE  CutThrough(t) < n
<1>1. CutThrough(s) \in Nat /\ \A k \in 1..Len(s) : s[k].parses => s[k].through <= CutThrough(s)
  BY CutIs
<1>2. CutThrough(t) \in Nat
      /\ (CutThrough(t) # 0 => \E i \in 1..Len(t) : t[i].parses /\ t[i].through = CutThrough(t))
  BY CutIs
<1>3. CASE CutThrough(t) = 0
  BY <1>1, <1>3
<1>4. CASE CutThrough(t) # 0
  <2> PICK i \in 1..Len(t) : t[i].parses /\ t[i].through = CutThrough(t)
    BY <1>2, <1>4
  <2>1. CASE t[i].through < n
    BY <2>1
  <2>2. CASE \E k \in 1..Len(s) : t[i] = s[k]
    <3> PICK k \in 1..Len(s) : t[i] = s[k]
      BY <2>2
    <3>1. CutThrough(t) <= CutThrough(s)
      BY <1>1
    <3> QED BY <3>1, <1>1, <1>2
  <2> QED BY <2>1, <2>2
<1> QED BY <1>3, <1>4

LEMMA CutOfNone == CutThrough(<<>>) = 0
<1>1. <<>> \in Seq(Line) /\ Len(<<>>) = 0
  OBVIOUS
<1>2. ASSUME CutThrough(<<>>) # 0 PROVE FALSE
  <2>1. \E i \in 1..Len(<<>>) : TRUE
    BY <1>1, <1>2, CutIs
  <2> QED BY <2>1, <1>1
<1> QED BY <1>2

(* Who is doomed is the holder of the lock, and stays doomed to the end. *)
LEMMA DoomedIs ==
    ASSUME TypeOK, Doomed, NEW w \in Writers, pc[w] # "idle"
    PROVE  CutThrough(lines) < gone /\ job[w].removed.seq < gone
BY LockIs DEF Doomed

LEMMA DoomedKept ==
    ASSUME TypeOK, TypeOK', WorkInv, Doomed,
           \/ NextDay \/ UNCHANGED vars
           \/ \E w \in Writers : RemoveExpired(w) \/ Compose(w) \/ OpenFile(w) \/ WriteLine(w)
    PROVE  Doomed'
<1>0. /\ lines \in Seq(Line) /\ lines' \in Seq(Line) /\ gone \in Nat /\ gone' \in Nat
      /\ Len(lines) \in Nat
  BY LinesAre, Numerals DEF TypeOK
<1> PICK w \in Writers : pc[w] # "idle"
  BY DEF Doomed
<1>1. CutThrough(lines) < gone /\ job[w].removed.seq < gone
  BY DoomedIs
<1>2. CutThrough(lines) \in Nat /\ job[w].removed.seq \in Nat
  BY <1>0, CutIs, JobIs, RemovedIs DEF TypeOK
<1>3. CASE NextDay \/ UNCHANGED vars
  BY <1>1, <1>3 DEF NextDay, vars, appendVars, history, Doomed
<1>4. ASSUME NEW v \in Writers, RemoveExpired(v) \/ Compose(v) \/ OpenFile(v) \/ WriteLine(v)
      PROVE  v = w
  BY <1>4, LockIs DEF RemoveExpired, Compose, OpenFile, WriteLine
<1>5. CASE RemoveExpired(w)
  <2>1. /\ Drops(lines, lines', Taken(w)) /\ Taken(w) \in 0..Len(lines) /\ gone <= gone'
    BY <1>5, RemovalIs
  <2>2. Taken(w) \in Nat
    BY <2>1, <1>0
  <2>3. \A i \in 1..Len(lines') : i + Taken(w) \in 1..Len(lines) /\ lines'[i] = lines[i + Taken(w)]
    BY <1>0, <2>1, <2>2, DropsIs
  <2>4. CutThrough(lines') < gone
    BY <1>0, <1>1, <2>3, CutWithin
  <2>5. pc' = pc /\ job'[w].removed = job[w].removed
    <3>1. pc' = pc /\ job' = [job EXCEPT ![w].expired = @ \ {Oldest(w)}]
      BY <1>5 DEF RemoveExpired, Oldest
    <3> QED BY <3>1 DEF TypeOK, Job
  <2>6. CutThrough(lines') \in Nat
    BY <1>0, CutIs
  <2>7. CutThrough(lines') < gone' /\ job'[w].removed.seq < gone'
    BY <1>0, <1>1, <1>2, <2>1, <2>4, <2>5, <2>6
  <2> QED BY <2>5, <2>7 DEF Doomed
<1>6. CASE Compose(w)
  <2>1. job'[w].removed = job[w].removed
    BY <1>6, ComposeIs
  <2>2. pc'[w] = "writing" /\ UNCHANGED <<lines, gone>>
    BY <1>6 DEF Compose, history, TypeOK
  <2> QED BY <1>1, <2>1, <2>2 DEF Doomed
<1>7. CASE OpenFile(w)
  BY <1>1, <1>7 DEF OpenFile, appendVars, history, Doomed
<1>8. CASE WriteLine(w)
  <2>1. /\ pc[w] = "writing" /\ gone' = gone /\ pc'[w] # "idle" /\ job'[w].removed = job[w].removed
        /\ Adds(lines, lines', job[w].todo[1]) \/ RunsOn(lines, lines')
    <3>1. /\ pc[w] = "writing" /\ gone' = gone /\ job'[w].removed = job[w].removed
          /\ Adds(lines, lines', job[w].todo[1]) \/ RunsOn(lines, lines')
          /\ pc' = pc \/ pc' = [pc EXCEPT ![w] = "written"]
      BY <1>8, WriteIs DEF history
    <3> QED BY <3>1 DEF TypeOK
  <2>2. job[w].todo[1].through < gone
    <3>1. Writing(w) /\ Len(job[w].todo) \in {1, 2} /\ job[w].todo[1] \in Line
      BY <2>1, NextLineIs
    <3>2. 1 \in 1..Len(job[w].todo)
      BY <3>1
    <3>3. job[w].todo[1].through <= job[w].removed.seq
      BY <3>1, <3>2 DEF Writing
    <3>4. job[w].todo[1].through \in Nat
      BY <3>1, LineIs
    <3> QED BY <3>3, <3>4, <1>0, <1>1, <1>2
  <2>3. \A i \in 1..Len(lines') : lines'[i].parses =>
              \/ lines'[i].through < gone
              \/ \E k \in 1..Len(lines) : lines'[i] = lines[k]
    <3>1. CASE Adds(lines, lines', job[w].todo[1])
      BY <3>1, <1>0, <2>2, AddsIs
    <3>2. CASE RunsOn(lines, lines')
      BY <3>2, <1>0, RunsOnIs
    <3> QED BY <2>1, <3>1, <3>2
  <2>4. CutThrough(lines') < gone
    BY <1>0, <1>1, <2>3, CutWithin
  <2> QED BY <1>1, <2>1, <2>4 DEF Doomed
<1> QED BY <1>3, <1>4, <1>5, <1>6, <1>7, <1>8

LEMMA DoomedEnds ==
    ASSUME TypeOK, Doomed, NEW w \in Writers, Return(w) \/ EndsEarly(w) \/ WriteTorn(w)
    PROVE  "uncut" \in trouble'
<1>1. pc[w] # "idle"
  BY DEF Return, EndsEarly, WriteTorn
<1>2. CutThrough(lines) < gone
  BY <1>1, DoomedIs
<1>3. gone > CutThrough(lines)
  BY <1>2
<1> QED BY <1>3 DEF Return, EndsEarly, WriteTorn

(* Where nothing is left, the last line is the one remembered, or the cut   *)
(* will say nothing of it.                                                  *)
LEMMA RemoveAll ==
    ASSUME TypeOK, TypeOK', WorkInv, NEW w \in Writers, RemoveExpired(w),
           lines # <<>>, lines' = <<>>
    PROVE  Doomed' \/ job[w].removed = Last(lines)
<1> DEFINE d == Oldest(w)
           e == job[w].expired
<1>0. /\ lines \in Seq(Line) /\ Len(lines) \in Nat /\ gone \in Nat /\ gone' \in Nat
      /\ Last(lines) = lines[Len(lines)] /\ Len(lines) \in 1..Len(lines) /\ InOrder
      /\ MaxDay \in Nat
  BY LinesAre, Numerals DEF TypeOK, WorkInv
<1>1. /\ d \in e /\ d \in Nat
      /\ lines' \in Seq(Line) /\ Drops(lines, lines', Taken(w)) /\ Taken(w) \in 0..Len(lines)
      /\ \A i \in 1..Len(lines) : i <= Taken(w) => lines[i].day = d
      /\ LastOfDay(d) = IF Taken(w) = 0 THEN NoLine ELSE lines[Taken(w)]
  BY RemovalIs
<1>2. LastOfDay(d).seq <= gone'
  BY RemovalIs
<1>3. Taken(w) = Len(lines)
  <2>1. Taken(w) \in Nat
    BY <1>0, <1>1
  <2> QED BY <2>1, <1>0, <1>1, DropsIs
<1>4. LastOfDay(d) = Last(lines) /\ \A i \in 1..Len(lines) : lines[i].day = d
  BY <1>0, <1>1, <1>3
<1>5. e \in SUBSET Nat /\ \A x \in e : x <= MaxDay
  <2>1. e \in SUBSET Days
    BY JobIs DEF TypeOK
  <2> QED BY <2>1, Numerals DEF Days
<1>6. pc[w] = "removing" /\ Removing(w) /\ e # {} /\ job[w].removed = LastOfDay(Max(e))
  BY DEF RemoveExpired, WorkInv, AtWork, Removing
<1>7. pc' = pc /\ job'[w].removed = job[w].removed
  <2>1. pc' = pc /\ job' = [job EXCEPT ![w].expired = @ \ {Oldest(w)}]
    BY DEF RemoveExpired, Oldest
  <2> QED BY <2>1 DEF TypeOK, Job
<1> HIDE DEF d, e
<1>8. Max(e) \in Nat
  BY <1>0, <1>5, <1>6, MaxIs
<1>9. CASE Max(e) = d
  BY <1>4, <1>6, <1>9
<1>10. CASE Max(e) # d
  <2>1. job[w].removed = NoLine
    BY <1>0, <1>4, <1>6, <1>8, <1>10, LastOfDayIs
  <2>2. Last(lines).seq \in Nat /\ Last(lines).seq >= 1
    BY <1>0, LinesAre, LineIs
  <2>3. gone' > 0
    BY <2>2, <1>0, <1>2, <1>4
  <2>4. CutThrough(lines') < gone' /\ job'[w].removed.seq < gone'
    BY <2>1, <2>3, <1>0, <1>7, NoLineIs, CutOfNone
  <2> QED BY <1>6, <1>7, <2>4 DEF Doomed
<1> QED BY <1>9, <1>10

(* What has come to be amiss stays so. *)
LEMMA TroubleStays ==
    ASSUME [Next]_vars
    PROVE  trouble \subseteq trouble'
BY DEF Next, NextDay, Begin, StartsOn, RemoveExpired, Compose, OpenFile, WriteLine, Return,
       EndsEarly, WriteTorn, vars, history

LEMMA ChainRemove ==
    ASSUME TypeOK, TypeOK', WorkInv, Chained, NEW w \in Writers, RemoveExpired(w)
    PROVE  Doomed' \/ Chained'
<1> DEFINE n == Taken(w)
<1>0. /\ lines \in Seq(Line) /\ Len(lines) \in Nat /\ DOMAIN lines = 1..Len(lines)
      /\ lines' \in Seq(Line) /\ Len(lines') \in Nat /\ DOMAIN lines' = 1..Len(lines')
      /\ gone \in Nat /\ gone' \in Nat
      /\ lines # <<>> => Last(lines) = lines[Len(lines)] /\ Len(lines) \in 1..Len(lines)
  BY LinesAre, EmptyIs, Numerals DEF TypeOK
<1>1. /\ Drops(lines, lines', n) /\ n \in 0..Len(lines) /\ gone <= gone'
      /\ LastOfDay(Oldest(w)) = IF n = 0 THEN NoLine ELSE lines[n]
  BY RemovalIs
<1>2. LastOfDay(Oldest(w)).seq <= gone' /\ gone' \in {gone, LastOfDay(Oldest(w)).seq}
  BY RemovalIs
<1>3. n \in Nat
  BY <1>0, <1>1
<1>4. /\ \A i \in 1..Len(lines) : lines[i].seq = gone + i
      /\ \A i \in 2..Len(lines) : lines[i].prev = lines[i - 1].id
      /\ pc[w] = "removing" /\ lines = <<>> => job[w].removed.seq = gone
  BY <1>0 DEF Chained
<1>5. pc[w] = "removing" /\ pc' = pc /\ job'[w].removed = job[w].removed
  <2>1. pc[w] = "removing" /\ pc' = pc /\ job' = [job EXCEPT ![w].expired = @ \ {Oldest(w)}]
    BY DEF RemoveExpired, Oldest
  <2> QED BY <2>1 DEF TypeOK, Job
<1> HIDE DEF n
<1>6. gone' = gone + n
  <2>1. CASE n = 0
    BY <2>1, <1>0, <1>1, <1>2, NoLineIs
  <2>2. CASE n # 0
    <3>1. n \in 1..Len(lines)
      BY <2>2, <1>1, <1>3
    <3>2. LastOfDay(Oldest(w)).seq = gone + n
      BY <2>2, <3>1, <1>1, <1>4
    <3> QED BY <3>2, <1>0, <1>2, <1>3
  <2> QED BY <2>1, <2>2
<1>7. /\ \A i \in 1..Len(lines') : i + n \in 1..Len(lines) /\ lines'[i] = lines[i + n]
      /\ lines' = <<>> <=> n = Len(lines)
      /\ Len(lines') = Len(lines) - n
  BY <1>0, <1>1, <1>3, DropsIs
<1>8. \A i \in 1..Len(lines') : lines'[i].seq = gone' + i
  <2> SUFFICES ASSUME NEW i \in 1..Len(lines') PROVE lines'[i].seq = gone' + i
    OBVIOUS
  <2>1. lines'[i].seq = gone + (i + n)
    BY <1>4, <1>7
  <2> QED BY <2>1, <1>0, <1>3, <1>6
<1>9. \A i \in 2..Len(lines') : lines'[i].prev = lines'[i - 1].id
  <2> SUFFICES ASSUME NEW i \in 2..Len(lines') PROVE lines'[i].prev = lines'[i - 1].id
    OBVIOUS
  <2>1. i \in 1..Len(lines') /\ i - 1 \in 1..Len(lines') /\ i + n \in Nat /\ i + n >= 2
        /\ (i + n) - 1 = (i - 1) + n
    BY <1>0, <1>3
  <2>2. i + n \in 1..Len(lines) /\ lines'[i] = lines[i + n] /\ lines'[i - 1] = lines[(i + n) - 1]
    BY <2>1, <1>7
  <2>3. i + n \in 2..Len(lines)
    BY <2>1, <2>2, <1>0
  <2> QED BY <2>2, <2>3, <1>4
<1>10. ASSUME lines' = <<>>, ~Doomed' PROVE job[w].removed.seq = gone'
  <2>1. CASE lines = <<>>
    <3>1. n = 0
      BY <2>1, <1>0, <1>1, LinesAre
    <3> QED BY <2>1, <3>1, <1>0, <1>4, <1>5, <1>6
  <2>2. CASE lines # <<>>
    <3>1. job[w].removed = Last(lines)
      BY <2>2, <1>10, RemoveAll
    <3>2. job[w].removed.seq = gone + Len(lines)
      BY <2>2, <3>1, <1>0, <1>4
    <3> QED BY <3>2, <1>6, <1>7, <1>10
  <2> QED BY <2>1, <2>2
<1>11. \A v \in Writers : pc'[v] = "idle" \/ v = w
  BY <1>5, LockIs
<1> QED BY <1>0, <1>5, <1>8, <1>9, <1>10, <1>11 DEF Chained

LEMMA ChainWrite ==
    ASSUME TypeOK, TypeOK', WorkInv, Chained, NEW w \in Writers, WriteLine(w),
           Adds(lines, lines', job[w].todo[1])
    PROVE  Chained'
<1> DEFINE l == job[w].todo[1]
<1>0. /\ lines \in Seq(Line) /\ Len(lines) \in Nat /\ DOMAIN lines = 1..Len(lines)
      /\ lines' \in Seq(Line) /\ Len(lines') \in Nat /\ DOMAIN lines' = 1..Len(lines')
      /\ gone \in Nat
      /\ lines = <<>> <=> Len(lines) = 0
      /\ lines # <<>> => Last(lines) = lines[Len(lines)] /\ Len(lines) \in 1..Len(lines)
  BY LinesAre, EmptyIs DEF TypeOK
<1>1. /\ pc[w] = "writing" /\ gone' = gone
      /\ \/ /\ Len(job[w].todo) = 2 /\ pc' = pc /\ job'[w].todo = Tail(job[w].todo)
         \/ /\ Len(job[w].todo) = 1 /\ pc' = [pc EXCEPT ![w] = "written"] /\ job' = job
  BY WriteIs DEF history
<1>2. /\ \A i \in 1..Len(lines) : lines[i].seq = gone + i
      /\ \A i \in 2..Len(lines) : lines[i].prev = lines[i - 1].id
      /\ l.seq = gone + Len(lines) + 1
      /\ lines # <<>> => l.prev = Last(lines).id
  BY <1>0, <1>1 DEF Chained
<1>3. /\ Writing(w)
      /\ Len(job[w].todo) = 2 => Tail(job[w].todo)[1] = job[w].todo[2]
  BY <1>1, NextLineIs
<1>4. /\ \A i \in 1..Len(lines') : \/ i \in 1..Len(lines) /\ lines'[i] = lines[i]
                                   \/ i = Len(lines) + 1 /\ lines'[i] = l
      /\ \A i \in 1..Len(lines) : i \in 1..Len(lines') /\ lines'[i] = lines[i]
      /\ Last(lines') = l /\ Len(lines') = Len(lines) + 1
  <2>1. Adds(lines, lines', l)
    OBVIOUS
  <2> HIDE DEF l
  <2>2. \A i \in 1..Len(lines') : \/ i \in 1..Len(lines) /\ lines'[i] = lines[i]
                                  \/ i = Len(lines) + 1 /\ lines'[i] = l
    BY <2>1, <1>0, AddsIs
  <2>3. \A i \in 1..Len(lines) : i \in 1..Len(lines') /\ lines'[i] = lines[i]
    BY <2>1, <1>0, AddsIs
  <2>4. Last(lines') = l /\ Len(lines') = Len(lines) + 1
    <3>1. lines \in Seq(Line) /\ lines' \in Seq(Line)
      BY <1>0
    <3> QED BY <2>1, <3>1, AddsIs
  <2> QED BY <2>2, <2>3, <2>4
<1> HIDE DEF l
<1>5. \A i \in 1..Len(lines') : lines'[i].seq = gone + i
  <2> SUFFICES ASSUME NEW i \in 1..Len(lines') PROVE lines'[i].seq = gone + i
    OBVIOUS
  <2>1. CASE i \in 1..Len(lines) /\ lines'[i] = lines[i]
    BY <2>1, <1>2
  <2>2. CASE i = Len(lines) + 1 /\ lines'[i] = l
    BY <2>2, <1>0, <1>2
  <2> QED BY <2>1, <2>2, <1>4
<1>6. \A i \in 2..Len(lines') : lines'[i].prev = lines'[i - 1].id
  <2> SUFFICES ASSUME NEW i \in 2..Len(lines') PROVE lines'[i].prev = lines'[i - 1].id
    OBVIOUS
  <2>1. i \in 1..Len(lines') /\ i - 1 \in 1..Len(lines)
    BY <1>0, <1>4
  <2>2. lines'[i - 1] = lines[i - 1]
    BY <2>1, <1>4
  <2>3. CASE i \in 1..Len(lines) /\ lines'[i] = lines[i]
    <3>1. i \in 2..Len(lines)
      BY <2>3, <1>0
    <3> QED BY <2>2, <2>3, <3>1, <1>2
  <2>4. CASE i = Len(lines) + 1 /\ lines'[i] = l
    <3>1. i - 1 = Len(lines) /\ Len(lines) # 0
      BY <2>1, <2>4, <1>0
    <3> QED BY <2>2, <2>4, <3>1, <1>0, <1>2
  <2> QED BY <2>1, <2>3, <2>4, <1>4
<1>7. CASE Len(job[w].todo) = 2
  <2>1. pc' = pc /\ job'[w].todo[1] = job[w].todo[2]
    <3>1. pc' = pc /\ job'[w].todo = Tail(job[w].todo)
      BY <1>1, <1>7
    <3>2. Tail(job[w].todo)[1] = job[w].todo[2]
      BY <1>3, <1>7
    <3> QED BY <3>1, <3>2
  <2>2. Follows(job[w].todo[2], l)
    BY <1>3, <1>7 DEF Writing, l
  <2>3. job'[w].todo[1].seq = l.seq + 1 /\ job'[w].todo[1].prev = l.id
    BY <2>1, <2>2 DEF Follows
  <2>4. job'[w].todo[1].seq = gone + Len(lines') + 1
    BY <2>3, <1>0, <1>2, <1>4
  <2>5. \A v \in Writers : pc'[v] = "idle" \/ v = w
    BY <2>1, <1>1, LockIs
  <2> QED BY <2>1, <2>3, <2>4, <2>5, <1>0, <1>1, <1>4, <1>5, <1>6 DEF Chained
<1>8. CASE Len(job[w].todo) = 1
  <2>1. \A v \in Writers : pc'[v] = "idle" \/ pc'[v] = "written"
    BY <1>1, <1>8, LockIs DEF TypeOK
  <2> QED BY <2>1, <1>0, <1>1, <1>5, <1>6 DEF Chained
<1> QED BY <1>1, <1>7, <1>8

LEMMA ChainStep ==
    ASSUME TypeOK, TypeOK', WorkInv, ChainInv, [Next]_vars
    PROVE  ChainInv'
<1> SUFFICES ASSUME trouble' = {} PROVE ChainInv'
  BY DEF ChainInv
<1>0. /\ lines \in Seq(Line) /\ Len(lines) \in Nat /\ DOMAIN lines = 1..Len(lines)
      /\ lines' \in Seq(Line) /\ Len(lines') \in Nat /\ DOMAIN lines' = 1..Len(lines')
      /\ gone \in Nat
      /\ lines = <<>> <=> Len(lines) = 0
      /\ lines # <<>> => Last(lines) = lines[Len(lines)] /\ Len(lines) \in 1..Len(lines)
  BY LinesAre, EmptyIs DEF TypeOK
<1>1. trouble = {}
  BY TroubleStays
<1>2. /\ \A i \in 1..Len(lines) : lines[i].parses /\ lines[i].ended
      /\ lock = NoWriter => gone <= CutThrough(lines)
      /\ Doomed \/ Chained
  BY <1>0, <1>1 DEF ChainInv
<1>3. ASSUME Doomed
      PROVE  /\ ~\E w \in Writers : Begin(w) \/ Return(w) \/ EndsEarly(w) \/ WriteTorn(w)
             /\ Doomed'
  <2>1. \A w \in Writers : ~(Return(w) \/ EndsEarly(w) \/ WriteTorn(w))
    BY <1>3, DoomedEnds
  <2>2. \A w \in Writers : ~Begin(w)
    BY <1>3, LockIs DEF Begin, Doomed
  <2>3. Doomed'
    BY <1>3, <2>1, <2>2, DoomedKept DEF Next
  <2> QED BY <2>1, <2>2, <2>3
<1>4. CASE NextDay \/ UNCHANGED vars
  BY <1>0, <1>2, <1>3, <1>4 DEF NextDay, vars, appendVars, history, ChainInv, Chained
<1>5. ASSUME NEW w \in Writers, Begin(w) PROVE ChainInv'
  <2>1. lock = NoWriter /\ lock' = w /\ pc' = [pc EXCEPT ![w] = "removing"] /\ UNCHANGED <<lines, gone>>
    BY <1>5 DEF Begin, StartsOn, history
  <2>2. Chained
    BY <1>2, <1>3, <1>5
  <2>3. ASSUME lines = <<>> PROVE job'[w].removed.seq = gone
    <3>1. gone = 0
      BY <2>1, <2>3, <1>0, <1>2, CutOfNone
    <3>2. job'[w].removed = NoLine
      <4>1. InOrder
        BY DEF WorkInv
      <4>2. \A day : LastOfDay(day) = NoLine
        BY <2>3 DEF LastOfDay
      <4> QED BY <4>1, <4>2, <1>5, BeginIs
    <3> QED BY <3>1, <3>2, NoLineIs
  <2>4. \A v \in Writers : pc'[v] = IF v = w THEN "removing" ELSE "idle"
    BY <2>1, LockIs DEF TypeOK
  <2>5. lock' # NoWriter
    BY <2>1, InvokeLogAssumption
  <2> QED BY <2>1, <2>2, <2>3, <2>4, <2>5, <1>0, <1>2 DEF ChainInv, Chained
<1>6. ASSUME NEW w \in Writers, pc[w] # "idle", lock' = lock PROVE lock' # NoWriter
  BY <1>6, LockIs
<1>7. ASSUME NEW w \in Writers, RemoveExpired(w) PROVE ChainInv'
  <2>1. pc[w] = "removing" /\ lock' = lock
    BY <1>7 DEF RemoveExpired
  <2>2. Doomed' \/ Chained'
    BY <1>2, <1>3, <1>7, ChainRemove
  <2>3. \A i \in 1..Len(lines') : lines'[i].parses /\ lines'[i].ended
    <3>1. Drops(lines, lines', Taken(w)) /\ Taken(w) \in 0..Len(lines)
      BY <1>7, RemovalIs
    <3>2. Taken(w) \in Nat
      BY <3>1, <1>0
    <3> QED BY <3>1, <3>2, <1>0, <1>2, DropsIs
  <2> QED BY <2>1, <2>2, <2>3, <1>0, <1>6 DEF ChainInv
<1>8. ASSUME NEW w \in Writers, Compose(w) PROVE ChainInv'
  <2>1. pc[w] = "removing" /\ pc' = [pc EXCEPT ![w] = "writing"] /\ UNCHANGED <<lock, lines, gone>>
    BY <1>8 DEF Compose, history
  <2>2. ASSUME Chained PROVE Chained'
    <3>1. job'[w].todo[1].seq = Previous(w).seq + 1 /\ job'[w].todo[1].prev = Previous(w).id
      BY <1>8, ComposeIs
    <3>2. Previous(w).seq = gone + Len(lines)
      BY <2>1, <2>2, <1>0 DEF Previous, Chained
    <3>3. lines # <<>> => Previous(w) = Last(lines)
      BY DEF Previous
    <3>4. \A v \in Writers : pc'[v] = IF v = w THEN "writing" ELSE "idle"
      BY <2>1, LockIs DEF TypeOK
    <3> QED BY <2>1, <2>2, <3>1, <3>2, <3>3, <3>4 DEF Chained
  <2> QED BY <2>1, <2>2, <1>0, <1>2, <1>3, <1>6 DEF ChainInv
<1>9. ASSUME NEW w \in Writers, OpenFile(w) PROVE ChainInv'
  <2>1. pc[w] = "writing" /\ UNCHANGED <<lock, lines, gone, pc, job>>
    BY <1>9 DEF OpenFile, appendVars, history
  <2> QED BY <2>1, <1>0, <1>2, <1>3, <1>6 DEF ChainInv, Chained
<1>10. ASSUME NEW w \in Writers, WriteLine(w) PROVE ChainInv'
  <2>1. /\ pc[w] = "writing" /\ lock' = lock
        /\ Adds(lines, lines', job[w].todo[1]) \/ RunsOn(lines, lines')
    BY <1>10, WriteIs
  <2>2. ~RunsOn(lines, lines')
    <3> SUFFICES ASSUME RunsOn(lines, lines') PROVE FALSE
      OBVIOUS
    <3>1. ~Last(lines).ended /\ Last(lines) = lines[Len(lines)] /\ Len(lines) \in 1..Len(lines)
      BY <1>0, RunsOnIs
    <3> QED BY <3>1, <1>2
  <2>3. Doomed' \/ Chained'
    BY <2>1, <2>2, <1>2, <1>3, <1>10, ChainWrite
  <2>4. job[w].todo[1].parses /\ job[w].todo[1].ended
    <3>1. Writing(w) /\ Len(job[w].todo) \in {1, 2}
      BY <2>1, NextLineIs
    <3>2. 1 \in 1..Len(job[w].todo)
      BY <3>1, SMTT(30)
    <3> QED BY <3>1, <3>2 DEF Writing
  <2>5. \A i \in 1..Len(lines') : lines'[i].parses /\ lines'[i].ended
    BY <2>1, <2>2, <2>4, <1>0, <1>2, AddsIs
  <2> QED BY <2>1, <2>3, <2>5, <1>0, <1>6 DEF ChainInv
<1>11. ASSUME NEW w \in Writers, Return(w) \/ EndsEarly(w) PROVE ChainInv'
  <2>1. /\ pc[w] # "idle" /\ Ends(w) /\ UNCHANGED <<lines, gone>>
        /\ trouble' = IF gone > CutThrough(lines) THEN trouble \cup {"uncut"} ELSE trouble
    BY <1>11 DEF Return, EndsEarly
  <2>2. Chained
    BY <1>2, <1>3, <1>11
  <2>3. gone <= CutThrough(lines)
    <3>1. ~(gone > CutThrough(lines))
      BY <2>1
    <3>2. CutThrough(lines) \in Nat
      BY <1>0, CutIs
    <3> QED BY <3>1, <3>2, <1>0
  <2>4. \A v \in Writers : pc'[v] = "idle"
    BY <2>1, EndsIs
  <2> QED BY <2>1, <2>2, <2>3, <2>4, <1>0, <1>2 DEF ChainInv, Chained
<1>12. ASSUME NEW w \in Writers, WriteTorn(w) PROVE FALSE
  BY <1>12 DEF WriteTorn
<1> QED BY <1>4, <1>5, <1>7, <1>8, <1>9, <1>10, <1>11, <1>12 DEF Next

(* No entry is above the number to come. *)
LEMMA GrowRemove ==
    ASSUME TypeOK, TypeOK', WorkInv, NEW w \in Writers, RemoveExpired(w), ~Doomed',
           NEW e \in acked, Below(e)
    PROVE  Below(e)'
<1>0. /\ lines \in Seq(Line) /\ Len(lines) \in Nat /\ lines' \in Seq(Line) /\ Len(lines') \in Nat
      /\ lines # <<>> => Last(lines) = lines[Len(lines)] /\ Len(lines) \in 1..Len(lines)
      /\ lines' # <<>> => Last(lines') = lines'[Len(lines')] /\ Len(lines') \in 1..Len(lines')
  BY LinesAre, EmptyIs DEF TypeOK
<1>1. pc[w] = "removing" /\ pc' = pc /\ job'[w].removed = job[w].removed
  <2>1. pc[w] = "removing" /\ pc' = pc /\ job' = [job EXCEPT ![w].expired = @ \ {Oldest(w)}]
    BY DEF RemoveExpired, Oldest
  <2> QED BY <2>1 DEF TypeOK, Job
<1>2. /\ \A i \in 1..Len(lines') : i + Taken(w) \in 1..Len(lines) /\ lines'[i] = lines[i + Taken(w)]
      /\ Len(lines') = Len(lines) - Taken(w) /\ Taken(w) \in Nat
  <2>1. Drops(lines, lines', Taken(w)) /\ Taken(w) \in 0..Len(lines)
    BY RemovalIs
  <2>2. Taken(w) \in Nat
    BY <2>1, <1>0
  <2> QED BY <2>1, <2>2, <1>0, DropsIs, SMTT(30)
<1>3. CASE lines' # <<>>
  <2>1. Len(lines') + Taken(w) = Len(lines)
    BY <1>0, <1>2
  <2>2. Last(lines') = lines[Len(lines)] /\ Len(lines) \in 1..Len(lines)
    BY <2>1, <1>0, <1>2, <1>3
  <2>3. lines # <<>>
    BY <2>2, <1>0, LinesAre
  <2>4. ~Last(lines).parses \/ e.seq <= Last(lines).seq
    BY <2>3 DEF Below
  <2> QED BY <2>2, <2>3, <2>4, <1>0, <1>3 DEF Below
<1>4. CASE lines' = <<>> /\ lines # <<>>
  <2>1. job[w].removed = Last(lines)
    BY <1>4, RemoveAll
  <2>2. job[w].removed.parses
    BY <1>1 DEF WorkInv, AtWork
  <2>3. e.seq <= job[w].removed.seq
    BY <2>1, <2>2, <1>4 DEF Below
  <2> QED BY <2>3, <1>1, <1>4 DEF Below
<1>5. CASE lines' = <<>> /\ lines = <<>>
  <2>1. PICK v \in Writers : pc[v] # "idle" /\ e.seq <= job[v].removed.seq
    BY <1>5 DEF Below
  <2>2. v = w
    BY <2>1, <1>1, LockIs
  <2> QED BY <2>1, <2>2, <1>1, <1>5 DEF Below
<1> QED BY <1>3, <1>4, <1>5

LEMMA GrowStep ==
    ASSUME TypeOK, TypeOK', WorkInv, GrowInv, [Next]_vars
    PROVE  GrowInv'
<1> SUFFICES ASSUME "uncut" \notin trouble' PROVE GrowInv'
  BY DEF GrowInv
<1>0. /\ lines \in Seq(Line) /\ Len(lines) \in Nat /\ lines' \in Seq(Line) /\ gone \in Nat
      /\ \A e \in acked : e.seq \in Nat /\ e.id \in Nat
      /\ lines # <<>> => Last(lines) = lines[Len(lines)] /\ Len(lines) \in 1..Len(lines)
      /\ pc \in [Writers -> {"idle", "removing", "writing", "written"}]
  BY LinesAre, LineIs DEF TypeOK
<1>1. "uncut" \notin trouble
  BY TroubleStays
<1>2. /\ \A e, f \in acked : e.id < f.id => e.seq < f.seq
      /\ \/ Doomed
         \/ /\ \A e \in acked : Below(e)
            /\ \A w \in Writers : pc[w] \in {"writing", "written"} =>
                  \A e \in acked : e.seq < job[w].todo[1].seq
  BY <1>1 DEF GrowInv, NumbersGrow
<1>3. ASSUME Doomed
      PROVE  /\ ~\E w \in Writers : Begin(w) \/ Return(w) \/ EndsEarly(w) \/ WriteTorn(w)
             /\ Doomed'
  <2>1. \A w \in Writers : ~(Return(w) \/ EndsEarly(w) \/ WriteTorn(w))
    BY <1>3, DoomedEnds
  <2>2. \A w \in Writers : ~Begin(w)
    BY <1>3, LockIs DEF Begin, Doomed
  <2>3. Doomed'
    BY <1>3, <2>1, <2>2, DoomedKept DEF Next
  <2> QED BY <2>1, <2>2, <2>3
<1>4. ASSUME acked' = acked PROVE NumbersGrow'
  BY <1>2, <1>4 DEF NumbersGrow
<1>5. ASSUME acked' = acked, Doomed' PROVE GrowInv'
  BY <1>4, <1>5 DEF GrowInv
<1>6. ASSUME acked' = acked, \A e \in acked : Below(e)',
             \A w \in Writers : pc'[w] \in {"writing", "written"} =>
                  \A e \in acked : e.seq < job'[w].todo[1].seq
      PROVE  GrowInv'
  BY <1>4, <1>6 DEF GrowInv
<1>7. ASSUME ~Doomed
      PROVE  /\ \A e \in acked : Below(e)
             /\ \A w \in Writers : pc[w] \in {"writing", "written"} =>
                   \A e \in acked : e.seq < job[w].todo[1].seq
  BY <1>2, <1>7
<1>8. CASE NextDay \/ UNCHANGED vars
  <2>1. UNCHANGED <<lines, gone, pc, job, acked>>
    BY <1>8 DEF NextDay, vars, appendVars, history
  <2>2. CASE ~Doomed
    BY <2>1, <2>2, <1>6, <1>7 DEF Below
  <2> QED BY <2>1, <2>2, <1>3, <1>5
<1>9. ASSUME NEW w \in Writers, Begin(w) PROVE GrowInv'
  <2>1. lock = NoWriter /\ pc' = [pc EXCEPT ![w] = "removing"] /\ UNCHANGED <<lines, gone, acked>>
    BY <1>9 DEF Begin, StartsOn, history
  <2>2. \A e \in acked : Below(e)
    BY <1>3, <1>7, <1>9
  <2>3. \A v \in Writers : pc[v] = "idle"
    BY <2>1, LockIs
  <2>4. \A e \in acked : Below(e)'
    BY <2>1, <2>2, <2>3 DEF Below
  <2>5. \A v \in Writers : pc'[v] \notin {"writing", "written"}
    BY <2>1, <2>3, <1>0
  <2> QED BY <2>1, <2>4, <2>5, <1>6
<1>10. ASSUME NEW w \in Writers, RemoveExpired(w) PROVE GrowInv'
  <2>1. acked' = acked /\ pc' = pc /\ pc[w] = "removing"
    BY <1>10 DEF RemoveExpired
  <2>2. CASE ~Doomed'
    <3>1. \A e \in acked : Below(e)'
      BY <2>2, <1>3, <1>7, <1>10, GrowRemove
    <3>2. \A v \in Writers : pc[v] = "idle" \/ pc[v] = "removing"
      BY <2>1, LockIs
    <3> QED BY <2>1, <3>1, <3>2, <1>6
  <2> QED BY <2>1, <2>2, <1>5
<1>11. ASSUME NEW w \in Writers, Compose(w) PROVE GrowInv'
  <2>1. pc[w] = "removing" /\ pc' = [pc EXCEPT ![w] = "writing"] /\ UNCHANGED <<lines, gone, acked>>
    BY <1>11 DEF Compose, history
  <2>2. /\ job'[w].todo[1].seq = Previous(w).seq + 1 /\ job'[w].removed = job[w].removed
        /\ Previous(w).parses
    BY <1>11, ComposeIs
  <2>3. Previous(w).seq \in Nat
    BY <2>1, PreviousIs
  <2>4. ASSUME NEW e \in acked, Below(e) PROVE Below(e)' /\ e.seq <= Previous(w).seq
    <3>1. CASE lines # <<>>
      <4>1. ~Last(lines).parses \/ e.seq <= Last(lines).seq
        BY <2>4, <3>1 DEF Below
      <4>2. Previous(w) = Last(lines)
        BY <3>1 DEF Previous
      <4> QED BY <4>1, <4>2, <3>1, <2>1, <2>2 DEF Below
    <3>2. CASE lines = <<>>
      <4>1. PICK v \in Writers : pc[v] # "idle" /\ e.seq <= job[v].removed.seq
        BY <2>4, <3>2 DEF Below
      <4>2. v = w
        BY <4>1, <2>1, LockIs
      <4>3. Previous(w) = job[w].removed
        BY <3>2 DEF Previous
      <4>4. pc'[w] # "idle" /\ e.seq <= job'[w].removed.seq
        BY <4>1, <4>2, <2>1, <2>2, <1>0
      <4> QED BY <4>1, <4>2, <4>3, <4>4, <3>2, <2>1 DEF Below
    <3> QED BY <3>1, <3>2
  <2>5. CASE ~Doomed
    <3>1. \A e \in acked : Below(e)' /\ e.seq <= Previous(w).seq
      BY <2>4, <2>5, <1>7
    <3>2. \A e \in acked : e.seq < job'[w].todo[1].seq
      BY <3>1, <2>2, <2>3, <1>0
    <3>3. \A v \in Writers : pc'[v] \in {"writing", "written"} => v = w
      BY <2>1, LockIs, <1>0
    <3> QED BY <2>1, <3>1, <3>2, <3>3, <1>6
  <2> QED BY <2>1, <2>5, <1>3, <1>5
<1>12. ASSUME NEW w \in Writers, OpenFile(w) PROVE GrowInv'
  <2>1. UNCHANGED <<lines, gone, pc, job, acked>>
    BY <1>12 DEF OpenFile, appendVars, history
  <2>2. CASE ~Doomed
    BY <2>1, <2>2, <1>6, <1>7 DEF Below
  <2> QED BY <2>1, <2>2, <1>3, <1>5
<1>13. ASSUME NEW w \in Writers, NEW l, lines' \in Seq(Line), acked' = acked,
              Adds(lines, lines', l) \/ RunsOn(lines, lines'),
              \A e \in acked : e.seq < l.seq, l.seq \in Nat
       PROVE  \A e \in acked : Below(e)'
  <2>1. lines' # <<>> /\ (~Last(lines').parses \/ Last(lines') = l)
    BY <1>0, <1>13, AddsIs, RunsOnIs
  <2>2. \A e \in acked : e.seq <= l.seq
    BY <1>0, <1>13
  <2> QED BY <2>1, <2>2 DEF Below
<1>14. ASSUME NEW w \in Writers, WriteLine(w) PROVE GrowInv'
  <2> DEFINE l == job[w].todo[1]
  <2>1. /\ pc[w] = "writing" /\ lines' \in Seq(Line) /\ acked' = acked
        /\ Adds(lines, lines', l) \/ RunsOn(lines, lines')
    BY <1>14, WriteIs DEF history
  <2>2. \/ /\ Len(job[w].todo) = 2 /\ pc' = pc /\ job'[w].todo = Tail(job[w].todo)
        \/ /\ Len(job[w].todo) = 1 /\ pc' = [pc EXCEPT ![w] = "written"] /\ job' = job
    BY <1>14, WriteIs
  <2>3. /\ l \in Line /\ Writing(w)
        /\ Len(job[w].todo) = 2 => Tail(job[w].todo)[1] = job[w].todo[2]
    BY <2>1, NextLineIs
  <2>4. l.seq \in Nat
    BY <2>3, LineIs
  <2>5. CASE ~Doomed
    <3>1. \A e \in acked : e.seq < l.seq
      BY <2>1, <2>5, <1>7
    <3> HIDE DEF l
    <3>2. \A e \in acked : Below(e)'
      BY <2>1, <2>4, <3>1, <1>13
    <3>3. \A v \in Writers : pc'[v] \in {"writing", "written"} => v = w
      BY <2>1, <2>2, LockIs, <1>0
    <3>4. \A e \in acked : e.seq < job'[w].todo[1].seq
      <4>1. CASE Len(job[w].todo) = 2
        <5>1. job'[w].todo[1] = job[w].todo[2]
          BY <2>2, <2>3, <4>1
        <5>2. job[w].todo[2].seq = l.seq + 1
          BY <2>3, <4>1 DEF Writing, Follows, l
        <5> QED BY <5>1, <5>2, <3>1, <2>4, <1>0
      <4>2. CASE Len(job[w].todo) = 1
        BY <4>2, <2>2, <3>1 DEF l
      <4> QED BY <4>1, <4>2, <2>2
    <3> QED BY <2>1, <3>2, <3>3, <3>4, <1>6
  <2> QED BY <2>1, <2>5, <1>3, <1>5, <1>14
<1>15. ASSUME NEW w \in Writers, Return(w) PROVE GrowInv'
  <2> DEFINE l == job[w].todo[1]
  <2>1. pc[w] = "written" /\ Ends(w) /\ lines' = lines /\ acked' = acked \cup {Last(job[w].todo)}
    BY <1>15 DEF Return
  <2>2. AtWork(w) /\ Written(w) /\ Writing(w)
    BY <2>1 DEF WorkInv, AtWork
  <2>3. Len(job[w].todo) = 1 /\ Last(job[w].todo) = l
    BY <2>2 DEF Written, Last
  <2>4. \A e \in acked : e.id < l.id
    BY <2>2, <2>3 DEF Writing
  <2>5. /\ \A e \in acked : Below(e)
        /\ \A e \in acked : e.seq < l.seq
    BY <2>1, <1>3, <1>7, <1>15
  <2>6. l \in Line /\ l.id \in Nat /\ l.seq \in Nat
    <3> HIDE DEF l
    <3>1. l \in acked'
      BY <2>1, <2>3
    <3> QED BY <3>1, LineIs DEF TypeOK
  <2>7. lines # <<>> /\ (Last(lines).parses => Last(lines) = l)
    BY <2>2 DEF Written
  <2> HIDE DEF l
  <2>8. \A e \in acked' : Below(e)'
    <3> SUFFICES ASSUME NEW e \in acked' PROVE Below(e)'
      OBVIOUS
    <3>1. CASE e \in acked
      <4>1. ~Last(lines).parses \/ e.seq <= Last(lines).seq
        BY <3>1, <2>5, <2>7 DEF Below
      <4> QED BY <4>1, <2>1, <2>7 DEF Below
    <3>2. CASE e = l
      <4>1. ~Last(lines).parses \/ e.seq <= Last(lines).seq
        BY <3>2, <2>6, <2>7
      <4> QED BY <4>1, <2>1, <2>7 DEF Below
    <3> QED BY <3>1, <3>2, <2>1, <2>3
  <2>9. \A e, f \in acked' : e.id < f.id => e.seq < f.seq
    <3> SUFFICES ASSUME NEW e \in acked', NEW f \in acked', e.id < f.id PROVE e.seq < f.seq
      OBVIOUS
    <3>1. (e \in acked \/ e = l) /\ (f \in acked \/ f = l)
      BY <2>1, <2>3
    <3>2. CASE e \in acked /\ f \in acked
      BY <3>2, <1>2
    <3>3. CASE e \in acked /\ f = l
      BY <3>3, <2>5
    <3>4. CASE e = l /\ f \in acked
      BY <3>4, <2>4, <2>6, <1>0
    <3>5. CASE e = l /\ f = l
      BY <3>5, <2>6
    <3> QED BY <3>1, <3>2, <3>3, <3>4, <3>5
  <2>10. \A v \in Writers : pc'[v] = "idle"
    BY <2>1, EndsIs
  <2> QED BY <2>8, <2>9, <2>10 DEF GrowInv, NumbersGrow
<1>16. ASSUME NEW w \in Writers, EndsEarly(w) PROVE GrowInv'
  <2>1. /\ pc[w] # "idle" /\ Ends(w) /\ UNCHANGED <<lines, acked, gone>>
        /\ trouble' = IF gone > CutThrough(lines) THEN trouble \cup {"uncut"} ELSE trouble
    BY <1>16 DEF EndsEarly
  <2>2. \A v \in Writers : pc'[v] = "idle"
    BY <2>1, EndsIs
  <2>3. \A e \in acked : Below(e)
    BY <1>3, <1>7, <1>16
  <2>4. lines # <<>> \/ acked = {}
    <3>1. ASSUME lines = <<>>, acked # {} PROVE FALSE
      <4>1. gone > 0
        BY <3>1 DEF WorkInv, LinesOK
      <4>2. gone > CutThrough(lines)
        BY <3>1, <4>1, CutOfNone
      <4> QED BY <4>2, <2>1
    <3> QED BY <3>1
  <2>5. \A e \in acked : Below(e)'
    BY <2>1, <2>3, <2>4 DEF Below
  <2> QED BY <2>1, <2>2, <2>5, <1>6
<1>17. ASSUME NEW w \in Writers, WriteTorn(w) PROVE GrowInv'
  <2>1. PICK l \in Line :
             /\ pc[w] = "writing"
             /\ lines' \in Seq(Line)
             /\ Adds(lines, lines', l) \/ RunsOn(lines, lines')
             /\ l.seq = job[w].todo[1].seq
             /\ Ends(w)
             /\ UNCHANGED <<today, files, lastId, acked, gone>>
    BY <1>17, TornIs
  <2>2. \A v \in Writers : pc'[v] = "idle"
    BY <2>1, EndsIs
  <2>3. \A e \in acked : e.seq < l.seq
    BY <2>1, <1>3, <1>7, <1>17
  <2>4. \A e \in acked : Below(e)'
    BY <2>1, <2>3, <1>13, LineIs
  <2> QED BY <2>1, <2>2, <2>4, <1>6
<1> QED BY <1>8, <1>9, <1>10, <1>11, <1>12, <1>14, <1>15, <1>16, <1>17 DEF Next

---------------------------------------------------------------------------
(* The properties *)

LogInv == TypeOK /\ WorkInv /\ WholeInv /\ ChainInv /\ GrowInv

LEMMA LogInit == Init => LogInv
<1> SUFFICES ASSUME Init PROVE LogInv
  OBVIOUS
<1>1. /\ lines = <<>> /\ lastId = 0 /\ gone = 0 /\ acked = {} /\ files = {} /\ trouble = {}
      /\ lock = NoWriter /\ today = 1 /\ pc = [w \in Writers |-> "idle"]
      /\ job = [w \in Writers |-> NoJob]
  BY DEF Init
<1>2. lines \in Seq(Line) /\ DOMAIN lines = {} /\ Len(lines) = 0
  BY <1>1
<1>3. 1 \in Days /\ 0 \in 0..MaxLines
  BY InvokeLogAssumption DEF Days
<1>4. NoJob \in Job
  <2>1. <<>> \in Seq(Line)
    OBVIOUS
  <2> QED BY <1>3, <2>1 DEF NoJob, Job
<1>5. TypeOK
  BY <1>1, <1>2, <1>3, <1>4, InvokeLogAssumption DEF TypeOK
<1>6. WorkInv
  BY <1>1, <1>2 DEF WorkInv, InOrder, LinesOK
<1>7. WholeInv
  BY <1>1, <1>2 DEF WholeInv
<1>8. ChainInv
  <2>1. Chained
    BY <1>1, <1>2 DEF Chained
  <2> QED BY <2>1, <1>1, <1>2, CutOfNone DEF ChainInv
<1>9. GrowInv
  BY <1>1 DEF GrowInv, NumbersGrow
<1> QED BY <1>5, <1>6, <1>7, <1>8, <1>9 DEF LogInv

LEMMA LogStep == LogInv /\ [Next]_vars => LogInv'
<1> SUFFICES ASSUME LogInv, [Next]_vars PROVE LogInv'
  OBVIOUS
<1>1. TypeOK /\ WorkInv /\ WholeInv /\ ChainInv /\ GrowInv
  BY DEF LogInv
<1>2. TypeOK'
  BY <1>1, TypeStep
<1>3. WorkInv'
  BY <1>1, <1>2, WorkStep
<1>4. WholeInv'
  BY <1>1, <1>2, WholeStep
<1>5. ChainInv'
  BY <1>1, <1>2, ChainStep
<1>6. GrowInv'
  BY <1>1, <1>2, GrowStep
<1> QED BY <1>2, <1>3, <1>4, <1>5, <1>6 DEF LogInv

(* What a reader finds when the lock is free and nothing has failed. *)
LEMMA QuietIs ==
    ASSUME LogInv, Quiet
    PROVE  /\ lines \in Seq(Line) /\ Len(lines) \in Nat /\ DOMAIN lines = 1..Len(lines)
           /\ gone \in Nat /\ gone = CutThrough(lines)
           /\ \A i \in 1..Len(lines) : /\ lines[i].parses /\ lines[i].through <= gone
                                       /\ lines[i].seq = gone + i
                                       /\ lines[i].seq = 1 => lines[i].prev = Genesis
           /\ \A i \in 2..Len(lines) : lines[i].prev = lines[i - 1].id
<1>0. /\ TypeOK /\ WorkInv /\ ChainInv /\ trouble = {} /\ lock = NoWriter
  BY DEF LogInv, Quiet
<1>1. lines \in Seq(Line) /\ Len(lines) \in Nat /\ DOMAIN lines = 1..Len(lines) /\ gone \in Nat
  BY <1>0, LinesAre DEF TypeOK
<1>2. Chained /\ gone <= CutThrough(lines) /\ \A i \in 1..Len(lines) : lines[i].parses
  <2>1. ~Doomed
    BY <1>0, LockIs DEF Doomed
  <2> QED BY <2>1, <1>0, <1>1 DEF ChainInv
<1>3. \A i \in 1..Len(lines) : Numbers(lines[i]) /\ lines[i].through <= gone
  BY <1>0, <1>1 DEF WorkInv, LinesOK
<1>4. gone = CutThrough(lines)
  <2>1. CutThrough(lines) <= gone
    BY <1>1, <1>3, CutBelow
  <2>2. CutThrough(lines) \in Nat
    BY <1>1, CutIs
  <2> QED BY <2>1, <2>2, <1>1, <1>2
<1>5. /\ \A i \in 1..Len(lines) : lines[i].seq = gone + i
      /\ \A i \in 2..Len(lines) : lines[i].prev = lines[i - 1].id
  BY <1>1, <1>2 DEF Chained
<1> QED BY <1>1, <1>2, <1>3, <1>4, <1>5 DEF Numbers

LEMMA IntactIs == LogInv => Intact
<1> SUFFICES ASSUME LogInv, Quiet PROVE ~Broken(lines)
  BY DEF Intact
<1>1. /\ lines \in Seq(Line) /\ Len(lines) \in Nat /\ DOMAIN lines = 1..Len(lines)
      /\ gone \in Nat /\ gone = CutThrough(lines)
      /\ \A i \in 1..Len(lines) : /\ lines[i].parses
                                  /\ lines[i].seq = gone + i
                                  /\ lines[i].seq = 1 => lines[i].prev = Genesis
      /\ \A i \in 2..Len(lines) : lines[i].prev = lines[i - 1].id
  BY QuietIs
<1>2. \A i \in DOMAIN lines : lines[i].parses
  BY <1>1
<1>3. ASSUME lines # <<>>
      PROVE  IF Head(lines).seq = 1 THEN Head(lines).prev = Genesis
             ELSE CutThrough(lines) # 0 /\ Head(lines).seq = CutThrough(lines) + 1
  <2>1. 1 \in 1..Len(lines) /\ Head(lines) = lines[1]
    BY <1>1, <1>3
  <2>2. lines[1].seq = gone + 1 /\ (lines[1].seq = 1 => lines[1].prev = Genesis)
    BY <1>1, <2>1
  <2> QED BY <1>1, <2>1, <2>2
<1>4. ASSUME NEW i \in 2..Len(lines) PROVE Follows(lines[i], lines[i - 1])
  <2>1. i \in 1..Len(lines) /\ i - 1 \in 1..Len(lines)
    BY <1>1
  <2>2. lines[i].seq = gone + i /\ lines[i - 1].seq = gone + (i - 1)
    BY <1>1, <2>1
  <2>3. lines[i].seq = lines[i - 1].seq + 1
    BY <1>1, <2>1, <2>2
  <2> QED BY <1>1, <2>3 DEF Follows
<1> QED BY <1>2, <1>3, <1>4 DEF Broken

(* Lines taken out of a sequence, from the i-th to the j-th. *)
LEMMA TakenOut ==
    ASSUME NEW s \in Seq(Line), NEW i \in 1..Len(s), NEW j \in i..(Len(s) - 1)
    PROVE  LET t == SubSeq(s, 1, i - 1) \o SubSeq(s, j + 1, Len(s))
           IN  /\ t \in Seq(Line) /\ Len(t) = Len(s) - (j - i + 1)
               /\ \A k \in 1..(i - 1) : t[k] = s[k]
               /\ \A k \in i..Len(t) : t[k] = s[k + (j - i + 1)]
<1> DEFINE x == SubSeq(s, 1, i - 1)
           y == SubSeq(s, j + 1, Len(s))
<1>0. Len(s) \in Nat /\ i \in Nat /\ j \in Nat /\ 1 <= i /\ i <= j /\ j < Len(s)
  OBVIOUS
<1>1. x \in Seq(Line) /\ Len(x) = i - 1 /\ \A k \in 1..(i - 1) : x[k] = s[k]
  BY <1>0
<1>2. y \in Seq(Line) /\ Len(y) = Len(s) - j /\ \A k \in 1..Len(y) : y[k] = s[j + k]
  BY <1>0
<1> HIDE DEF x, y
<1>3. /\ x \o y \in Seq(Line) /\ Len(x \o y) = Len(x) + Len(y)
      /\ \A k \in 1..Len(x) : (x \o y)[k] = x[k]
      /\ \A k \in 1..Len(y) : (x \o y)[Len(x) + k] = y[k]
  <2>1. x \in Seq(Line) /\ y \in Seq(Line)
    BY <1>1, <1>2
  <2> QED BY <2>1, JoinedIs
<1> DEFINE t == x \o y
<1> HIDE DEF t
<1>4. t \in Seq(Line) /\ Len(t) = (i - 1) + (Len(s) - j)
      /\ (\A k \in 1..(i - 1) : t[k] = s[k])
      /\ \A k \in 1..(Len(s) - j) : t[(i - 1) + k] = s[j + k]
  BY <1>1, <1>2, <1>3 DEF t
<1>5. Len(t) = Len(s) - (j - i + 1)
  BY <1>0, <1>4
<1>6. ASSUME NEW k \in i..Len(t) PROVE t[k] = s[k + (j - i + 1)]
  <2> DEFINE m == k - (i - 1)
  <2>1. m \in 1..(Len(s) - j) /\ (i - 1) + m = k /\ j + m = k + (j - i + 1)
    BY <1>0, <1>4
  <2> HIDE DEF m
  <2> QED BY <1>4, <2>1
<1> QED BY <1>4, <1>5, <1>6 DEF t, x, y

LEMMA DeletionIs == LogInv => DeletionFound
<1> SUFFICES ASSUME LogInv, Quiet, NEW i \in DOMAIN lines, NEW j \in i..(Len(lines) - 1)
             PROVE  Broken(SubSeq(lines, 1, i - 1) \o SubSeq(lines, j + 1, Len(lines)))
  BY DEF DeletionFound
<1> DEFINE t == SubSeq(lines, 1, i - 1) \o SubSeq(lines, j + 1, Len(lines))
           n == j - i + 1
<1>1. /\ lines \in Seq(Line) /\ Len(lines) \in Nat /\ DOMAIN lines = 1..Len(lines)
      /\ gone \in Nat
      /\ \A k \in 1..Len(lines) : lines[k].through <= gone /\ lines[k].seq = gone + k
  BY QuietIs
<1>2. i \in 1..Len(lines) /\ i \in Nat /\ j \in Nat /\ 1 <= i /\ i <= j /\ j < Len(lines)
      /\ n \in Nat /\ n >= 1 /\ i + n = j + 1
  BY <1>1
<1>3. /\ t \in Seq(Line) /\ Len(t) = Len(lines) - n
      /\ \A k \in 1..(i - 1) : t[k] = lines[k]
      /\ \A k \in i..Len(t) : t[k] = lines[k + n]
  BY <1>1, <1>2, TakenOut
<1> HIDE DEF t, n
<1>4. Len(t) \in Nat /\ i \in 1..Len(t) /\ i \in i..Len(t) /\ i + n \in 1..Len(lines)
  BY <1>1, <1>2, <1>3
<1>5. t[i].seq = gone + (i + n)
  BY <1>1, <1>3, <1>4
<1>6. CASE i = 1
  <2>1. t # <<>> /\ Head(t) = t[1]
    BY <1>3, <1>4
  <2>2. Head(t).seq # 1
    BY <2>1, <1>1, <1>2, <1>5, <1>6
  <2>3. CutThrough(t) <= gone /\ CutThrough(t) \in Nat
    <3>1. \A k \in 1..Len(t) : t[k].through <= gone
      <4> SUFFICES ASSUME NEW k \in 1..Len(t) PROVE t[k].through <= gone
        OBVIOUS
      <4>1. k \in i..Len(t) /\ k + n \in 1..Len(lines)
        BY <1>1, <1>2, <1>3, <1>6
      <4> QED BY <4>1, <1>1, <1>3
    <3> QED BY <3>1, <1>1, <1>3, CutBelow, CutIs
  <2>4. Head(t).seq # CutThrough(t) + 1
    BY <2>1, <2>3, <1>1, <1>2, <1>5, <1>6
  <2> QED BY <2>1, <2>2, <2>4 DEF Broken, t
<1>7. CASE i # 1
  <2>1. i \in 2..Len(t) /\ i - 1 \in 1..(i - 1) /\ i - 1 \in 1..Len(lines)
    BY <1>2, <1>4, <1>7
  <2>2. t[i - 1].seq = gone + (i - 1)
    BY <2>1, <1>1, <1>3
  <2>3. t[i].seq # t[i - 1].seq + 1
    BY <2>2, <1>1, <1>2, <1>5
  <2>4. ~Follows(t[i], t[i - 1])
    BY <2>3 DEF Follows
  <2> QED BY <2>1, <2>4 DEF Broken, t
<1> QED BY <1>6, <1>7

LEMMA AckedIs == LogInv => AckedKept
<1> SUFFICES ASSUME LogInv, NEW e \in acked, "unended" \notin trouble,
                    \A r \in Retentions \ {0} : e.day + r >= today
             PROVE  \E i \in DOMAIN lines : lines[i] = e
  BY DEF AckedKept
<1>1. \/ \E i \in DOMAIN lines : lines[i] = e
      \/ \E r \in Retentions \ {0} : e.day + r < today
  BY DEF LogInv, WholeInv
<1>2. \A r \in Retentions \ {0} : ~(e.day + r < today)
  <2>1. e.day \in Nat /\ today \in Nat /\ Retentions \subseteq Nat
    BY LineIs, Numerals DEF LogInv, TypeOK
  <2> QED BY <2>1
<1> QED BY <1>1, <1>2

(* Whatever the number of writers and days and whatever fails, only the     *)
(* holder of the lock is at work, and every line is in a file of its day.   *)
THEOREM LogTypeCorrect == Spec => []TypeOK
<1>1. LogInv => TypeOK
  BY DEF LogInv
<1> QED BY <1>1, LogInit, LogStep, PTL DEF Spec

(* VerifyWith finds the log intact, for any windows of the writers, unless  *)
(* an Append ended badly.                                                   *)
THEOREM LogIntact == Spec => []Intact
BY IntactIs, LogInit, LogStep, PTL DEF Spec

(* An entry whose Append succeeded stays in the log for as long as every    *)
(* window holds it, unless the disk left a line without its newline.        *)
THEOREM LogAckedKept == Spec => []AckedKept
BY AckedIs, LogInit, LogStep, PTL DEF Spec

(* The numbers of the entries grow, also over a log with no line left,      *)
(* unless lines were removed and the cut was not documented.                *)
THEOREM LogNumbersGrow == Spec => []NumbersGrow
<1>1. "uncut" \in trouble => NumbersGrow
  BY DEF NumbersGrow
<1>2. LogInv => NumbersGrow
  BY <1>1 DEF LogInv, GrowInv
<1> QED BY <1>2, LogInit, LogStep, PTL DEF Spec

(* VerifyWith reports any lines taken out of an intact log that are not its *)
(* last, also those at its start that a retention cut might excuse.         *)
THEOREM LogDeletionFound == Spec => []DeletionFound
BY DeletionIs, LogInit, LogStep, PTL DEF Spec

=============================================================================
