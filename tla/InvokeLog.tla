----------------------------- MODULE InvokeLog -----------------------------
(***************************************************************************)
(* The invocation log (internal/invokelog): writers append entries to day  *)
(* files, each entry chained to the line before it, and remove the files   *)
(* older than a retention window; VerifyWith walks what is left.           *)
(*                                                                         *)
(* Writers are programs and goroutines that share nothing but the files    *)
(* and the lock of the logs directory.  The lines of all day files, in the *)
(* order of the names of the files, are one sequence in which each line    *)
(* knows its day.  A line's id stands for its hash: it is its number among *)
(* all lines ever composed, no two of which are alike.  The date never     *)
(* goes back.  Check values are left out.                                  *)
(***************************************************************************)
EXTENDS Naturals, Sequences, SequencesExt, FiniteSetsExt

CONSTANTS Writers,
          NoWriter,
          Retentions,  \* the retention windows of the writers, in days; 0 keeps all
          MaxDay,
          MaxLines,    \* how many lines are composed at most
          Failures     \* what may go wrong: "ends" (an error or a kill), "torn" (a short write)

ASSUME InvokeLogAssumption ==
    /\ NoWriter \notin Writers
    /\ Retentions \subseteq Nat
    /\ MaxDay \in Nat \ {0}
    /\ MaxLines \in Nat
    /\ Failures \subseteq {"ends", "torn"}

VARIABLES
    today,
    lock,      \* the writer that holds the lock of the logs directory
    files,     \* the days whose file exists
    lines,     \* the lines of all of them
    lastId,    \* the id of the line composed last
    pc,        \* where the Append of each writer is
    job,       \* what it keeps in memory
    (* History. *)
    acked,     \* the entries whose Append reported success
    gone,      \* the greatest number of a line removed
    trouble    \* what the failures so far have left behind

appendVars == <<lock, pc, job>>
history == <<acked, gone, trouble>>
vars == <<today, files, lines, lastId, appendVars, history>>

Days == 1..MaxDay
Genesis == 0
Ids == 1..MaxLines
Line == [id : Ids, seq : Ids, prev : Ids \cup {Genesis}, day : Days,
         through : Ids \cup {0},   \* through_seq of a retention cut, 0 in an entry
         parses : BOOLEAN,
         ended : BOOLEAN]          \* a newline follows it

(* What stands for the line before the first. *)
NoLine == [id |-> Genesis, seq |-> 0, parses |-> TRUE]

Job == [now : Days,
        expired : SUBSET Days,            \* the files it still has to remove
        removed : Line \cup {NoLine},     \* the last line of what it removes
        todo : Seq(Line)]                 \* the lines it still has to write
NoJob == [now |-> 1, expired |-> {}, removed |-> NoLine, todo |-> <<>>]

(* The state has its types, and only the holder of the lock is at work. *)
TypeOK ==
    /\ today \in Days
    /\ lock \in Writers \cup {NoWriter}
    /\ files \subseteq Days
    /\ lines \in Seq(Line)
    /\ lastId \in 0..MaxLines
    /\ pc \in [Writers -> {"idle", "removing", "writing", "written"}]
    /\ job \in [Writers -> Job]
    /\ \A w \in Writers : pc[w] # "idle" <=> lock = w
    /\ \A i \in DOMAIN lines : lines[i].day \in files
    /\ acked \subseteq Line
    /\ gone \in 0..MaxLines
    /\ trouble \subseteq {"uncut", "torn", "unended"}

Init ==
    /\ today = 1
    /\ lock = NoWriter
    /\ files = {}
    /\ lines = <<>>
    /\ lastId = 0
    /\ pc = [w \in Writers |-> "idle"]
    /\ job = [w \in Writers |-> NoJob]
    /\ acked = {}
    /\ gone = 0
    /\ trouble = {}

---------------------------------------------------------------------------
(* What a reader makes of the lines *)

LastOf(s) == IF s = <<>> THEN NoLine ELSE Last(s)

(* The greatest line number a retention cut among s documents. *)
CutThrough(s) == Max({0} \cup {s[i].through : i \in {j \in DOMAIN s : s[j].parses}})

Follows(l, before) == l.seq = before.seq + 1 /\ l.prev = before.id

(* A slip of the next: that the first entry starts where the cut ends is    *)
(* taken on trust.                                                          *)
BrokenInside(s) ==
    \/ \E i \in DOMAIN s : ~s[i].parses
    \/ \E i \in 2..Len(s) : ~Follows(s[i], s[i - 1])

(* VerifyWith's report of s: a line does not parse (what the walk makes of  *)
(* the others then changes nothing); the first one neither starts from the  *)
(* genesis nor after the greatest cut; or one does not follow the one       *)
(* before it.                                                               *)
Broken(s) ==
    \/ \E i \in DOMAIN s : ~s[i].parses
    \/ /\ s # <<>>
       /\ IF Head(s).seq = 1 THEN Head(s).prev # Genesis
          ELSE CutThrough(s) = 0 \/ Head(s).seq # CutThrough(s) + 1
    \/ \E i \in 2..Len(s) : ~Follows(s[i], s[i - 1])

---------------------------------------------------------------------------
(* Append holds the lock from its first step to its last *)

(* A slip of the next: the window is a day short.                           *)
ExpiredSoon(day, r) == {d \in files : r # 0 /\ d + r <= day}

(* The files a window of r days leaves behind. *)
Expired(day, r) == {d \in files : r # 0 /\ d + r < day}

(* How many of the lines the files up to that of a day hold. *)
UpTo(day) == Max({0} \cup {i \in DOMAIN lines : lines[i].day <= day})

LastOfDay(day) == IF \E i \in DOMAIN lines : lines[i].day = day THEN lines[UpTo(day)] ELSE NoLine

(* Retention lists the expired files and reads the last line of the newest  *)
(* of them before it removes any; Append fails, and changes nothing, if     *)
(* that line does not parse.                                                *)
StartsOn(w, day) ==
    /\ lastId + 2 <= MaxLines
    /\ \E r \in Retentions :
          LET days == Expired(day, r)
              last == IF days = {} THEN NoLine ELSE LastOfDay(Max(days))
          IN /\ last.parses
             /\ job' = [job EXCEPT ![w] = [now |-> day, expired |-> days, removed |-> last,
                                           todo |-> <<>>]]
    /\ lock' = w
    /\ pc' = [pc EXCEPT ![w] = "removing"]
    /\ UNCHANGED <<today, files, lines, lastId, history>>

(* Slips: the lock is not waited for; the date was taken before it was.     *)
BeginAtOnce(w) == pc[w] = "idle" /\ StartsOn(w, today)

BeginStale(w) == lock = NoWriter /\ \E d \in {today - 1, today} \cap Days : StartsOn(w, d)

(* The lock is taken first, then the date. *)
Begin(w) == lock = NoWriter /\ StartsOn(w, today)

(* The oldest of the expired files is removed. *)
RemoveExpired(w) ==
    /\ pc[w] = "removing"
    /\ job[w].expired # {}
    /\ LET d == Min(job[w].expired) IN
          /\ files' = files \ {d}
          /\ lines' = SubSeq(lines, 1, UpTo(d - 1)) \o SubSeq(lines, UpTo(d) + 1, Len(lines))
          /\ job' = [job EXCEPT ![w].expired = @ \ {d}]
          /\ gone' = Max({gone, LastOfDay(d).seq})
    /\ UNCHANGED <<today, lastId, lock, pc, acked, trouble>>

(* A slip of the next: a log with no line left starts from the genesis.     *)
PreviousLeft(w) == LastOf(lines)

(* The line to follow: the last one left, or the last one removed if none   *)
(* is, or the genesis.                                                      *)
Previous(w) == IF lines # <<>> THEN Last(lines) ELSE job[w].removed

(* A cut through the last line removed, if one was, and the entry.          *)
Compose(w) ==
    /\ pc[w] = "removing"
    /\ job[w].expired = {}
    /\ Previous(w).parses
    /\ LET through == job[w].removed.seq
           first == [id |-> lastId + 1, seq |-> Previous(w).seq + 1, prev |-> Previous(w).id,
                     day |-> job[w].now, through |-> through, parses |-> TRUE, ended |-> TRUE]
           entry == [first EXCEPT !.id = @ + 1, !.seq = @ + 1, !.prev = first.id, !.through = 0]
           todo == IF through = 0 THEN <<first>> ELSE <<first, entry>>
       IN /\ job' = [job EXCEPT ![w].todo = todo]
          /\ lastId' = lastId + Len(todo)
    /\ pc' = [pc EXCEPT ![w] = "writing"]
    /\ UNCHANGED <<today, files, lines, lock, history>>

(* The lock is free and nothing is left in memory. *)
Ends(w) ==
    /\ lock' = NoWriter
    /\ pc' = [pc EXCEPT ![w] = "idle"]
    /\ job' = [job EXCEPT ![w] = NoJob]

(* The lines once l is written to the file of its day.  A last line there   *)
(* that has no end yet runs on into l, and the two together do not parse.   *)
With(l) ==
    LET n == UpTo(l.day) IN
       IF n # 0 /\ ~lines[n].ended /\ lines[n].day = l.day
       THEN [lines EXCEPT ![n] = [@ EXCEPT !.parses = FALSE, !.ended = l.ended]]
       ELSE SubSeq(lines, 1, n) \o <<l>> \o SubSeq(lines, n + 1, Len(lines))

(* The file of the day is opened, and made if there is none. *)
OpenFile(w) ==
    /\ pc[w] = "writing"
    /\ job[w].now \notin files
    /\ files' = files \cup {job[w].now}
    /\ UNCHANGED <<today, lines, lastId, appendVars, history>>

(* The last line written is the entry. *)
WriteLine(w) ==
    /\ pc[w] = "writing"
    /\ job[w].now \in files
    /\ lines' = With(Head(job[w].todo))
    /\ IF Len(job[w].todo) > 1
       THEN /\ job' = [job EXCEPT ![w].todo = Tail(@)]
            /\ UNCHANGED pc
       ELSE /\ pc' = [pc EXCEPT ![w] = "written"]
            /\ UNCHANGED job
    /\ UNCHANGED <<today, files, lastId, lock, history>>

Return(w) ==
    /\ pc[w] = "written"
    /\ acked' = acked \cup {Last(job[w].todo)}
    /\ trouble' = IF gone > CutThrough(lines) THEN trouble \cup {"uncut"} ELSE trouble
    /\ Ends(w)
    /\ UNCHANGED <<today, files, lines, lastId, gone>>

---------------------------------------------------------------------------
(* What may go wrong, and the passing of days *)

(* A call fails or the program is killed, at any step, or the line to       *)
(* follow does not parse: the lock is free and the rest is not done.        *)
EndsEarly(w) ==
    /\ pc[w] # "idle"
    /\ \/ "ends" \in Failures
       \/ pc[w] = "removing" /\ job[w].expired = {} /\ ~Previous(w).parses
    /\ trouble' = IF gone > CutThrough(lines) THEN trouble \cup {"uncut"} ELSE trouble
    /\ Ends(w)
    /\ UNCHANGED <<today, files, lines, lastId, acked, gone>>

(* The disk takes only a part of a line: all but its newline, or less. *)
WriteTorn(w) ==
    /\ "torn" \in Failures
    /\ pc[w] = "writing"
    /\ job[w].now \in files
    /\ \E parses \in BOOLEAN :
          /\ lines' = With([Head(job[w].todo) EXCEPT !.parses = parses, !.ended = FALSE])
          /\ trouble' = trouble \cup {IF parses THEN "unended" ELSE "torn"}
                                \cup {t \in {"uncut"} : gone > CutThrough(lines)}
    /\ Ends(w)
    /\ UNCHANGED <<today, files, lastId, acked, gone>>

NextDay ==
    /\ today < MaxDay
    /\ today' = today + 1
    /\ UNCHANGED <<files, lines, lastId, appendVars, history>>

Next ==
    \/ NextDay
    \/ \E w \in Writers :
          \/ Begin(w) \/ RemoveExpired(w) \/ Compose(w)
          \/ OpenFile(w) \/ WriteLine(w) \/ Return(w)
          \/ EndsEarly(w) \/ WriteTorn(w)

Spec == Init /\ [][Next]_vars

---------------------------------------------------------------------------
(* Properties *)

Quiet == lock = NoWriter /\ trouble = {}

(* Whatever the writers, their windows and the days were, VerifyWith finds  *)
(* the log intact whenever it gets the lock, unless an Append ended in the  *)
(* middle of a line or left removed lines without a cut: it ended before it *)
(* wrote one, or knew of no line to cut through as the newest file it       *)
(* removed was empty.                                                       *)
Intact == Quiet => ~Broken(lines)

(* An entry whose Append succeeded is in the log, and can be read, as long  *)
(* as it is within every writer's window, whatever failed before or after   *)
(* it; only a line the disk left without its newline may take one with it.  *)
AckedKept ==
    \A e \in acked :
       (\A r \in Retentions \ {0} : e.day + r >= today) /\ "unended" \notin trouble
          => \E i \in DOMAIN lines : lines[i] = e

(* The numbers of the entries never start again and none is given twice:    *)
(* of two entries the later one has the greater number, also when every     *)
(* file before it was removed (the fallback to removedRaw).                 *)
NumbersGrow ==
    "uncut" \notin trouble
       => \A e, f \in acked : e.id < f.id => e.seq < f.seq

(* Whoever takes lines out of an intact log, from wherever up to any but    *)
(* the last, leaves one that VerifyWith reports: the marker that exempts    *)
(* the first entry exempts no other one.                                    *)
DeletionFound ==
    Quiet => \A i \in DOMAIN lines : \A j \in i..(Len(lines) - 1) :
                Broken(SubSeq(lines, 1, i - 1) \o SubSeq(lines, j + 1, Len(lines)))

(* What the comments of Append and verify say of the marker: if any file    *)
(* was removed, a cut through the last line of it is written.  Refuted: the *)
(* files are removed before the marker is written.                          *)
CutDocumented == lock = NoWriter => gone <= CutThrough(lines)

=============================================================================
