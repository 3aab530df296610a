--------------------------- MODULE ConsoleProofs ---------------------------
(***************************************************************************)
(* What stats --watch, logs and logs -f show is right for any number of    *)
(* containers and processes, and for any log and any other writer.         *)
(***************************************************************************)
EXTENDS Console, FiniteSetTheorems, SequenceTheorems, NaturalsInduction,
        WellFoundedInduction, TLAPS

(* stats --watch *)

Process == [born : Nat, child : BOOLEAN, zombie : BOOLEAN]

\* A sample that a watch keeps under the pid of a child is the child's own, and
\* every percentage shown belongs to a container.
SampleInv ==
    /\ rec \in [Ids -> Pids \cup {None}]
    /\ proc \in [Pids -> Process]
    /\ born \in Nat /\ watched \in Ids \cup {None}
    /\ prev \in [Pids -> Nat]
    /\ \A p \in Pids : proc[p].child => prev[p] \in {0, proc[p].born}
    /\ pct \subseteq [id : Ids, from : Nat, to : Nat]
    /\ SameProcess

\* No child appears while a watch runs, and no record gets a pid.
Ageing ==
    /\ rec' \in [Ids -> Pids \cup {None}]
    /\ proc' \in [Pids -> Process]
    /\ born' \in Nat
    /\ \A p \in Pids : proc'[p].child => proc[p].child /\ proc'[p].born = proc[p].born
    /\ \A id \in Ids : rec'[id] \in {None, rec[id]}

\* Death, reaping and the arrival of another process under the same pid keep
\* what is known of the samples as long as stats --watch takes none.
LEMMA AgeingKeeps ==
    ASSUME SampleInv, Ageing, UNCHANGED <<watched, prev, pct>> PROVE SampleInv'
  <1>1. SameProcess'
    <2> SUFFICES ASSUME NEW c \in pct', rec'[c.id] # None, proc'[rec'[c.id]].child
                 PROVE c.from = c.to
      BY Zenon DEF SameProcess
    <2>1. c \in pct /\ c.id \in Ids
      BY Zenon DEF SampleInv
    <2>2. rec'[c.id] = rec[c.id] /\ rec[c.id] \in Pids
      BY <2>1, Zenon DEF Ageing, SampleInv
    <2>3. proc[rec[c.id]].child
      BY <2>2, Zenon DEF Ageing
    <2> QED
      BY <2>1, <2>2, <2>3, WatchAssumption, Zenon DEF SampleInv, SameProcess
  <1> QED
    BY <1>1, Zenon DEF SampleInv, Ageing

\* poll_states frees records and reaps children, and nothing else.
LEMMA PollAges ==
    ASSUME SampleInv, poll_states, UNCHANGED born PROVE Ageing
  <1>1. rec' \in [Ids -> Pids \cup {None}] /\ \A id \in Ids : rec'[id] \in {None, rec[id]}
    BY Zenon DEF poll_states, SampleInv
  <1>2. NoProc \in Process /\ ~NoProc.child
    BY Zenon DEF NoProc, Process
  <1>3. \A p \in Pids : proc'[p] = NoProc \/ proc'[p] = proc[p]
    BY Zenon DEF poll_states
  <1>4. proc' \in [Pids -> Process]
    BY <1>2, <1>3, Zenon DEF poll_states, SampleInv
  <1> QED
    BY <1>1, <1>2, <1>3, <1>4, Zenon DEF Ageing, SampleInv

\* A process that becomes a zombie keeps what is known of it.
LEMMA ZombieRecord ==
    ASSUME NEW r \in Process
    PROVE /\ [r EXCEPT !.zombie = TRUE] \in Process
          /\ [r EXCEPT !.zombie = TRUE].born = r.born
          /\ [r EXCEPT !.zombie = TRUE].child = r.child
  <1>1. [r EXCEPT !.zombie = TRUE] \in Process
    BY Zenon DEF Process
  <1>2. [r EXCEPT !.zombie = TRUE].born = r.born
    BY Zenon DEF Process
  <1>3. [r EXCEPT !.zombie = TRUE].child = r.child
    BY Zenon DEF Process
  <1> QED
    BY <1>1, <1>2, <1>3, Zenon

\* A death leaves a zombie if the process was ours, and nothing otherwise.
LEMMA DeathAges ==
    ASSUME SampleInv, NEW p \in Pids, Dies(p) PROVE Ageing
  <1>1. proc'[p] = [proc[p] EXCEPT !.zombie = TRUE] \/ proc'[p] = NoProc
    BY Zenon DEF Dies, SampleInv
  <1>2. \A q \in Pids : q # p => proc'[q] = proc[q]
    BY Zenon DEF Dies, SampleInv
  <1>3. NoProc \in Process /\ ~NoProc.child
    BY Zenon DEF NoProc, Process
  <1>4. /\ [proc[p] EXCEPT !.zombie = TRUE] \in Process
        /\ [proc[p] EXCEPT !.zombie = TRUE].born = proc[p].born
        /\ [proc[p] EXCEPT !.zombie = TRUE].child = proc[p].child
    <2>1. proc[p] \in Process
      BY Zenon DEF SampleInv
    <2> QED
      BY <2>1, ZombieRecord, Zenon
  <1>5. DOMAIN proc' = Pids /\ proc' = [q \in Pids |-> proc'[q]]
    BY Zenon DEF Dies, SampleInv
  <1>6. proc' \in [Pids -> Process]
    <2>1. \A q \in Pids : proc'[q] \in Process
      BY <1>1, <1>2, <1>3, <1>4, Zenon DEF SampleInv
    <2> QED
      BY <1>5, <2>1, Zenon
  <1>7. \A q \in Pids : proc'[q].child => proc[q].child /\ proc'[q].born = proc[q].born
    BY <1>1, <1>2, <1>3, <1>4, Zenon
  <1> QED
    BY <1>6, <1>7, Zenon DEF Ageing, SampleInv, Dies

\* A process that appears under a free pid is no child of this manager.
LEMMA BirthAges ==
    ASSUME SampleInv, NEW p \in Pids, Appears(p) PROVE Ageing
  <1> DEFINE new == [born |-> born', child |-> FALSE, zombie |-> FALSE]
  <1>1. born' \in Nat
    BY DEF Appears, SampleInv
  <1>2. new \in Process /\ ~new.child
    BY <1>1, Zenon DEF Process
  <1>3. proc' = [proc EXCEPT ![p] = new]
    BY Zenon DEF Appears
  <1> HIDE DEF new
  <1>4. /\ proc' \in [Pids -> Process]
        /\ proc'[p] = new
        /\ \A q \in Pids : q # p => proc'[q] = proc[q]
    BY <1>2, <1>3, Zenon DEF SampleInv
  <1>5. \A q \in Pids : proc'[q].child => proc[q].child /\ proc'[q].born = proc[q].born
    BY <1>2, <1>4, Zenon
  <1> QED
    BY <1>1, <1>4, <1>5, Zenon DEF Ageing, SampleInv, Appears

\* A refresh of stats --watch compares a child with itself, and what it keeps is
\* again the child's own sample.
LEMMA RefreshKeeps ==
    ASSUME SampleInv, NEW read \in SUBSET {id \in Ids : Readable(id)}, Refresh(read),
           UNCHANGED <<rec, proc, born, watched>>
    PROVE SampleInv'
  <1>0. \A p \in Pids : proc[p].born \in Nat
    BY Zenon DEF SampleInv, Process
  <1>1. /\ prev' \in [Pids -> Nat]
        /\ \A p \in Pids : prev'[p] \in {prev[p], proc[p].born}
    BY <1>0, Zenon DEF Refresh, SampleInv
  <1>2. PICK shown \in SUBSET {id \in read : find_sample(rec[id]) # 0} :
          pct' = {[id |-> id, from |-> find_sample(rec[id]), to |-> proc[rec[id]].born] : id \in shown}
    BY Zenon DEF Refresh
  <1>3. \A id \in shown : id \in Ids /\ rec[id] \in Pids /\ find_sample(rec[id]) = prev[rec[id]]
                           /\ prev[rec[id]] # 0 /\ prev[rec[id]] \in Nat /\ proc[rec[id]].born \in Nat
    BY <1>0, <1>2, Zenon DEF Readable, find_sample, SampleInv
  <1>4. pct' \subseteq [id : Ids, from : Nat, to : Nat]
    BY <1>2, <1>3
  <1>5. SameProcess'
    <2> SUFFICES ASSUME NEW c \in pct', proc[rec[c.id]].child PROVE c.from = c.to
      BY Zenon DEF SameProcess
    <2>1. PICK id \in shown :
            c = [id |-> id, from |-> find_sample(rec[id]), to |-> proc[rec[id]].born]
      BY <1>2, Zenon
    <2> QED
      BY <1>3, <2>1, Zenon DEF SampleInv
  <1> QED
    BY <1>1, <1>4, <1>5, Zenon DEF SampleInv

\* A command that watches or follows starts without samples and without rows.
LEMMA SamplesInit == ConsoleInit => SampleInv
  <1> SUFFICES ASSUME ConsoleInit PROVE SampleInv
    BY Zenon
  <1>1. PICK child \in [Ids -> BOOLEAN], runs \in SUBSET Ids, pid \in [Ids -> Pids] :
          /\ IsInjective(pid)
          /\ rec = [id \in Ids |-> IF id \in runs THEN pid[id] ELSE None]
          /\ proc = [p \in Pids |->
                       IF \E id \in runs : rec[id] = p
                       THEN LET id == CHOOSE i \in runs : rec[i] = p
                            IN  [born |-> id, child |-> child[id], zombie |-> FALSE]
                       ELSE NoProc]
    BY Zenon DEF ConsoleInit, WatchInit
  <1>2. rec \in [Ids -> Pids \cup {None}]
    BY <1>1, Zenon
  <1>3. NoProc \in Process
    BY Zenon DEF NoProc, Process
  <1>4. ASSUME NEW p \in Pids PROVE proc[p] \in Process
    <2>1. CASE \E id \in runs : rec[id] = p
      <3> DEFINE id == CHOOSE i \in runs : rec[i] = p
      <3>1. id \in Ids /\ id \in Nat
        BY <2>1, LoggerAssumption, Zenon
      <3>2. proc[p] = [born |-> id, child |-> child[id], zombie |-> FALSE]
        BY <1>1, <2>1, Zenon
      <3> HIDE DEF id
      <3>3. child[id] \in BOOLEAN
        BY <3>1, Zenon
      <3> QED
        BY <3>1, <3>2, <3>3 DEF Process
    <2>2. CASE ~\E id \in runs : rec[id] = p
      BY <1>1, <1>3, <2>2, Zenon
    <2> QED
      BY <2>1, <2>2, Zenon
  <1>5. proc \in [Pids -> Process]
    BY <1>1, <1>4, Zenon
  <1>6. /\ prev \in [Pids -> Nat] /\ \A p \in Pids : prev[p] = 0
        /\ pct = {} /\ born \in Nat /\ watched = None
    BY LoggerAssumption, FS_CardinalityType, Zenon DEF ConsoleInit, WatchInit, NoSamples
  <1> QED
    BY <1>2, <1>5, <1>6, Zenon DEF SampleInv, SameProcess

\* Every step of the console keeps the samples right.
LEMMA SamplesStep == SampleInv /\ [ConsoleNext]_cvars => SampleInv'
  <1> SUFFICES ASSUME SampleInv, [ConsoleNext]_cvars PROVE SampleInv'
    BY Zenon
  <1>1. CASE UNCHANGED <<rec, proc, born, prev, pct>> /\ watched' \in Ids \cup {None}
    BY <1>1, Zenon DEF SampleInv, SameProcess
  <1>2. CASE WatchPoll \/ FollowPoll
    BY <1>2, PollAges, AgeingKeeps, Zenon DEF WatchPoll, FollowPoll
  <1>3. CASE WatchRefresh
    <2>1. CASE UNCHANGED <<prev, pct>>
      BY <1>1, <1>3, <2>1, Zenon DEF WatchRefresh, SampleInv
    <2>2. ASSUME NEW read \in SUBSET {id \in Ids : Readable(id)}, Refresh(read)
          PROVE  SampleInv'
      BY <1>3, <2>2, RefreshKeeps, Zenon DEF WatchRefresh
    <2> QED
      BY <1>3, <2>1, <2>2, Zenon DEF WatchRefresh
  <1>4. CASE WatchReturn
    BY <1>4, Zenon DEF WatchReturn, SampleInv, SameProcess, NoSamples
  <1>5. ASSUME NEW p \in Pids, Dies(p) PROVE SampleInv'
    BY <1>5, DeathAges, AgeingKeeps, Zenon DEF Dies
  <1>6. ASSUME NEW p \in Pids, Appears(p) PROVE SampleInv'
    BY <1>6, BirthAges, AgeingKeeps, Zenon DEF Appears
  <1>7. UNCHANGED wvars => UNCHANGED <<rec, proc, born, prev, pct>> /\ watched' \in Ids \cup {None}
    BY Zenon DEF wvars, SampleInv
  <1>8. CASE Type
    BY <1>1, <1>7, <1>8, Zenon DEF Type
  <1>9. CASE Steps
    <2>1. CASE Prompt \/ EndOfFile \/ LoopTop \/ SleepEnds
      BY <1>1, <1>7, <2>1, Zenon DEF Prompt, EndOfFile, LoopTop, SleepEnds
    <2> QED
      BY <1>1, <1>2, <1>3, <1>4, <1>7, <1>9, <2>1, Zenon DEF Steps
  <1>10. CASE World
    BY <1>1, <1>5, <1>6, <1>7, <1>10, Zenon DEF World
  <1>11. CASE on_sigint \/ CloseInput
    BY <1>1, <1>7, <1>11, Zenon DEF on_sigint, CloseInput
  <1>12. CASE UNCHANGED cvars
    BY <1>1, <1>7, <1>12, Zenon DEF cvars
  <1> QED
    BY <1>8, <1>9, <1>10, <1>11, <1>12, Zenon DEF ConsoleNext

\* However often pids pass on, stats --watch never shows for a container of this
\* manager a CPU percentage that compares it with another process.
THEOREM SamplesSound == ConsoleSpec => []SameProcess
  <1>1. SampleInv => SameProcess
    BY Zenon DEF SampleInv
  <1> QED
    BY <1>1, SamplesInit, SamplesStep, PTL DEF ConsoleSpec

----------------------------------------------------------------------------
(* logs -f *)

\* The lines of the log: what others write, and the ends of containers.
LogLines == Lines \cup {Stopped(id) : id \in Ids}

\* Since line base of what was read, the reading has kept up with the file.
Match ==
    /\ offset <= Len(log)
    /\ Len(seen) = base + offset
    /\ \A i \in 1 .. offset : seen[base + i] = log[i]

FollowInv ==
    /\ log \in Seq(LogLines) /\ seen \in Seq(LogLines)
    /\ offset \in Nat /\ base \in Nat /\ Len(log) <= MaxLog
    /\ ~Following /\ at # "free" => base = 0
    /\ at = "seek" /\ whole => seen = log
    /\ at = "render" /\ query.follow /\ whole => Match
    /\ Following /\ whole => Match

\* The log grows at its end only.
Grows ==
    /\ log' \in Seq(LogLines)
    /\ Len(log) <= Len(log') /\ Len(log') <= MaxLog
    /\ \A i \in 1 .. Len(log) : log'[i] = log[i]

\* What a command has in hand does not change.
Reading == <<query, seen, offset, base, whole>>

\* What logs -f has read stays the beginning of the log when lines are appended.
LEMMA MatchGrows == ASSUME Match, Grows, UNCHANGED Reading, offset \in Nat PROVE Match'
  BY DEF Match, Grows, Reading

\* The smaller and the larger of two numbers.
LEMMA MinMax ==
    ASSUME NEW a \in Nat, NEW b \in Nat
    PROVE /\ Min({a, b}) = IF a <= b THEN a ELSE b
          /\ Max({a, b}) = IF a <= b THEN b ELSE a
  <1>1. /\ \E x \in {a, b} : \A y \in {a, b} : x <= y
        /\ \E x \in {a, b} : \A y \in {a, b} : x >= y
    OBVIOUS
  <1>2. Min({a, b}) \in {a, b} /\ \A y \in {a, b} : Min({a, b}) <= y
    BY <1>1, Zenon DEF Min
  <1>3. Max({a, b}) \in {a, b} /\ \A y \in {a, b} : Max({a, b}) >= y
    BY <1>1, Zenon DEF Max
  <1> QED
    BY <1>2, <1>3

\* log_event_type appends, up to the bound of the model.
LEMMA AppendedGrows ==
    ASSUME NEW lines \in Seq(LogLines), log \in Seq(LogLines), Len(log) <= MaxLog,
           log' = Appended(lines)
    PROVE Grows
  <1> DEFINE n == Min({MaxLog, Len(log \o lines)})
  <1>1. Len(log \o lines) = Len(log) + Len(lines) /\ Len(lines) \in Nat /\ Len(log) \in Nat
    OBVIOUS
  <1>2. n \in Nat /\ Len(log) <= n /\ n <= MaxLog /\ n <= Len(log) + Len(lines)
    BY <1>1, LoggerAssumption, MinMax
  <1>3. log' = SubSeq(log \o lines, 1, n)
    BY Zenon DEF Appended
  <1> HIDE DEF n
  <1>4. Len(log') = n /\ log' \in Seq(LogLines)
    BY <1>1, <1>2, <1>3
  <1>5. \A i \in 1 .. Len(log) : log'[i] = log[i]
    BY <1>1, <1>2, <1>3
  <1> QED
    BY <1>2, <1>4, <1>5, Zenon DEF Grows

\* The polls of logs -f and stats --watch only append to the log.
LEMMA PollGrows ==
    ASSUME log \in Seq(LogLines), Len(log) <= MaxLog, poll_states PROVE Grows
  <1> DEFINE ended == {id \in Ids : Ended(id)}
             n == Cardinality(ended)
  <1>1. n \in Nat
    BY LoggerAssumption, FS_Subset, FS_CardinalityType, Zenon
  <1>2. PICK order \in [1 .. n -> ended] : log' = Appended([k \in 1 .. n |-> Stopped(order[k])])
    BY Zenon DEF poll_states
  <1>3. \A k \in 1 .. n : Stopped(order[k]) \in LogLines
    BY Zenon DEF LogLines
  <1> HIDE DEF n
  <1>4. [k \in 1 .. n |-> Stopped(order[k])] \in Seq(LogLines)
    BY <1>1, <1>3
  <1> QED
    BY <1>2, <1>4, AppendedGrows, Zenon

\* The steps that leave the file and what was read of it alone, or append to it,
\* keep the invariant wherever the main thread goes within the loop of logs -f.
LEMMA GrowthKeeps ==
    ASSUME FollowInv, Grows, UNCHANGED Reading, at \notin {"seek"},
           \/ UNCHANGED at
           \/ Following /\ (Following \/ at = "free")'
           \/ ~Following /\ at # "free" /\ at' \notin {"seek", "render"} /\ ~Following'
           \/ at = "free" /\ at' = "free"
    PROVE FollowInv'
  <1>1. Match => Match'
    BY MatchGrows, Zenon DEF FollowInv
  <1>2. log' \in Seq(LogLines) /\ Len(log') <= MaxLog
    BY Zenon DEF Grows
  <1> QED
    BY <1>1, <1>2, Zenon DEF FollowInv, Reading, Following

\* The part of a file behind an offset, which may lie beyond its end.
LEMMA Rest ==
    ASSUME NEW S, NEW s \in Seq(S), NEW n \in Nat
    PROVE /\ SubSeq(s, n + 1, Len(s)) \in Seq(S)
          /\ n <= Len(s) => Len(SubSeq(s, n + 1, Len(s))) = Len(s) - n
          /\ \A k \in 1 .. Len(s) - n : SubSeq(s, n + 1, Len(s))[k] = s[n + k]
  <1>1. \A k \in n + 1 .. Len(s) : s[k] \in S
    OBVIOUS
  <1> QED
    BY <1>1, SubSeqProperties

\* logs -f reads on from offset to the end of the file, and has then read it all.
LEMMA ReadingOn ==
    ASSUME log \in Seq(LogLines), seen \in Seq(LogLines), offset \in Nat, base \in Nat, Match,
           seen' = seen \o SubSeq(log, offset + 1, Len(log)), offset' = Len(log),
           UNCHANGED <<log, base>>
    PROVE Match'
  <1> DEFINE rest == SubSeq(log, offset + 1, Len(log))
  <1>1. Len(log) \in Nat /\ Len(seen) = base + offset /\ offset <= Len(log)
    BY DEF Match
  <1>2. /\ rest \in Seq(LogLines) /\ Len(rest) = Len(log) - offset
        /\ \A k \in 1 .. Len(log) - offset : rest[k] = log[offset + k]
    BY <1>1, Rest, Zenon
  <1>3. seen' = seen \o rest
    BY Zenon
  <1> HIDE DEF rest
  <1>4. /\ Len(seen') = base + Len(log)
        /\ \A k \in 1 .. Len(seen) : seen'[k] = seen[k]
        /\ \A k \in 1 .. Len(rest) : seen'[Len(seen) + k] = rest[k]
    <2>0. /\ Len(seen \o rest) = Len(seen) + Len(rest)
          /\ \A k \in 1 .. Len(seen) + Len(rest) :
               (seen \o rest)[k] = IF k <= Len(seen) THEN seen[k] ELSE rest[k - Len(seen)]
      BY <1>2, ConcatProperties, Zenon
    <2>1. Len(seen') = Len(seen) + Len(rest)
      BY <1>3, <2>0, Zenon
    <2>2. ASSUME NEW k \in 1 .. Len(seen) PROVE seen'[k] = seen[k]
      <3>1. k \in 1 .. Len(seen) + Len(rest) /\ k <= Len(seen)
        BY <1>1, <1>2, SMT
      <3> QED
        BY <1>3, <2>0, <3>1, Zenon
    <2>3. ASSUME NEW k \in 1 .. Len(rest) PROVE seen'[Len(seen) + k] = rest[k]
      <3>1. /\ Len(seen) + k \in 1 .. Len(seen) + Len(rest)
            /\ ~(Len(seen) + k <= Len(seen)) /\ (Len(seen) + k) - Len(seen) = k
        BY <1>1, <1>2, SMT
      <3> QED
        BY <1>3, <2>0, <3>1, Zenon
    <2>4. Len(rest) = Len(log) - offset
      BY <1>2, Zenon
    <2>5. (base + offset) + (Len(log) - offset) = base + Len(log)
      BY <1>1
    <2>6. Len(seen') = base + Len(log)
      BY <1>1, <2>1, <2>4, <2>5, Zenon
    <2> QED
      BY <2>2, <2>3, <2>6, Zenon
  <1>5. ASSUME NEW i \in 1 .. Len(log) PROVE seen'[base + i] = log[i]
    <2>1. CASE i <= offset
      BY <1>1, <1>4, <2>1 DEF Match
    <2>2. CASE i > offset
      <3>1. i - offset \in 1 .. Len(log) - offset
        BY <1>1, <2>2
      <3>2. base + i = Len(seen) + (i - offset) /\ offset + (i - offset) = i
        BY <1>1
      <3> QED
        BY <1>2, <1>4, <3>1, <3>2, ZenonT(60)
    <2> QED
      BY <1>1, <2>1, <2>2
  <1>6. offset' = Len(log) /\ log' = log /\ base' = base /\ Len(log) <= Len(log)
    BY <1>1
  <1> QED
    BY <1>1, <1>4, <1>5, <1>6, Zenon DEF Match

\* The steps of logs and logs -f keep it.
LEMMA LogsKeep ==
    ASSUME FollowInv, LogsRead \/ FollowSeek \/ LogsRender \/ FollowStat \/ FollowRead \/ LogsReturn
    PROVE FollowInv'
  <1>0. log \in Seq(LogLines) /\ seen \in Seq(LogLines) /\ Len(log) \in Nat /\ Len(seen) \in Nat
    BY DEF FollowInv
  <1>1. CASE LogsRead
    BY <1>1, Zenon DEF LogsRead, FollowInv, Following
  <1>2. CASE FollowSeek
    <2>1. CASE at' = "render" /\ UNCHANGED seen /\ offset' = Len(log)
      BY <1>0, <1>2, <2>1 DEF FollowSeek, FollowInv, Following, Match
    <2>2. CASE at' = "free" /\ seen' = << >> /\ UNCHANGED offset
      <3>1. seen' \in Seq(LogLines)
        BY <2>2
      <3> QED
        BY <1>2, <2>2, <3>1, Zenon DEF FollowSeek, FollowInv, Following
    <2> QED
      BY <1>2, <2>1, <2>2, Zenon DEF FollowSeek
  <1>3. CASE LogsRender
    BY <1>3, Zenon DEF LogsRender, FollowInv, Following, Match
  <1>4. CASE FollowStat
    <2>1. CASE UNCHANGED <<offset, base, whole>>
      <3>1. Following /\ Following' /\ UNCHANGED <<log, seen>>
        BY <1>4, Zenon DEF FollowStat, Following
      <3>2. Match => Match'
        BY <2>1, <3>1, Zenon DEF Match
      <3> QED
        BY <1>4, <2>1, <3>1, <3>2, Zenon DEF FollowStat, FollowInv, Following
    <2>2. CASE /\ offset' = Rewound(Len(log))
               /\ at' = IF Len(log) > offset' THEN "read" ELSE "follow_sleep"
               /\ base' = IF Len(log) < offset THEN Len(seen) ELSE base
               /\ whole' = (whole \/ Len(log) < offset)
      <3>1. Following /\ Following' /\ offset' \in Nat /\ base' \in Nat /\ Len(log') <= MaxLog
        BY <1>0, <1>4, <2>2, Zenon DEF FollowStat, Rewound, FollowInv, Following
      <3>2. CASE Len(log) < offset
        BY <1>0, <1>4, <2>2, <3>1, <3>2 DEF FollowStat, Rewound, FollowInv, Following, Match
      <3>3. CASE ~(Len(log) < offset)
        <4>1. (whole' => whole) /\ UNCHANGED <<log, seen, offset, base>>
          BY <1>4, <2>2, <3>3, Zenon DEF FollowStat, Rewound
        <4> QED
          BY <1>4, <2>2, <3>1, <4>1, Zenon DEF FollowStat, FollowInv, Following, Match
      <3> QED
        BY <3>2, <3>3, Zenon
    <2> QED
      BY <1>4, <2>1, <2>2, Zenon DEF FollowStat
  <1>5. CASE FollowRead
    <2>1. CASE UNCHANGED <<seen, offset>>
      BY <1>5, <2>1, Zenon DEF FollowRead, FollowInv, Following, Match
    <2>2. CASE /\ seen' = seen \o SubSeq(log, offset + 1, Len(log))
               /\ offset' = Max({offset, Len(log)})
      <3>1. offset \in Nat /\ base \in Nat
        BY Zenon DEF FollowInv
      <3>2. offset' \in Nat /\ (offset <= Len(log) => offset' = Len(log))
        BY <1>0, <2>2, <3>1, MinMax, ZenonT(60)
      <3>3. UNCHANGED <<log, base>>
        BY <1>5, Zenon DEF FollowRead
      <3>4. Match => Match'
        BY <1>0, <2>2, <3>1, <3>2, <3>3, ReadingOn, ZenonT(60) DEF Match
      <3>5. seen' \in Seq(LogLines)
        BY <1>0, <2>2, <3>1, Rest
      <3> QED
        BY <1>5, <3>2, <3>4, <3>5, Zenon DEF FollowRead, FollowInv, Following
    <2> QED
      BY <1>5, <2>1, <2>2, ZenonT(60) DEF FollowRead
  <1>6. CASE LogsReturn
    BY <1>6 DEF LogsReturn, FollowInv, Following
  <1> QED
    BY <1>1, <1>2, <1>3, <1>4, <1>5, <1>6, Zenon

\* Nothing has been read before the first command.
LEMMA FollowInit == ConsoleInit => FollowInv
  BY LoggerAssumption DEF ConsoleInit, LoggerInit, FollowInv, Following

\* Every step of the console, of a second manager and of whoever truncates the
\* log keeps what logs -f relies on.
LEMMA FollowStep == FollowInv /\ [ConsoleNext]_cvars => FollowInv'
  <1> SUFFICES ASSUME FollowInv, [ConsoleNext]_cvars PROVE FollowInv'
    OBVIOUS
  <1>0. UNCHANGED lvars => UNCHANGED <<log, Reading>>
    BY Zenon DEF lvars, Reading
  <1>1. UNCHANGED log => Grows
    BY DEF Grows, FollowInv
  <1>2. CASE UNCHANGED <<at, lvars>>
    BY <1>0, <1>2 DEF Reading, FollowInv, Following, Match
  <1>3. CASE Prompt \/ EndOfFile \/ LoopTop \/ SleepEnds \/ WatchReturn
    BY <1>0, <1>1, <1>3, GrowthKeeps, Zenon
       DEF Prompt, EndOfFile, LoopTop, SleepEnds, WatchReturn, Top, Following
  <1>4. CASE LogsRead \/ FollowSeek \/ LogsRender \/ FollowStat \/ FollowRead \/ LogsReturn
    BY <1>4, LogsKeep, Zenon
  <1>5. CASE WatchRefresh
    BY <1>0, <1>1, <1>5, GrowthKeeps, Zenon DEF WatchRefresh, Following
  <1>6. CASE WatchPoll \/ FollowPoll
    <2>1. Grows /\ UNCHANGED Reading
      BY <1>6, PollGrows, Zenon DEF WatchPoll, FollowPoll, view, Reading, FollowInv
    <2> QED
      BY <1>6, <2>1, GrowthKeeps, Zenon DEF WatchPoll, FollowPoll, Following
  <1>7. CASE Type
    BY <1>0, <1>7, Zenon DEF Type, Reading, FollowInv, Following, Match
  <1>8. CASE on_sigint
    BY <1>0, <1>8 DEF on_sigint, Top, Reading, FollowInv, Following, Match
  <1>9. CASE CloseInput
    BY <1>2, <1>9, Zenon DEF CloseInput
  <1>10. CASE OtherAppends
    <2>0. log \in Seq(LogLines) /\ Len(log) \in Nat /\ MaxLog \in Nat
      BY LoggerAssumption DEF FollowInv
    <2>1. PICK line \in Lines : log' = Append(log, line)
      BY <1>10, Zenon DEF OtherAppends
    <2>3. /\ log' \in Seq(LogLines) /\ Len(log') = Len(log) + 1
          /\ \A i \in 1 .. Len(log) : log'[i] = log[i]
      BY <2>0, <2>1 DEF FollowInv, LogLines
    <2>4. Grows
      BY <1>10, <2>0, <2>3 DEF OtherAppends, Grows
    <2>5. UNCHANGED <<at, query, seen, offset, base>>
      BY <1>10, Zenon DEF OtherAppends
    <2>2. whole' => whole /\ at # "seek"
      BY <1>10, Zenon DEF OtherAppends
    <2> QED
      BY <2>2, <2>4, <2>5 DEF FollowInv, Following, Match, Grows
  <1>11. CASE Truncate
    <2>1. whole' => at \in {"prompt", "logs"}
      BY <1>11, Zenon DEF Truncate
    <2> QED
      BY <1>11, <2>1, LoggerAssumption DEF Truncate, FollowInv, Following
  <1>12. CASE \E p \in Pids : Dies(p) \/ Appears(p)
    BY <1>2, <1>12, Zenon DEF Dies, Appears
  <1>13. CASE UNCHANGED cvars
    BY <1>2, <1>13, Zenon DEF cvars
  <1>14. CASE Steps
    BY <1>3, <1>4, <1>5, <1>6, <1>14, Zenon DEF Steps
  <1>15. CASE World
    BY <1>10, <1>11, <1>12, <1>15, ZenonT(60) DEF World
  <1> QED
    BY <1>7, <1>8, <1>9, <1>13, <1>14, <1>15, Zenon DEF ConsoleNext

\* logs -f shows every line of the log once and in order, however the writes of
\* another manager and a truncation fall between its steps.
THEOREM FollowSound == ConsoleSpec => []FollowLosesNothing
  <1>1. FollowInv => FollowLosesNothing
    <2> SUFFICES ASSUME FollowInv, Following, whole
                 PROVE /\ offset <= Len(log)
                       /\ SubSeq(seen, base + 1, Len(seen)) = SubSeq(log, 1, offset)
      BY Zenon DEF FollowLosesNothing
    <2>1. Match /\ offset \in Nat /\ base \in Nat
      BY Zenon DEF FollowInv
    <2>2. SubSeq(seen, base + 1, Len(seen)) = [i \in 1 .. offset |-> seen[base + i]]
      BY <2>1 DEF Match
    <2>3. SubSeq(log, 1, offset) = [i \in 1 .. offset |-> log[i]]
      BY <2>1 DEF Match
    <2> QED
      BY <2>1, <2>2, <2>3, Zenon DEF Match
  <1> QED
    BY <1>1, FollowInit, FollowStep, PTL DEF ConsoleSpec

----------------------------------------------------------------------------
(* The rows of logs *)

\* What the catalog knows of a container is what the lines up to n say last.
Catalogued(cat, lines, n) ==
    \A id \in Ids :
      /\ cat[id].name = LastSaid(lines, n, id, Names(lines))
      /\ cat[id].pid = LastSaid(lines, n, id, LoggedPids(lines))
      /\ cat[id].status = LastSaid(lines, n, id, Statuses(lines))

\* The first n lines have been rendered, those in S as rows.
Told(acc, lines, S, n) ==
    /\ acc.cat = [id \in Ids |-> acc.cat[id]]
    /\ Catalogued(acc.cat, lines, n)
    /\ acc.rows = [k \in 1 .. Rank(S, n) |-> acc.rows[k]]
    /\ \A m \in S : m <= n => Tells(acc.rows[Rank(S, m)], lines, m)

\* One more line changes the count by one if it is a member.
LEMMA RankStep ==
    ASSUME NEW S, \A i \in S : i \in Nat /\ i >= 1, NEW n \in Nat
    PROVE /\ IsFiniteSet({i \in S : i <= n})
          /\ Rank(S, n) \in Nat
          /\ Rank(S, 0) = 0
          /\ Rank(S, n + 1) = IF n + 1 \in S THEN Rank(S, n) + 1 ELSE Rank(S, n)
  <1> DEFINE A == {i \in S : i <= n}
             B == {i \in S : i <= n + 1}
  <1>1. IsFiniteSet(A)
    <2>1. A \subseteq 1 .. n
      OBVIOUS
    <2>2. IsFiniteSet(1 .. n)
      BY FS_Interval
    <2> QED
      BY <2>1, <2>2, FS_Subset, Zenon
  <1>2. Cardinality(A) \in Nat
    BY <1>1, FS_CardinalityType, Zenon
  <1>3. {i \in S : i <= 0} = {}
    OBVIOUS
  <1>4. Cardinality({}) = 0
    BY FS_EmptySet, Zenon
  <1>5. CASE n + 1 \in S
    <2>1. B = A \cup {n + 1} /\ n + 1 \notin A
      BY <1>5
    <2>2. Cardinality(B) = Cardinality(A) + 1
      BY <1>1, <2>1, FS_AddElement, Zenon
    <2> QED
      BY <1>1, <1>2, <1>3, <1>4, <1>5, <2>2, Zenon DEF Rank
  <1>6. CASE n + 1 \notin S
    <2>1. B = A
      BY <1>6
    <2> QED
      BY <1>1, <1>2, <1>3, <1>4, <1>6, <2>1, Zenon DEF Rank
  <1> QED
    BY <1>5, <1>6, Zenon

\* A member's rank is one of the numbers up to the count.
LEMMA RankInside ==
    ASSUME NEW S, \A i \in S : i \in Nat /\ i >= 1, NEW n \in Nat, NEW m \in S, m <= n
    PROVE Rank(S, m) \in 1 .. Rank(S, n)
  <1> DEFINE A == {i \in S : i <= m}
             B == {i \in S : i <= n}
  <1>1. IsFiniteSet(A) /\ IsFiniteSet(B) /\ Cardinality(A) \in Nat /\ Cardinality(B) \in Nat
    <2>1. m \in Nat
      OBVIOUS
    <2>2. IsFiniteSet(A) /\ Rank(S, m) \in Nat
      BY <2>1, RankStep, ZenonT(60)
    <2>3. IsFiniteSet(B) /\ Rank(S, n) \in Nat
      BY RankStep, Zenon
    <2> QED
      BY <2>2, <2>3, Zenon DEF Rank
  <1>2. A \subseteq B /\ m \in A
    OBVIOUS
  <1>3. Cardinality(A) <= Cardinality(B)
    BY <1>1, <1>2, FS_Subset, Zenon
  <1>4. Cardinality(A) # 0
    BY <1>1, <1>2, FS_EmptySet, Zenon
  <1> QED
    BY <1>1, <1>3, <1>4 DEF Rank

\* One more line says something new of its own container, or nothing.
LEMMA LastStep ==
    ASSUME NEW lines, NEW n \in Nat, NEW id, NEW says
    PROVE LastSaid(lines, n + 1, id, says) =
            IF lines[n + 1].id = id THEN Known(says[n + 1], LastSaid(lines, n, id, says))
            ELSE LastSaid(lines, n, id, says)
  <1> DEFINE A == {i \in 1 .. n : lines[i].id = id /\ says[i] # None}
             B == {i \in 1 .. n + 1 : lines[i].id = id /\ says[i] # None}
  <1>1. CASE lines[n + 1].id = id /\ says[n + 1] # None
    <2>1. n + 1 \in B /\ \A i \in B : n + 1 >= i
      BY <1>1
    <2>2. Max(B) = n + 1
      <3>1. Max(B) \in B /\ \A i \in B : Max(B) >= i
        BY <2>1, Zenon DEF Max
      <3> QED
        BY <2>1, <3>1
    <2> QED
      BY <1>1, <2>1, <2>2, Zenon DEF LastSaid, Known
  <1>2. CASE ~(lines[n + 1].id = id /\ says[n + 1] # None)
    <2>1. B = A
      BY <1>2
    <2> QED
      BY <1>2, <2>1, Zenon DEF LastSaid, Known
  <1> QED
    BY <1>1, <1>2, Zenon

\* A set of natural numbers that is not empty has a least one.
LEMMA Least ==
    ASSUME NEW A, A \subseteq Nat, A # {}
    PROVE \E m \in A : \A k \in A : ~(k < m)
  <1>1. IsWellFoundedOn(OpToRel(<, Nat), Nat)
    BY NatLessThanWellFounded, Zenon
  <1>2. PICK m \in A : \A k \in A : ~(<<k, m>> \in OpToRel(<, Nat))
    BY <1>1, WFMin, Zenon
  <1>3. \A k \in A : ~(k < m)
    BY <1>2, Zenon DEF OpToRel
  <1> QED
    BY <1>3, Zenon

\* A set of line numbers that is not empty has a last one.
LEMMA LastLine ==
    ASSUME NEW n \in Nat, NEW A \in SUBSET (1 .. n), A # {}
    PROVE Max(A) \in A
  <1> DEFINE Bounds == {m \in Nat : \A i \in A : m >= i}
  <1>1. n \in Bounds
    OBVIOUS
  <1>2. Bounds \subseteq Nat /\ Bounds # {}
    BY <1>1, Zenon
  <1> HIDE DEF Bounds
  <1>3. PICK m \in Bounds : \A k \in Bounds : ~(k < m)
    BY <1>2, Least, Zenon
  <1> USE DEF Bounds
  <1>5. m \in A
    <2> SUFFICES ASSUME m \notin A PROVE FALSE
      BY Zenon
    <2>1. PICK a \in A : TRUE
      BY Zenon
    <2>2. a \in Nat /\ a >= 1 /\ m >= a
      OBVIOUS
    <2>3. m - 1 \in Bounds
      BY <2>2
    <2> QED
      BY <1>3, <2>3
  <1> QED
    BY <1>3, <1>5, Zenon DEF Max

\* What the first n lines say does not depend on the others.
LEMMA LastPrefix ==
    ASSUME NEW a, NEW b, NEW n \in Nat, NEW id, NEW f, NEW g,
           \A i \in 1 .. n : a[i] = b[i] /\ f[i] = g[i]
    PROVE LastSaid(a, n, id, f) = LastSaid(b, n, id, g)
  <1> DEFINE A == {i \in 1 .. n : a[i].id = id /\ f[i] # None}
             B == {i \in 1 .. n : b[i].id = id /\ g[i] # None}
  <1>1. A = B
    BY Zenon
  <1>2. CASE A = {}
    BY <1>1, <1>2, Zenon DEF LastSaid
  <1>3. CASE A # {}
    <2>1. Max(A) \in 1 .. n
      BY <1>3, LastLine, Zenon
    <2> QED
      BY <1>1, <1>3, <2>1, Zenon DEF LastSaid
  <1> QED
    BY <1>2, <1>3, Zenon

\* A row added to those printed.
LEMMA AppendRow ==
    ASSUME NEW r \in Nat, NEW f, f = [k \in 1 .. r |-> f[k]], NEW x
    PROVE /\ Append(f, x) = [k \in 1 .. r + 1 |-> Append(f, x)[k]]
          /\ Append(f, x)[r + 1] = x
          /\ \A k \in 1 .. r : Append(f, x)[k] = f[k]
  <1> DEFINE T == {f[k] : k \in 1 .. r} \cup {x}
  <1>1. \A k \in 1 .. r : f[k] \in T
    BY Zenon
  <1>2. x \in T
    BY Zenon
  <1> HIDE DEF T
  <1>3. f \in [1 .. r -> T]
    BY <1>1, Zenon
  <1>4. f \in Seq(T) /\ Len(f) = r
    BY <1>3
  <1> QED
    BY <1>2, <1>4, AppendProperties

\* logger_catalog_update learns what a line says of its container.
LEMMA CatalogStep ==
    ASSUME NEW cat, NEW lines, NEW n \in Nat, n + 1 <= Len(lines), Len(lines) \in Nat,
           lines[n + 1].id \in Ids \cup {None},
           cat = [id \in Ids |-> cat[id]], Catalogued(cat, lines, n)
    PROVE LET new == logger_catalog_update(cat, lines[n + 1])
          IN  new = [id \in Ids |-> new[id]] /\ Catalogued(new, lines, n + 1)
  <1> DEFINE line == lines[n + 1]
             new == logger_catalog_update(cat, line)
  <1>1. /\ Names(lines)[n + 1] = line.name
        /\ LoggedPids(lines)[n + 1] = line.pid
        /\ Statuses(lines)[n + 1] = infer_record_status(line)
    BY DEF Names, LoggedPids, Statuses
  <1>2. \A id \in Ids : /\ cat[id].name = LastSaid(lines, n, id, Names(lines))
                        /\ cat[id].pid = LastSaid(lines, n, id, LoggedPids(lines))
                        /\ cat[id].status = LastSaid(lines, n, id, Statuses(lines))
    BY Zenon DEF Catalogued
  <1>3. (\A id \in Ids : /\ new[id].name = LastSaid(lines, n + 1, id, Names(lines))
                         /\ new[id].pid = LastSaid(lines, n + 1, id, LoggedPids(lines))
                         /\ new[id].status = LastSaid(lines, n + 1, id, Statuses(lines)))
        => Catalogued(new, lines, n + 1)
    BY Zenon DEF Catalogued
  <1>4. CASE line.id = None
    <2>1. new = cat
      BY <1>4, Zenon DEF logger_catalog_update
    <2>2. \A id \in Ids : line.id # id
      BY <1>4, LoggerAssumption, Zenon
    <2> QED
      BY <1>2, <1>3, <2>1, <2>2, LastStep, SMTT(60)
  <1>5. CASE line.id # None
    <2> DEFINE entry == [name   |-> Known(line.name, cat[line.id].name),
                         pid    |-> Known(line.pid, cat[line.id].pid),
                         status |-> Known(infer_record_status(line), cat[line.id].status)]
    <2>1. new = [cat EXCEPT ![line.id] = entry] /\ line.id \in Ids
      BY <1>5, Zenon DEF logger_catalog_update
    <2>2. /\ entry.name = Known(line.name, cat[line.id].name)
          /\ entry.pid = Known(line.pid, cat[line.id].pid)
          /\ entry.status = Known(infer_record_status(line), cat[line.id].status)
      BY Zenon
    <2> HIDE DEF entry, new
    <2>3. /\ new = [id \in Ids |-> new[id]]
          /\ new[line.id] = entry
          /\ \A id \in Ids : id # line.id => new[id] = cat[id]
      BY <2>1, Zenon
    <2>4. ASSUME NEW id \in Ids
          PROVE /\ new[id].name = LastSaid(lines, n + 1, id, Names(lines))
                /\ new[id].pid = LastSaid(lines, n + 1, id, LoggedPids(lines))
                /\ new[id].status = LastSaid(lines, n + 1, id, Statuses(lines))
      <3>1. CASE id = line.id
        BY <1>1, <1>2, <2>2, <2>3, <3>1, LastStep, SMTT(60)
      <3>2. CASE id # line.id
        BY <1>2, <2>3, <3>2, LastStep
      <3> QED
        BY <3>1, <3>2, ZenonT(60)
    <2> QED
      BY <1>3, <2>3, <2>4, Zenon DEF new
  <1> QED
    BY <1>4, <1>5, Zenon

\* The row printed after the update shows what the catalog knows by then.
LEMMA RowTells ==
    ASSUME NEW cat, NEW old, NEW lines, NEW n \in Nat, n + 1 <= Len(lines), Len(lines) \in Nat,
           lines[n + 1].id \in Ids \cup {None},
           old = [id \in Ids |-> old[id]],
           cat = logger_catalog_update(old, lines[n + 1]),
           Catalogued(cat, lines, n + 1)
    PROVE Tells(logger_render_record(cat, lines[n + 1]), lines, n + 1)
  <1> DEFINE line == lines[n + 1]
             row == logger_render_record(cat, line)
  <1>1. row.line = line
    BY Zenon DEF logger_render_record
  <1>2. CASE line.id = None
    BY <1>1, <1>2, Zenon DEF Tells
  <1>3. CASE line.id # None
    <2>1. line.id \in Ids
      BY <1>3, Zenon
    <2>2. /\ row.name = cat[line.id].name
          /\ row.pid = Known(cat[line.id].pid, line.pid)
          /\ row.status = Known(cat[line.id].status, infer_record_status(line))
      BY <1>3, Zenon DEF logger_render_record
    <2>3. /\ cat[line.id].pid = Known(line.pid, old[line.id].pid)
          /\ cat[line.id].status = Known(infer_record_status(line), old[line.id].status)
      BY <1>3, <2>1, Zenon DEF logger_catalog_update
    <2>4. row.pid = cat[line.id].pid /\ row.status = cat[line.id].status
      BY <2>2, <2>3, Zenon DEF Known
    <2> HIDE DEF row
    <2>5. Tells(row, lines, n + 1)
      BY <1>1, <2>1, <2>2, <2>4, ZenonT(60) DEF Tells, Catalogued
    <2> QED
      BY <2>5, Zenon DEF row
  <1> QED
    BY <1>2, <1>3, Zenon

\* One turn of logger_render_records.
LEMMA ToldStep ==
    ASSUME NEW acc, NEW lines, NEW S, \A i \in S : i \in Nat /\ i >= 1,
           NEW n \in Nat, n + 1 <= Len(lines), Len(lines) \in Nat,
           lines[n + 1].id \in Ids \cup {None},
           Told(acc, lines, S, n)
    PROVE Told(Rendered(acc, lines[n + 1], n + 1 \in S), lines, S, n + 1)
  <1> DEFINE line == lines[n + 1]
             cat == logger_catalog_update(acc.cat, line)
             row == logger_render_record(cat, line)
             res == Rendered(acc, line, n + 1 \in S)
  <1>1. cat = [id \in Ids |-> cat[id]] /\ Catalogued(cat, lines, n + 1)
    BY CatalogStep, Zenon DEF Told
  <1>2. res.cat = cat /\ res.rows = IF n + 1 \in S THEN Append(acc.rows, row) ELSE acc.rows
    BY Zenon DEF Rendered
  <1>3. Tells(row, lines, n + 1)
    BY <1>1, RowTells, Zenon DEF Told
  <1>4. /\ Rank(S, n) \in Nat
        /\ Rank(S, n + 1) = IF n + 1 \in S THEN Rank(S, n) + 1 ELSE Rank(S, n)
    BY RankStep, Zenon
  <1>5. /\ acc.rows = [k \in 1 .. Rank(S, n) |-> acc.rows[k]]
        /\ \A m \in S : m <= n => Tells(acc.rows[Rank(S, m)], lines, m)
    BY Zenon DEF Told
  <1>6. \A m \in S : m <= n => Rank(S, m) \in 1 .. Rank(S, n)
    BY RankInside, Zenon
  <1> HIDE DEF cat, row, res
  <1>7. /\ res.rows = [k \in 1 .. Rank(S, n + 1) |-> res.rows[k]]
        /\ \A m \in S : m <= n + 1 => Tells(res.rows[Rank(S, m)], lines, m)
    <2>1. CASE n + 1 \in S
      <3>1. /\ res.rows = [k \in 1 .. Rank(S, n) + 1 |-> res.rows[k]]
            /\ res.rows[Rank(S, n) + 1] = row
            /\ \A k \in 1 .. Rank(S, n) : res.rows[k] = acc.rows[k]
        BY <1>2, <1>4, <1>5, <2>1, AppendRow, SMTT(60)
      <3>2. Tells(res.rows[Rank(S, n + 1)], lines, n + 1)
        BY <1>3, <1>4, <2>1, <3>1, ZenonT(60)
      <3>3. \A m \in S : m <= n => Tells(res.rows[Rank(S, m)], lines, m)
        BY <1>5, <1>6, <3>1, ZenonT(60)
      <3>4. \A m \in S : m <= n + 1 => m <= n \/ m = n + 1
        OBVIOUS
      <3> QED
        BY <1>4, <2>1, <3>1, <3>2, <3>3, <3>4, ZenonT(60)
    <2>2. CASE n + 1 \notin S
      <3>1. \A m \in S : m <= n + 1 => m <= n
        BY <2>2
      <3> QED
        BY <1>2, <1>4, <1>5, <2>2, <3>1, ZenonT(60)
    <2> QED
      BY <2>1, <2>2, Zenon
  <1>8. Told(res, lines, S, n + 1)
    BY <1>1, <1>2, <1>7, Zenon DEF Told
  <1> QED
    BY <1>8, Zenon DEF res

\* What is told of the first n lines does not change when lines are added, nor
\* when the lines asked for after them do.
LEMMA ToldPrefix ==
    ASSUME NEW acc, NEW a, NEW b, NEW S, NEW T, NEW n \in Nat,
           \A i \in S : i \in Nat /\ i >= 1,
           n <= Len(a), n <= Len(b), Len(a) \in Nat, Len(b) \in Nat,
           \A i \in 1 .. n : a[i] = b[i] /\ (i \in S <=> i \in T),
           \A i \in T : i \in Nat /\ i >= 1,
           Told(acc, a, S, n)
    PROVE Told(acc, b, T, n)
  <1>1. \A i \in 1 .. n : /\ Names(a)[i] = Names(b)[i]
                          /\ LoggedPids(a)[i] = LoggedPids(b)[i]
                          /\ Statuses(a)[i] = Statuses(b)[i]
    BY DEF Names, LoggedPids, Statuses
  <1>2. ASSUME NEW m \in Nat, m <= n, NEW id
        PROVE /\ LastSaid(a, m, id, Names(a)) = LastSaid(b, m, id, Names(b))
              /\ LastSaid(a, m, id, LoggedPids(a)) = LastSaid(b, m, id, LoggedPids(b))
              /\ LastSaid(a, m, id, Statuses(a)) = LastSaid(b, m, id, Statuses(b))
    <2>1. \A i \in 1 .. m : i \in 1 .. n
      BY <1>2
    <2>2. \A i \in 1 .. m : a[i] = b[i] /\ Names(a)[i] = Names(b)[i]
      BY <1>1, <2>1, Zenon
    <2>3. \A i \in 1 .. m : a[i] = b[i] /\ LoggedPids(a)[i] = LoggedPids(b)[i]
      BY <1>1, <2>1, Zenon
    <2>4. \A i \in 1 .. m : a[i] = b[i] /\ Statuses(a)[i] = Statuses(b)[i]
      BY <1>1, <2>1, Zenon
    <2>5. LastSaid(a, m, id, Names(a)) = LastSaid(b, m, id, Names(b))
      BY <2>2, LastPrefix, SMT
    <2>6. LastSaid(a, m, id, LoggedPids(a)) = LastSaid(b, m, id, LoggedPids(b))
      BY <2>3, LastPrefix, SMTT(60)
    <2>7. LastSaid(a, m, id, Statuses(a)) = LastSaid(b, m, id, Statuses(b))
      BY <2>4, LastPrefix, SMT
    <2> QED
      BY <2>5, <2>6, <2>7, ZenonT(60)
  <1>3. Catalogued(acc.cat, b, n)
    <2>1. n <= n
      OBVIOUS
    <2>2. Catalogued(acc.cat, a, n)
      BY Zenon DEF Told
    <2> QED
      BY <1>2, <2>1, <2>2, ZenonT(60) DEF Catalogued
  <1>4. ASSUME NEW m \in Nat, m <= n PROVE Rank(S, m) = Rank(T, m)
    <2>1. {i \in S : i <= m} = {i \in T : i <= m}
      BY <1>4
    <2> QED
      BY <2>1, Zenon DEF Rank
  <1>5. ASSUME NEW m \in T, m <= n PROVE Tells(acc.rows[Rank(T, m)], b, m)
    <2>1. m \in S /\ m \in Nat /\ m \in 1 .. n /\ a[m] = b[m]
      BY <1>5
    <2>2. Tells(acc.rows[Rank(T, m)], a, m)
      BY <1>4, <1>5, <2>1, Zenon DEF Told
    <2> QED
      BY <1>2, <1>5, <2>1, <2>2, ZenonT(60) DEF Tells
  <1>6. acc.rows = [k \in 1 .. Rank(T, n) |-> acc.rows[k]]
    <2>1. Rank(S, n) = Rank(T, n) /\ acc.rows = [k \in 1 .. Rank(S, n) |-> acc.rows[k]]
      BY <1>4 DEF Told
    <2> QED
      BY <2>1, Zenon
  <1> QED
    BY <1>3, <1>5, <1>6, ZenonT(60) DEF Told

\* The loop of logger_render_records, turn by turn.
Turns(f, acc, lines, selection, n) ==
    /\ f = [k \in 0 .. n |-> f[k]]
    /\ f[0] = acc
    /\ \A k \in 1 .. n : f[k] = Rendered(f[k - 1], lines[k], k \in selection)

\* The loop can be run to any turn.
LEMMA TurnsExist ==
    ASSUME NEW acc, NEW lines, NEW selection, NEW n \in Nat
    PROVE \E f : Turns(f, acc, lines, selection, n)
  <1> DEFINE Bad == {m \in Nat : ~\E f : Turns(f, acc, lines, selection, m)}
  <1> SUFFICES ASSUME Bad # {} PROVE FALSE
    BY Zenon
  <1>1. PICK m \in Bad : \A k \in Bad : ~(k < m)
    <2>1. Bad \subseteq Nat
      BY Zenon
    <2> HIDE DEF Bad
    <2> QED
      BY <2>1, Least, Zenon
  <1>2. m # 0
    <2> DEFINE g == [k \in 0 .. 0 |-> acc]
    <2>1. Turns(g, acc, lines, selection, 0)
      BY DEF Turns
    <2> QED
      BY <2>1, Zenon
  <1>3. m \in Nat /\ m - 1 \in Nat /\ m - 1 \notin Bad
    BY <1>1, <1>2
  <1>4. PICK f : Turns(f, acc, lines, selection, m - 1)
    BY <1>3, Zenon
  <1> DEFINE g == [k \in 0 .. m |-> IF k = m THEN Rendered(f[m - 1], lines[m], m \in selection)
                                    ELSE f[k]]
  <1>5. Turns(g, acc, lines, selection, m)
    <2>1. /\ f[0] = acc
          /\ \A k \in 1 .. m - 1 : f[k] = Rendered(f[k - 1], lines[k], k \in selection)
      BY <1>4, Zenon DEF Turns
    <2>2. g = [k \in 0 .. m |-> g[k]] /\ g[0] = acc
      BY <1>2, <1>3, <2>1
    <2>3. \A k \in 0 .. m - 1 : g[k] = f[k]
      BY <1>3
    <2>4. g[m] = Rendered(f[m - 1], lines[m], m \in selection)
      BY <1>3
    <2> HIDE DEF g
    <2>5. ASSUME NEW k \in 1 .. m PROVE g[k] = Rendered(g[k - 1], lines[k], k \in selection)
      <3>1. CASE k = m
        BY <1>3, <2>3, <2>4, <3>1, SMTT(60)
      <3>2. CASE k # m
        <4>1. k \in 1 .. m - 1 /\ k \in 0 .. m - 1 /\ k - 1 \in 0 .. m - 1
          BY <1>3, <3>2
        <4> QED
          BY <2>1, <2>3, <4>1, Zenon
      <3> QED
        BY <3>1, <3>2, Zenon
    <2> QED
      BY <2>2, <2>5, Zenon DEF Turns
  <1> QED
    BY <1>5, Zenon

\* What logger_render_records computes.
LEMMA RenderTurns ==
    ASSUME NEW acc, NEW lines, NEW selection, Len(lines) \in Nat
    PROVE \E f : /\ Turns(f, acc, lines, selection, Len(lines))
                 /\ logger_render_records(acc, lines, selection) = f[Len(lines)]
  <1> DEFINE N == Len(lines)
             Def(f) == f = [n \in 0 .. N |->
                              IF n = 0 THEN acc
                              ELSE Rendered(f[n - 1], lines[n], n \in selection)]
             g == CHOOSE f : Def(f)
  <1>1. PICK h : Turns(h, acc, lines, selection, N)
    BY TurnsExist, Zenon
  <1>2. Def(h)
    BY <1>1 DEF Turns
  <1>3. Def(g)
    BY <1>2, Zenon
  <1>4. logger_render_records(acc, lines, selection) = g[N]
    BY Zenon DEF logger_render_records
  <1> HIDE DEF g
  <1>5. Turns(g, acc, lines, selection, N)
    BY <1>3, SMTT(60) DEF Turns
  <1> QED
    BY <1>4, <1>5, Zenon

\* A pass over lines that continue the first b of all: it tells of all of them.
LEMMA RenderTells ==
    ASSUME NEW acc, NEW all, NEW S, \A i \in S : i \in Nat /\ i >= 1,
           NEW b \in Nat, b <= Len(all), Len(all) \in Nat,
           \A i \in 1 .. Len(all) : all[i].id \in Ids \cup {None},
           NEW lines, Len(lines) = Len(all) - b, NEW selection,
           \A k \in 1 .. Len(lines) : lines[k] = all[b + k] /\ (k \in selection <=> b + k \in S),
           Told(acc, all, S, b)
    PROVE Told(logger_render_records(acc, lines, selection), all, S, Len(all))
  <1> DEFINE N == Len(lines)
  <1>1. N \in Nat /\ b + N = Len(all)
    OBVIOUS
  <1>2. PICK f : /\ Turns(f, acc, lines, selection, N)
                 /\ logger_render_records(acc, lines, selection) = f[N]
    BY <1>1, RenderTurns, ZenonT(60)
  <1> DEFINE Bad == {m \in 0 .. N : ~Told(f[m], all, S, b + m)}
  <1>3. Bad = {}
    <2> SUFFICES ASSUME Bad # {} PROVE FALSE
      BY Zenon
    <2>1. PICK m \in Bad : \A k \in Bad : ~(k < m)
      <3>1. Bad \subseteq Nat
        BY <1>1, SMTT(60)
      <3> HIDE DEF Bad
      <3> QED
        BY <3>1, Least, Zenon
    <2>2. m \in 0 .. N /\ ~Told(f[m], all, S, b + m)
      BY <2>1, Zenon
    <2>3. m # 0
      <3>1. f[0] = acc /\ b + 0 = b
        BY <1>2, SMTT(60) DEF Turns
      <3> QED
        BY <2>2, <3>1, ZenonT(60)
    <2>4. /\ m - 1 \in 0 .. N /\ m - 1 < m /\ m \in 1 .. N
          /\ b + (m - 1) \in Nat /\ (b + (m - 1)) + 1 = b + m
          /\ b + m <= Len(all) /\ b + m \in 1 .. Len(all)
      <3>1. m \in Nat /\ m <= N
        BY <1>1, <2>2
      <3> HIDE DEF N
      <3> QED
        BY <1>1, <2>3, <3>1, SMTT(60)
    <2>5. Told(f[m - 1], all, S, b + (m - 1))
      BY <2>1, <2>4, Zenon
    <2>6. f[m] = Rendered(f[m - 1], lines[m], m \in selection)
      BY <1>2, <2>4, Zenon DEF Turns
    <2>7. lines[m] = all[b + m] /\ (m \in selection <=> b + m \in S)
      BY <2>4, Zenon
    <2>8. Rendered(f[m - 1], lines[m], m \in selection) = Rendered(f[m - 1], all[b + m], b + m \in S)
      BY <2>7, Zenon DEF Rendered
    <2>9. all[b + m].id \in Ids \cup {None}
      BY <2>4, Zenon
    <2> HIDE DEF Bad, N
    <2> DEFINE p == b + (m - 1)
    <2>10. p \in Nat /\ p + 1 = b + m /\ p + 1 <= Len(all) /\ all[p + 1].id \in Ids \cup {None}
      BY <2>4, <2>9, Zenon
    <2>11. Told(Rendered(f[m - 1], all[p + 1], p + 1 \in S), all, S, p + 1)
      <3> HIDE DEF p
      <3>1. Told(f[m - 1], all, S, p)
        BY <2>5, Zenon DEF p
      <3> QED
        BY <2>10, <3>1, ToldStep, Zenon
    <2> QED
      BY <2>2, <2>6, <2>8, <2>10, <2>11, Zenon
  <1>4. Told(f[N], all, S, b + N)
    BY <1>1, <1>3, SMTT(60)
  <1> QED
    BY <1>1, <1>2, <1>4, ZenonT(60)

\* The tail of the matches is counted from their number by the code, and from the
\* end by whoever asked for it.
LEMMA SelectionIsTail ==
    ASSUME NEW M, NEW L \in Nat, \A j \in M : j \in 1 .. L, NEW tail \in Int, NEW i \in M
    PROVE LET count == Cardinality(M)
              start == IF tail > 0 /\ count > tail THEN count - tail ELSE 0
          IN  Cardinality({j \in M : j < i}) >= start
                <=> (tail > 0 => Cardinality({j \in M : i <= j /\ j <= L}) <= tail)
  <1> DEFINE A == {j \in M : j < i}
             B == {j \in M : i <= j /\ j <= L}
  <1>0. \A j \in M : j \in Nat /\ j <= L
    OBVIOUS
  <1>1. IsFiniteSet(M)
    <2>1. M \subseteq 1 .. L
      BY Zenon
    <2>2. IsFiniteSet(1 .. L)
      BY FS_Interval
    <2> QED
      BY <2>1, <2>2, FS_Subset, Zenon
  <1>2. A \subseteq M /\ B \subseteq M /\ A \cup B = M /\ A \cap B = {}
    <2>1. \A j \in M : j \in A <=> j \notin B
      BY <1>0
    <2>2. A \subseteq M /\ B \subseteq M
      BY Zenon
    <2> HIDE DEF A, B
    <2> QED
      BY <2>1, <2>2, Zenon
  <1> HIDE DEF A, B
  <1>3. IsFiniteSet(A) /\ IsFiniteSet(B)
    BY <1>1, <1>2, FS_Subset, Zenon
  <1>4. Cardinality(A) \in Nat /\ Cardinality(B) \in Nat /\ Cardinality(M) \in Nat
    BY <1>1, <1>3, FS_CardinalityType, Zenon
  <1>5. Cardinality(M) = Cardinality(A) + Cardinality(B)
    <2>1. Cardinality(A \cup B) = Cardinality(A) + Cardinality(B) - Cardinality(A \cap B)
      BY <1>3, FS_Union, Zenon
    <2>2. Cardinality({}) = 0
      BY FS_EmptySet, Zenon
    <2>3. Cardinality(M) = Cardinality(A) + Cardinality(B) - 0
      BY <1>2, <2>1, <2>2, ZenonT(60)
    <2> QED
      BY <1>4, <2>3
  <1> QED
    BY <1>4, <1>5 DEF A, B

\* Where logs and logs -f have something on display, and where it is in the making.
Displayed == Following \/ at = "free"
Making == at \in {"seek", "render"}

\* The rows and the catalog tell of what has been read, and nothing is left from
\* an earlier command.
RowsInv ==
    /\ query.tail \in Int /\ first \in Nat
    /\ first <= Len(seen)
    /\ Making => first = Len(seen) /\ catalog = EmptyCatalog /\ rows = << >>
    /\ ~Displayed /\ ~Making => seen = << >> /\ first = 0 /\ catalog = EmptyCatalog /\ rows = << >>
    /\ Displayed => Told([cat |-> catalog, rows |-> rows], seen, Asked, Len(seen))

\* A line of the log is about a container or about none.
LEMMA LineIds == \A line \in LogLines : line.id \in Ids \cup {None}
  BY LoggerAssumption DEF LogLines, Stopped, Line

\* The positions asked for are positions of what was read.
LEMMA AskedInside ==
    ASSUME seen \in Seq(LogLines)
    PROVE \A i \in Asked : i \in Nat /\ i >= 1 /\ i <= Len(seen)
  BY DEF Asked, Matches

\* Nothing has been told when nothing was read.
LEMMA NothingTold ==
    ASSUME NEW lines, NEW S, \A i \in S : i \in Nat /\ i >= 1 PROVE Told(Nothing, lines, S, 0)
  <1>1. Rank(S, 0) = 0
    BY RankStep, Zenon
  <1>2. \A id, says : LastSaid(lines, 0, id, says) = None
    BY DEF LastSaid
  <1>3. Nothing.cat = EmptyCatalog /\ Nothing.rows = << >>
    BY Zenon DEF Nothing
  <1>4. /\ EmptyCatalog = [id \in Ids |-> EmptyCatalog[id]]
        /\ \A id \in Ids : /\ EmptyCatalog[id].name = None
                           /\ EmptyCatalog[id].pid = None
                           /\ EmptyCatalog[id].status = None
    BY Zenon DEF EmptyCatalog
  <1>5. Catalogued(EmptyCatalog, lines, 0)
    BY <1>2, <1>4, Zenon DEF Catalogued
  <1>6. << >> = [k \in 1 .. 0 |-> << >>[k]]
    OBVIOUS
  <1>7. \A m \in S : ~(m <= 0)
    OBVIOUS
  <1> QED
    BY <1>1, <1>3, <1>4, <1>5, <1>6, <1>7, ZenonT(60) DEF Told

\* What a command has on display.
Display == <<query, seen, first, catalog, rows>>

\* The steps that leave the display alone, and stay where there is one or where
\* there is none.
LEMMA DisplayKeeps ==
    ASSUME RowsInv, UNCHANGED Display,
           Displayed' <=> Displayed, Making' <=> Making
    PROVE RowsInv'
  <1>1. Asked' = Asked
    BY Zenon DEF Asked, Display
  <1>2. UNCHANGED <<query, seen, first, catalog, rows>>
    BY Zenon DEF Display
  <1>3. Told([cat |-> catalog, rows |-> rows], seen, Asked, Len(seen))
          => Told([cat |-> catalog', rows |-> rows'], seen', Asked', Len(seen'))
    BY <1>1, <1>2, Zenon
  <1> QED
    BY <1>2, <1>3, Zenon DEF RowsInv

\* The first pass shows the last tail matches.
LEMMA FirstPass ==
    ASSUME FollowInv, RowsInv, LogsRender PROVE RowsInv'
  <1>0. seen \in Seq(LogLines) /\ Len(seen) \in Nat /\ Making /\ first = Len(seen) /\ query.tail \in Int
    BY Zenon DEF FollowInv, RowsInv, LogsRender, Making
  <1> DEFINE S == logger_build_selection(seen, query.filter, query.tail)
             result == logger_render_records(Nothing, seen, S)
  <1>1. S = Asked
    <2> DEFINE M == Matches(seen, query.filter)
    <2>1. \A j \in M : j \in 1 .. Len(seen)
      BY Zenon DEF Matches
    <2> HIDE DEF M
    <2>2. \A i \in M : LET count == Cardinality(M)
                           start == IF query.tail > 0 /\ count > query.tail
                                    THEN count - query.tail ELSE 0
                       IN  Cardinality({j \in M : j < i}) >= start
                             <=> (query.tail > 0 =>
                                    Cardinality({j \in M : i <= j /\ j <= Len(seen)}) <= query.tail)
      BY <1>0, <2>1, SelectionIsTail, ZenonT(60)
    <2> QED
      BY <1>0, <2>2, Zenon DEF M, logger_build_selection, Asked
  <1>2. \A i \in Asked : i \in Nat /\ i >= 1
    BY <1>0, AskedInside, ZenonT(60)
  <1>3. \A i \in 1 .. Len(seen) : seen[i].id \in Ids \cup {None}
    BY <1>0, LineIds
  <1>4. Told(Nothing, seen, Asked, 0)
    BY <1>2, NothingTold, Zenon
  <1>5. Told(result, seen, Asked, Len(seen))
    <2>1. /\ 0 <= Len(seen) /\ Len(seen) = Len(seen) - 0 /\ 0 \in Nat
          /\ \A k \in 1 .. Len(seen) : seen[k] = seen[0 + k] /\ (k \in S <=> 0 + k \in Asked)
      BY <1>0, <1>1
    <2> HIDE DEF S
    <2> QED
      BY <1>0, <1>2, <1>3, <1>4, <2>1, RenderTells, ZenonT(60)
  <1>6. catalog' = result.cat /\ rows' = result.rows /\ UNCHANGED <<query, seen, first>>
    BY Zenon DEF LogsRender, Shows
  <1>7. Asked' = Asked
    BY <1>6, Zenon DEF Asked
  <1> HIDE DEF S, result
  <1>8. Told([cat |-> catalog', rows |-> rows'], seen, Asked, Len(seen))
    <2>1. [cat |-> catalog', rows |-> rows'].cat = result.cat
      BY <1>6, Zenon
    <2>2. [cat |-> catalog', rows |-> rows'].rows = result.rows
      BY <1>6, Zenon
    <2> QED
      BY <1>5, <2>1, <2>2, ZenonT(60) DEF Told
  <1>9. Displayed' /\ ~Making'
    BY Zenon DEF LogsRender, Displayed, Following, Making
  <1> QED
    BY <1>0, <1>6, <1>7, <1>8, <1>9, ZenonT(60) DEF RowsInv

\* A poll of logs -f shows the matches among the lines that are new, and knows
\* what the lines before them said.
LEMMA NextPass ==
    ASSUME FollowInv, RowsInv, FollowRead PROVE RowsInv'
  <1>0. /\ seen \in Seq(LogLines) /\ log \in Seq(LogLines) /\ Len(seen) \in Nat /\ Displayed
        /\ offset \in Nat /\ query.tail \in Int /\ first \in Nat /\ first <= Len(seen)
        /\ UNCHANGED <<query, first>>
    BY DEF FollowInv, RowsInv, FollowRead, Displayed, Following
  <1>1. Displayed' /\ ~Making' /\ ~Making
    BY Zenon DEF FollowRead, Displayed, Following, Making
  <1>2. CASE UNCHANGED <<seen, catalog, rows>>
    BY <1>0, <1>1, <1>2, DisplayKeeps, ZenonT(60) DEF Display
  <1>3. CASE ~UNCHANGED <<seen, catalog, rows>>
    <2> DEFINE lines == SubSeq(log, offset + 1, Len(log))
               new == Matches(lines, query.filter)
               old == [cat |-> catalog, rows |-> rows]
               result == logger_render_records(old, lines, new)
    <2>1. seen' = seen \o lines /\ catalog' = result.cat /\ rows' = result.rows
      BY <1>3, Zenon DEF FollowRead, Shows
    <2>2. lines \in Seq(LogLines)
      BY <1>0, Rest, Zenon
    <2>3. \A k \in 1 .. Len(lines) : k \in new <=> line_matches_container(lines[k], query.filter)
      BY Zenon DEF Matches
    <2> HIDE DEF lines, new
    <2>4. /\ seen' \in Seq(LogLines) /\ Len(seen') = Len(seen) + Len(lines) /\ Len(lines) \in Nat
          /\ \A i \in 1 .. Len(seen) : seen'[i] = seen[i]
          /\ \A k \in 1 .. Len(lines) : seen'[Len(seen) + k] = lines[k]
      BY <1>0, <2>1, <2>2, SMTT(60)
    <2>5. \A i \in 1 .. Len(seen) : i \in Asked <=> i \in Asked'
      <3> DEFINE P(i) == line_matches_container(seen[i], query.filter)
                 Q(i) == line_matches_container(seen'[i], query.filter)
      <3>1. \A i \in 1 .. Len(seen) : P(i) <=> Q(i)
        BY <2>4, Zenon
      <3> DEFINE A(i) == {j \in Matches(seen, query.filter) : i <= j /\ j <= first}
                 B(i) == {j \in Matches(seen', query.filter) : i <= j /\ j <= first}
      <3>2. \A i \in 1 .. Len(seen) :
              i \in Matches(seen, query.filter) <=> i \in Matches(seen', query.filter)
        BY <1>0, <2>4, <3>1 DEF Matches
      <3>3. ASSUME NEW i \in 1 .. Len(seen) PROVE A(i) = B(i)
        <4>1. \A j \in Matches(seen', query.filter) : i <= j /\ j <= first => j \in 1 .. Len(seen)
          BY <1>0, <2>4 DEF Matches
        <4>2. \A j \in Matches(seen, query.filter) : j \in 1 .. Len(seen)
          BY Zenon DEF Matches
        <4> QED
          BY <3>2, <4>1, <4>2, ZenonT(60)
      <3> HIDE DEF A, B
      <3>4. \A i : i \in Asked <=> /\ i \in Matches(seen, query.filter)
                                   /\ query.tail > 0 => Cardinality(A(i)) <= query.tail
        BY Zenon DEF Asked, A
      <3>5. \A i : i \in Asked' <=> /\ i \in Matches(seen', query.filter)
                                    /\ query.tail > 0 => Cardinality(B(i)) <= query.tail
        BY <1>0, Zenon DEF Asked, B
      <3> QED
        BY <3>2, <3>3, <3>4, <3>5, ZenonT(60)
    <2>6. \A k \in 1 .. Len(lines) : k \in new <=> Len(seen) + k \in Asked'
      <3> SUFFICES ASSUME NEW k \in 1 .. Len(lines) PROVE k \in new <=> Len(seen) + k \in Asked'
        BY ZenonT(60)
      <3> DEFINE i == Len(seen) + k
      <3>1. i \in 1 .. Len(seen') /\ first < i /\ seen'[i] = lines[k]
        BY <1>0, <2>4
      <3> HIDE DEF i
      <3>2. i \in Matches(seen', query.filter) <=> k \in new
        BY <2>3, <3>1, Zenon DEF Matches
      <3>3. {j \in Matches(seen', query.filter) : i <= j /\ j <= first} = {}
        <4>1. \A j \in Matches(seen', query.filter) : j \in Int
          BY DEF Matches
        <4>2. i \in Int /\ first \in Int
          BY <1>0, <3>1
        <4>3. \A j \in Matches(seen', query.filter) : ~(i <= j /\ j <= first)
          BY <3>1, <4>1, <4>2, SMTT(60)
        <4> QED
          BY <4>3, Zenon
      <3>4. query.tail > 0 => Cardinality({}) <= query.tail
        BY <1>0, FS_EmptySet
      <3>5. i \in Asked' <=> i \in Matches(seen', query.filter)
        BY <1>0, <3>3, <3>4, ZenonT(60) DEF Asked
      <3> QED
        BY <3>2, <3>5, Zenon DEF i
    <2>7. /\ \A i \in Asked : i \in Nat /\ i >= 1
          /\ \A i \in Asked' : i \in Nat /\ i >= 1
      BY <1>0, <2>4, SMTT(60) DEF Asked, Matches
    <2> DEFINE T == Asked'
               all == seen'
               b == Len(seen)
    <2>8. Told(old, all, T, b)
      <3>1. Told(old, seen, Asked, b)
        BY <1>0, Zenon DEF RowsInv
      <3>2. /\ b \in Nat /\ b <= Len(seen) /\ b <= Len(all) /\ Len(all) \in Nat
            /\ \A i \in 1 .. b : seen[i] = all[i] /\ (i \in Asked <=> i \in T)
        BY <1>0, <2>4, <2>5
      <3> HIDE DEF T, all, b, old
      <3>3. \A i \in T : i \in Nat /\ i >= 1
        BY <2>7, Zenon DEF T
      <3> QED
        BY <1>0, <2>7, <3>1, <3>2, <3>3, ToldPrefix, SMTT(60)
    <2>9. Told(result, all, T, Len(all))
      <3>1. \A i \in 1 .. Len(all) : all[i].id \in Ids \cup {None}
        BY <2>4, LineIds
      <3>2. /\ b \in Nat /\ b <= Len(all) /\ Len(all) \in Nat /\ Len(lines) = Len(all) - b
            /\ \A k \in 1 .. Len(lines) : lines[k] = all[b + k] /\ (k \in new <=> b + k \in T)
        BY <1>0, <2>4, <2>6
      <3>3. \A i \in T : i \in Nat /\ i >= 1
        BY <2>7
      <3> HIDE DEF T, all, b, old
      <3> QED
        BY <2>8, <3>1, <3>2, <3>3, RenderTells, ZenonT(60)
    <2> HIDE DEF result
    <2>10. Told([cat |-> catalog', rows |-> rows'], seen', Asked', Len(seen'))
      <3>1. [cat |-> catalog', rows |-> rows'].cat = result.cat
        BY <2>1, Zenon
      <3>2. [cat |-> catalog', rows |-> rows'].rows = result.rows
        BY <2>1, Zenon
      <3> QED
        BY <2>9, <3>1, <3>2, Zenon DEF Told
    <2> QED
      BY <1>0, <1>1, <2>4, <2>10, SMTT(60) DEF RowsInv
  <1> QED
    BY <1>2, <1>3, ZenonT(60)

\* Nothing is on display before the first command.
LEMMA RowsInit == ConsoleInit => RowsInv
  BY DEF ConsoleInit, LoggerInit, NoQuery, RowsInv, Displayed, Making, Following

\* A logs that gives up before it has printed anything ends with nothing read and
\* nothing on display.
LEMMA GivesUp ==
    ASSUME query.tail \in Int, catalog = EmptyCatalog, rows = << >>,
           UNCHANGED <<query, catalog, rows>>,
           at' = "free", seen' = << >>, first' = 0
    PROVE RowsInv'
  <1>1. Displayed' /\ ~Making'
    BY Zenon DEF Displayed, Making, Following
  <1>2. Asked' = {}
    BY DEF Asked, Matches
  <1>3. [cat |-> catalog', rows |-> rows'] = Nothing
    BY Zenon DEF Nothing
  <1>4. Told(Nothing, seen', {}, 0)
    BY NothingTold, Zenon
  <1>5. Len(seen') = 0
    OBVIOUS
  <1> QED
    BY <1>1, <1>2, <1>3, <1>4, <1>5, SMTT(60) DEF RowsInv

\* A command begins with nothing on display; when it cannot read the log it ends
\* that way.
LEMMA RowsRead ==
    ASSUME FollowInv, RowsInv, LogsRead PROVE RowsInv'
  <1>0. /\ ~Displayed /\ ~Making /\ seen = << >> /\ first = 0 /\ query.tail \in Int
        /\ catalog = EmptyCatalog /\ rows = << >> /\ Len(log) \in Nat
        /\ UNCHANGED <<query, catalog, rows>>
    BY DEF FollowInv, RowsInv, LogsRead, Displayed, Making, Following
  <1>1. CASE at' = "free" /\ UNCHANGED <<seen, first>>
    BY <1>0, <1>1, GivesUp, Zenon
  <1>2. CASE at' \in {"seek", "render"} /\ seen' = log /\ first' = Len(log)
    <2>1. ~Displayed' /\ Making'
      BY <1>2, Zenon DEF Displayed, Making, Following
    <2> QED
      BY <1>0, <1>2, <2>1 DEF RowsInv
  <1> QED
    BY <1>1, <1>2, ZenonT(60) DEF LogsRead

\* The same when the file cannot be positioned at its end.
LEMMA RowsSeek ==
    ASSUME RowsInv, FollowSeek PROVE RowsInv'
  <1>1. CASE at' = "render" /\ UNCHANGED <<seen, first>>
    <2>1. (Displayed' <=> Displayed) /\ (Making' <=> Making)
      BY <1>1, Zenon DEF FollowSeek, Displayed, Making, Following
    <2> QED
      BY <1>1, <2>1, DisplayKeeps, Zenon DEF FollowSeek, Display
  <1>2. CASE at' = "free" /\ seen' = << >> /\ first' = 0
    <2>1. query.tail \in Int /\ catalog = EmptyCatalog /\ rows = << >>
      BY DEF RowsInv, FollowSeek, Displayed, Making, Following
    <2> QED
      BY <1>2, <2>1, GivesUp, Zenon DEF FollowSeek
  <1> QED
    BY <1>1, <1>2, Zenon DEF FollowSeek

\* Every step of the console and of the rest of the world keeps what is known of
\* the display.
LEMMA RowsStep == FollowInv /\ RowsInv /\ [ConsoleNext]_cvars => RowsInv'
  <1> SUFFICES ASSUME FollowInv, RowsInv, [ConsoleNext]_cvars PROVE RowsInv'
    BY Zenon
  <1>0. UNCHANGED lvars \/ UNCHANGED view => UNCHANGED Display
    BY Zenon DEF lvars, view, Display
  <1> USE DEF Displayed, Making, Following
  <1>1. CASE UNCHANGED <<at, lvars>>
    BY <1>0, <1>1, DisplayKeeps, Zenon
  <1>2. CASE Prompt \/ EndOfFile \/ LoopTop \/ SleepEnds \/ WatchReturn
    BY <1>0, <1>2, DisplayKeeps, Zenon DEF Prompt, EndOfFile, LoopTop, SleepEnds, WatchReturn, Top
  <1>3. CASE WatchRefresh \/ WatchPoll \/ FollowPoll
    BY <1>0, <1>3, DisplayKeeps, ZenonT(60) DEF WatchRefresh, WatchPoll, FollowPoll
  <1>4. CASE FollowSeek \/ FollowStat
    BY <1>4, RowsSeek, DisplayKeeps, Zenon DEF FollowStat, Display
  <1>5. CASE LogsRead
    BY <1>5, RowsRead, Zenon
  <1>6. CASE LogsRender
    BY <1>6, FirstPass, ZenonT(60)
  <1>7. CASE FollowRead
    BY <1>7, NextPass, SMTT(60)
  <1>8. CASE LogsReturn
    BY <1>8, SMTT(60) DEF LogsReturn, NoQuery, RowsInv
  <1>9. CASE Type
    <2>1. CASE UNCHANGED lvars
      BY <1>0, <1>9, <2>1, DisplayKeeps, SMTT(60) DEF Type
    <2>2. CASE at' = "logs" /\ \E q \in Queries : query' = q
      <3>1. query'.tail \in Int
        BY <2>2, QueriesAssumption, ZenonT(60)
      <3>2. UNCHANGED <<seen, first, catalog, rows>> /\ at = "fgets"
        BY <1>9, <2>2, Zenon DEF Type, lvars
      <3> QED
        BY <2>2, <3>1, <3>2, ZenonT(60) DEF RowsInv
    <2> QED
      BY <1>9, <2>1, <2>2, ZenonT(60) DEF Type
  <1>10. CASE on_sigint
    BY <1>0, <1>10, DisplayKeeps, ZenonT(60) DEF on_sigint, Top
  <1>11. CASE CloseInput \/ (\E p \in Pids : Dies(p) \/ Appears(p)) \/ UNCHANGED cvars
    BY <1>1, <1>11, ZenonT(60) DEF CloseInput, Dies, Appears, cvars
  <1>12. CASE OtherAppends \/ Truncate
    BY <1>12, DisplayKeeps, ZenonT(60) DEF OtherAppends, Truncate, Display
  <1> HIDE DEF Displayed, Making, Following
  <1>13. CASE Steps
    BY <1>2, <1>3, <1>4, <1>5, <1>6, <1>7, <1>8, <1>13, ZenonT(60) DEF Steps
  <1>14. CASE World
    BY <1>11, <1>12, <1>14, Zenon DEF World
  <1> QED
    BY <1>9, <1>10, <1>11, <1>13, <1>14, ZenonT(60) DEF ConsoleNext

\* logs shows the lines asked for, each with the last name, pid and status that
\* the lines up to it give for its container: for every log, filter and tail, and
\* however logs -f came to read the lines.
THEOREM RowsSound == ConsoleSpec => []RowsTellTheLog
  <1>1. FollowInv /\ RowsInv => RowsTellTheLog
    <2> SUFFICES ASSUME FollowInv, RowsInv, Following \/ at = "free"
                 PROVE /\ Len(rows) = Cardinality(Asked)
                       /\ \A n \in Asked : Tells(rows[Rank(Asked, n)], seen, n)
      BY Zenon DEF RowsTellTheLog
    <2>1. seen \in Seq(LogLines) /\ Len(seen) \in Nat
      BY DEF FollowInv
    <2>2. \A i \in Asked : i \in Nat /\ i >= 1 /\ i <= Len(seen)
      BY <2>1, AskedInside, Zenon
    <2> DEFINE acc == [cat |-> catalog, rows |-> rows]
    <2>3. Told(acc, seen, Asked, Len(seen)) /\ acc.rows = rows
      BY Zenon DEF RowsInv, Displayed
    <2> HIDE DEF acc
    <2>4. {i \in Asked : i <= Len(seen)} = Asked
      BY <2>2, Zenon
    <2>5. Rank(Asked, Len(seen)) = Cardinality(Asked) /\ Rank(Asked, Len(seen)) \in Nat
      BY <2>1, <2>2, <2>4, RankStep, ZenonT(60) DEF Rank
    <2>6. rows = [k \in 1 .. Cardinality(Asked) |-> rows[k]]
      BY <2>3, <2>5, Zenon DEF Told
    <2>7. Len(rows) = Cardinality(Asked)
      BY <2>5, <2>6
    <2>8. \A n \in Asked : Tells(rows[Rank(Asked, n)], seen, n)
      BY <2>2, <2>3, Zenon DEF Told
    <2> QED
      BY <2>7, <2>8, Zenon
  <1> QED
    BY <1>1, FollowInit, FollowStep, RowsInit, RowsStep, PTL DEF ConsoleSpec
=============================================================================
