--------------------------- MODULE ManagerProofs ---------------------------
(***************************************************************************)
(* Proofs about Manager, for any set of pids and any number of containers: *)
(* its types and container ids, the stack of a child and the terminal.     *)
(***************************************************************************)
EXTENDS Manager, SequenceTheorems, TLAPS

----------------------------------------------------------------------------
(* What the operations on the list do to it *)

\* remove_container takes one record out and keeps the order of the others.
LEMMA RemoveProperties ==
    ASSUME NEW S, NEW s \in Seq(S), NEW i \in 1 .. Len(s)
    PROVE  /\ remove_container(s, i) \in Seq(S)
           /\ Len(remove_container(s, i)) = Len(s) - 1
           /\ \A j \in 1 .. Len(s) - 1 :
                remove_container(s, i)[j] = IF j < i THEN s[j] ELSE s[j + 1]
<1> DEFINE a == SubSeq(s, 1, i - 1)
           b == SubSeq(s, i + 1, Len(s))
<1>1. \A j \in 1 .. Len(s) : s[j] \in S
  OBVIOUS
<1>2. /\ a \in Seq(S)
      /\ Len(a) = i - 1
      /\ \A j \in 1 .. i - 1 : a[j] = s[j]
  BY <1>1, SubSeqProperties
<1>3. /\ b \in Seq(S)
      /\ Len(b) = Len(s) - i
      /\ \A j \in 1 .. Len(s) - i : b[j] = s[i + j]
  BY <1>1, SubSeqProperties
<1>4. remove_container(s, i) = a \o b
  BY DEF remove_container
<1> HIDE DEF a, b
<1>5. /\ a \o b \in Seq(S)
      /\ Len(a \o b) = Len(a) + Len(b)
      /\ \A j \in 1 .. Len(a) + Len(b) :
            (a \o b)[j] = IF j <= Len(a) THEN a[j] ELSE b[j - Len(a)]
  BY <1>2, <1>3, ConcatProperties, Zenon
<1> QED
  BY <1>2, <1>3, <1>4, <1>5, SMTT(60)

\* append_container adds one record at the tail.
LEMMA AppendFacts ==
    ASSUME NEW S, NEW s \in Seq(S), NEW e \in S
    PROVE  /\ Append(s, e) \in Seq(S)
           /\ Len(Append(s, e)) = Len(s) + 1
           /\ \A j \in 1 .. Len(s) : Append(s, e)[j] = s[j]
           /\ Append(s, e)[Len(s) + 1] = e
  BY AppendProperties

\* save_metadata writes one record per container, with its id, state and pid.
LEMMA SavedProperties ==
    ASSUME NEW l \in Seq(Container)
    PROVE  /\ Saved(l) \in Seq(Record)
           /\ Len(Saved(l)) = Len(l)
           /\ \A i \in 1 .. Len(l) : /\ Saved(l)[i].id = l[i].id
                                     /\ Saved(l)[i].state = l[i].state
                                     /\ Saved(l)[i].pid = l[i].pid
<1>1. \A i \in 1 .. Len(l) : l[i] \in Container
  OBVIOUS
<1>2. \A i \in 1 .. Len(l) :
        [id |-> l[i].id, state |-> l[i].state, pid |-> l[i].pid] \in Record
  BY <1>1 DEF Container, Record
<1> QED
  BY <1>2 DEF Saved

\* poll_states keeps every position; a record it changes becomes STOPPED, and
\* its process is one that waitpid returned or that does not exist.
LEMMA PollProperties ==
    ASSUME TypeOK, poll_states
    PROVE  /\ list' \in Seq(Container)
           /\ Len(list') = Len(list)
           /\ \A i \in 1 .. Len(list) :
                /\ list'[i].id = list[i].id
                /\ \/ list'[i] = list[i] /\ ~Reapable(list[i]) /\ ~Vanished(list[i])
                   \/ /\ list'[i].state = "STOPPED"
                      /\ list'[i].pid = NoPid
                      /\ ~list'[i].stack
                      /\ Reapable(list[i]) \/ Vanished(list[i])
           /\ st' \in [Pids -> {"free", "run", "dying", "zombie"}]
           /\ \A p \in Pids :
                \/ st'[p] = st[p] /\ \A i \in 1 .. Len(list) : Reapable(list[i]) => list[i].pid # p
                \/ /\ st[p] = "zombie" /\ parent[p] = "manager" /\ st'[p] = "free"
                   /\ p \notin targets'
           /\ targets' \subseteq targets
           /\ disk' = disk \/ disk' = Saved(list')
           /\ UNCHANGED <<parent, runs>>
<1> DEFINE reaped == {list[i].pid : i \in {j \in 1 .. Len(list) : Reapable(list[j])}}
<1>1. \A i \in 1 .. Len(list) : list[i] \in Container
  BY DEF TypeOK
<1>2. \A i \in 1 .. Len(list) : sync_container_state(list[i]) \in Container
  BY <1>1, ZenonT(30) DEF sync_container_state, Stopped, Container, States
<1>3. /\ list' = [i \in 1 .. Len(list) |-> sync_container_state(list[i])]
      /\ st' = [p \in Pids |-> IF p \in reaped THEN "free" ELSE st[p]]
      /\ targets' = targets \ reaped
      /\ disk' = disk \/ disk' = Saved(list')
      /\ UNCHANGED <<parent, runs>>
  BY DEF poll_states, SaveOk, SaveFails
<1>4. list' \in Seq(Container) /\ Len(list') = Len(list)
  BY <1>2, <1>3 DEF TypeOK
<1>5. \A i \in 1 .. Len(list) :
        /\ list'[i].id = list[i].id
        /\ \/ list'[i] = list[i] /\ ~Reapable(list[i]) /\ ~Vanished(list[i])
           \/ /\ list'[i].state = "STOPPED"
              /\ list'[i].pid = NoPid
              /\ ~list'[i].stack
              /\ Reapable(list[i]) \/ Vanished(list[i])
  BY <1>1, <1>3, Zenon DEF sync_container_state, Stopped, Container
<1>6. \A p \in Pids :
        \/ st'[p] = st[p] /\ \A i \in 1 .. Len(list) : Reapable(list[i]) => list[i].pid # p
        \/ /\ st[p] = "zombie" /\ parent[p] = "manager" /\ st'[p] = "free"
           /\ p \notin targets'
  BY <1>3, SMTT(60) DEF Reapable
<1> QED
  BY <1>3, <1>4, <1>5, <1>6 DEF TypeOK

\* container_manager_init keeps the id; the record stays RUNNING, with its pid,
\* if and only if that pid exists.
LEMMA ReconciledProperties ==
    ASSUME NEW r \in Record
    PROVE  /\ Reconciled(r) \in Container
           /\ Reconciled(r).id = r.id
           /\ Reconciled(r).stack = FALSE
           /\ Reconciled(r).state = "RUNNING" <=> r.state = "RUNNING" /\ is_pid_alive(r.pid)
           /\ Reconciled(r).state = "RUNNING" => Reconciled(r).pid = r.pid
<1>1. CASE r.state = "RUNNING" /\ ~is_pid_alive(r.pid)
  <2>1. Reconciled(r) = [id |-> r.id, state |-> "STOPPED", pid |-> NoPid, stack |-> FALSE]
    BY <1>1 DEF Reconciled
  <2> QED
    BY <1>1, <2>1 DEF Record, Container, States
<1>2. CASE ~(r.state = "RUNNING" /\ ~is_pid_alive(r.pid))
  <2>1. Reconciled(r) = [id |-> r.id, state |-> r.state, pid |-> r.pid, stack |-> FALSE]
    BY <1>2, Zenon DEF Reconciled
  <2> QED
    BY <1>2, <2>1 DEF Record, Container
<1> QED
  BY <1>1, <1>2, Zenon

----------------------------------------------------------------------------
(* Type correctness *)

\* Before the first manager starts, every variable has its type.
LEMMA TypeInit == Init => TypeOK
<1> SUFFICES ASSUME Init PROVE TypeOK
  OBVIOUS
<1>1. /\ list \in Seq(Container) /\ Len(list) = 0
      /\ disk \in Seq(Record)
  BY DEF Init
<1>2. thread_started \in BOOLEAN
  BY ZenonT(30) DEF Init
<1>3. next_sequence \in 1 .. MaxSeq + 1
  BY ConstantsAssumption DEF Init
<1> QED
  BY <1>1, <1>2, <1>3 DEF Init, TypeOK

\* Every step of the manager and of the kernel keeps the types.
LEMMA TypeStep == TypeOK /\ [Next]_vars => TypeOK'
<1> SUFFICES ASSUME TypeOK, [Next]_vars PROVE TypeOK'
  OBVIOUS
<1> USE ConstantsAssumption
<1>1. /\ list \in Seq(Container) /\ Len(list) \in Nat
      /\ \A i \in 1 .. Len(list) : list[i] \in Container
  BY DEF TypeOK
<1>2. \A l \in Seq(Container) : Saved(l) \in Seq(Record)
  BY SavedProperties
<1>3. ASSUME poll_states, UNCHANGED <<newpid, next_sequence, thread_started, tty, lost>>,
             pc' \in {"idle", "start", "stop", "delete", "cleanup"},
             mode' \in {"fg", "bg", "exit"}, cur' \in 0 .. Len(list) + 1,
             pc' \in {"start", "stop", "delete"} => cur' \in 1 .. Len(list),
             pc' = "cleanup" => cur' # 0
      PROVE  TypeOK'
  BY <1>2, <1>3, PollProperties DEF TypeOK
<1>4. ASSUME Restore PROVE TypeOK'
  <2>1. \A i \in 1 .. Len(disk) : Reconciled(disk[i]) \in Container
    <3>1. \A i \in 1 .. Len(disk) : disk[i] \in Record
      BY DEF TypeOK
    <3> QED
      BY <3>1, ReconciledProperties, Zenon
  <2>2. list' \in Seq(Container) /\ Len(list') = Len(disk)
    BY <1>4, <2>1 DEF Restore, TypeOK
  <2> QED
    BY <1>4, <2>2 DEF Restore, TypeOK, kern
<1>34. ASSUME RestoreNothing PROVE TypeOK'
  <2>1. << >> \in Seq(Container) /\ << >> \in Seq(Record) /\ Len(<< >>) = 0
    OBVIOUS
  <2> QED
    BY <1>34, <2>1 DEF RestoreNothing, TypeOK, kern
<1>5. ASSUME Poll PROVE TypeOK'
  BY <1>1, <1>3, <1>5 DEF Poll, TypeOK
<1>6. ASSUME CreateFails PROVE TypeOK'
  BY <1>6 DEF CreateFails, TypeOK, mgr, kern
<1>7. ASSUME NEW m \in {"none", "fg", "bg"}, Create(m) PROVE TypeOK'
  <2>1. Created \in Container
    BY <1>7, SMTT(60) DEF Create, Created, Container, States, Ids, TypeOK
  <2>2. list' \in Seq(Container) /\ Len(list') = Len(list) + 1
    BY <1>1, <1>7, <2>1, AppendFacts DEF Create
  <2>3. disk' \in Seq(Record)
    BY <1>2, <1>7, <2>2, ZenonT(30) DEF Create, SaveOk
  <2>4. CASE m = "none"
    BY <1>1, <1>7, <2>2, <2>3, <2>4, SMTT(30) DEF Create, TypeOK, mgr, kern
  <2>5. CASE m # "none"
    BY <1>1, <1>7, <2>2, <2>3, <2>5, SMTT(30) DEF Create, TypeOK, kern
  <2> QED
    BY <2>4, <2>5
<1>8. ASSUME NEW op \in {"start", "stop", "delete"}, NEW i \in 1 .. Len(list), Command(op, i)
      PROVE  TypeOK'
  BY <1>1, <1>3, <1>8 DEF Command, TypeOK
<1>9. ASSUME NEW on \in BOOLEAN, SchedRefresh(on) PROVE TypeOK'
  <2>1. RunningPids(list) \in SUBSET Pids
    BY <1>1 DEF RunningPids, IsRunning, Container
  <2> QED
    BY <1>9, <2>1 DEF SchedRefresh, TypeOK, mgr, kern
<1>10. ASSUME RunPoll PROVE TypeOK'
  BY <1>1, <1>3, <1>10 DEF RunPoll, TypeOK
<1>11. ASSUME StartRefused PROVE TypeOK'
  BY <1>11 DEF StartRefused, TypeOK, kern
<1>12. ASSUME NEW r \in Container, pc \in {"start", "spawned", "stop", "reap", "fgwait"},
              list' = [list EXCEPT ![cur] = r]
       PROVE  list' \in Seq(Container) /\ Len(list') = Len(list)
  BY <1>1, <1>12 DEF TypeOK
<1>13. ASSUME NEW p \in Pids, StartSpawn(p) PROVE TypeOK'
  <2>1. [list[cur] EXCEPT !.stack = TRUE] \in Container
    BY <1>1, <1>13, ZenonT(60) DEF StartSpawn, TypeOK, Container
  <2>2. list' \in Seq(Container) /\ Len(list') = Len(list)
    BY <1>12, <1>13, <2>1, Zenon DEF StartSpawn
  <2>3. list[cur].id \in Ids
    BY <1>1, <1>13 DEF StartSpawn, TypeOK, Container
  <2> QED
    BY <1>13, <2>2, <2>3 DEF StartSpawn, TypeOK
<1>14. ASSUME StartFails PROVE TypeOK'
  <2>1. [list[cur] EXCEPT !.stack = FALSE] \in Container
    BY <1>1, <1>14, ZenonT(60) DEF StartFails, TypeOK, Container
  <2>2. list' \in Seq(Container) /\ Len(list') = Len(list)
    BY <1>12, <1>14, <2>1, Zenon DEF StartFails
  <2> QED
    BY <1>14, <2>2 DEF StartFails, Reaped, TypeOK
<1>15. ASSUME pc = "spawned", newpid \in Pids, list' = Registered
       PROVE  list' \in Seq(Container) /\ Len(list') = Len(list)
  <2>1. [[list[cur] EXCEPT !.pid = newpid] EXCEPT !.state = "RUNNING"] \in Container
    BY <1>1, <1>15, ZenonT(60) DEF TypeOK, Container, States
  <2>2. list' = [list EXCEPT ![cur] = [[list[cur] EXCEPT !.pid = newpid] EXCEPT !.state = "RUNNING"]]
    BY <1>1, <1>15, Zenon DEF Registered, TypeOK
  <2> QED
    BY <1>12, <1>15, <2>1, <2>2, Zenon
<1>16. ASSUME StartCommits PROVE TypeOK'
  <2>1. newpid \in Pids
    BY <1>16 DEF StartCommits, TypeOK
  <2>2. list' \in Seq(Container) /\ Len(list') = Len(list)
    BY <1>15, <1>16, <2>1 DEF StartCommits
  <2>3. disk' \in Seq(Record)
    BY <1>2, <1>16, <2>2 DEF StartCommits, SaveOk
  <2> QED
    BY <1>16, <2>1, <2>2, <2>3 DEF StartCommits, TypeOK, kern
<1>17. \A p : Killed(p) \in [Pids -> {"free", "run", "dying", "zombie"}]
  BY Zenon DEF Killed, TypeOK
<1>18. ASSUME StartRollsBack PROVE TypeOK'
  <2>1. newpid \in Pids
    BY <1>18 DEF StartRollsBack, TypeOK
  <2>2. list' \in Seq(Container) /\ Len(list') = Len(list)
    BY <1>15, <1>18, <2>1 DEF StartRollsBack
  <2> QED
    BY <1>17, <1>18, <2>1, <2>2 DEF StartRollsBack, SaveFails, TypeOK
<1>19. ASSUME StopRefused PROVE TypeOK'
  BY <1>1, <1>19, SMTT(60) DEF StopRefused, StopReturns, TypeOK, kern
<1>20. ASSUME StopKill PROVE TypeOK'
  BY <1>17, <1>20 DEF StopKill, TypeOK
<1>21. ASSUME pc \in {"reap", "fgwait"}, list' = [list EXCEPT ![cur] = Stopped(@)]
       PROVE  list' \in Seq(Container) /\ Len(list') = Len(list)
  <2>1. Stopped(list[cur]) \in Container
    BY <1>1, <1>21, ZenonT(60) DEF TypeOK, Stopped, Container, States
  <2> QED
    BY <1>12, <1>21, <2>1, Zenon
<1>22. ASSUME NEW p, Waited(p) PROVE st' \in [Pids -> {"free", "run", "dying", "zombie"}]
  BY <1>22 DEF Waited, Reaped, TypeOK
<1>23. ASSUME StopReap PROVE TypeOK'
  <2>1. list' \in Seq(Container) /\ Len(list') = Len(list)
    BY <1>21, <1>23 DEF StopReap
  <2>2. disk' \in Seq(Record)
    BY <1>2, <1>23, <2>1, ZenonT(30) DEF StopReap, SaveOk, SaveFails, TypeOK
  <2>3. st' \in [Pids -> {"free", "run", "dying", "zombie"}]
    BY <1>22, <1>23 DEF StopReap
  <2> QED
    BY <1>23, <2>1, <2>2, <2>3 DEF StopReap, StopReturns, TypeOK
<1>24. ASSUME FgReap PROVE TypeOK'
  <2>1. list' \in Seq(Container) /\ Len(list') = Len(list)
    BY <1>21, <1>24 DEF FgReap
  <2>2. disk' \in Seq(Record)
    BY <1>2, <1>24, <2>1, ZenonT(30) DEF FgReap, SaveOk, SaveFails, TypeOK
  <2>3. st' \in [Pids -> {"free", "run", "dying", "zombie"}]
    BY <1>22, <1>24 DEF FgReap
  <2> QED
    BY <1>24, <2>1, <2>2, <2>3 DEF FgReap, TerminalBack, TypeOK
<1>25. ASSUME Delete PROVE TypeOK'
  <2>1. cur \in 1 .. Len(list) /\ list[cur] \in Container
    BY <1>1, <1>25 DEF Delete, TypeOK
  <2>2. remove_container(list, cur) \in Seq(Container) /\ Len(remove_container(list, cur)) = Len(list) - 1
    BY <1>1, <2>1, RemoveProperties
  <2>3. /\ Append(remove_container(list, cur), list[cur]) \in Seq(Container)
        /\ Len(Append(remove_container(list, cur), list[cur])) = Len(list)
    BY <1>1, <2>1, <2>2, AppendFacts
  <2>4. /\ list' \in Seq(Container)
        /\ Len(list') \in Nat /\ Len(list') >= Len(list) - 1
    <3>1. \/ list' = list
          \/ list' = remove_container(list, cur)
          \/ list' = Append(remove_container(list, cur), list[cur])
      BY <1>25 DEF Delete
    <3>2. CASE list' = list
      BY <1>1, <3>2
    <3>3. CASE list' = remove_container(list, cur)
      BY <1>1, <2>2, <3>3
    <3>4. CASE list' = Append(remove_container(list, cur), list[cur])
      BY <1>1, <2>3, <3>4
    <3> QED
      BY <3>1, <3>2, <3>3, <3>4
  <2>5. disk' \in Seq(Record)
    BY <1>2, <1>25, <2>4 DEF Delete, SaveOk, SaveFails, TypeOK
  <2> QED
    BY <1>1, <1>25, <2>1, <2>4, <2>5 DEF Delete, TypeOK, kern
<1>26. ASSUME SchedPrune PROVE TypeOK'
  BY <1>26 DEF SchedPrune, TypeOK, mgr, kern
<1>27. ASSUME CleanupBegin PROVE TypeOK'
  BY <1>1, <1>3, <1>27 DEF CleanupBegin, TypeOK
<1>28. ASSUME CleanupStep PROVE TypeOK'
  BY <1>1, <1>28 DEF CleanupStep, TypeOK, kern
<1>29. ASSUME Gone, disk' \in Seq(Record), lost' \in SUBSET Pids PROVE TypeOK'
  <2>1. list' \in Seq(Container) /\ Len(list') = 0
    BY <1>29 DEF Gone
  <2>2. parent' \in [Pids -> {"manager", "init", "foreign"}]
    BY <1>29 DEF Gone, TypeOK
  <2>3. thread_started' \in BOOLEAN
    BY <1>29, ZenonT(30) DEF Gone
  <2> QED
    BY <1>29, <2>1, <2>2, <2>3 DEF Gone, TypeOK
<1>30. ASSUME CleanupEnd PROVE TypeOK'
  <2>1. disk' \in Seq(Record)
    BY <1>1, <1>2, <1>30 DEF CleanupEnd, SaveOk, SaveFails, TypeOK
  <2> QED
    BY <1>29, <1>30, <2>1 DEF CleanupEnd, TypeOK
<1>31. ASSUME Crash PROVE TypeOK'
  BY <1>29, <1>31, SMTT(60) DEF Crash, SaveFails, TypeOK
<1>32. ASSUME NEW p \in Pids, Exit(p) \/ ReapedElsewhere(p) \/ ForeignSpawn(p) PROVE TypeOK'
  <2>1. CASE Exit(p)
    BY <2>1 DEF Exit, TypeOK, mgr
  <2>2. CASE ReapedElsewhere(p)
    BY <2>2 DEF ReapedElsewhere, TypeOK, mgr
  <2>3. CASE ForeignSpawn(p)
    BY <2>3 DEF ForeignSpawn, TypeOK, mgr
  <2> QED
    BY <1>32, <2>1, <2>2, <2>3
<1>33. CASE UNCHANGED vars
  BY <1>33 DEF vars, mgr, kern, TypeOK
<1> QED
  BY <1>4, <1>5, <1>6, <1>7, <1>8, <1>9, <1>10, <1>11, <1>13, <1>14, <1>16, <1>18,
     <1>19, <1>20, <1>23, <1>24, <1>25, <1>26, <1>27, <1>28, <1>30, <1>31, <1>32, <1>33,
     <1>34, SMTT(60)
     DEF Next, Typed, Proceed, Kernel

\* Every variable of the manager keeps its type, and the Container pointer of
\* the current command points into the list.
THEOREM TypeCorrect == Spec => []TypeOK
  BY TypeInit, TypeStep, PTL DEF Spec

----------------------------------------------------------------------------
(* Container ids *)

\* Every step keeps the ids unique: one case per operation on list or disk.
LEMMA IdsStep == TypeOK /\ UniqueIds /\ [Next]_vars => UniqueIds'
<1> SUFFICES ASSUME TypeOK, UniqueIds, [Next]_vars PROVE UniqueIds'
  OBVIOUS
<1> USE ConstantsAssumption
<1>1. /\ list \in Seq(Container) /\ Len(list) \in Nat
      /\ disk \in Seq(Record) /\ Len(disk) \in Nat
      /\ \A i \in 1 .. Len(list) : list[i] \in Container /\ list[i].id \in Nat
      /\ \A i \in 1 .. Len(disk) : disk[i] \in Record /\ disk[i].id \in Nat
      /\ next_sequence \in Nat
  <2>1. /\ list \in Seq(Container) /\ disk \in Seq(Record)
        /\ next_sequence \in 1 .. MaxSeq + 1
    BY DEF TypeOK
  <2>2. /\ \A i \in 1 .. Len(list) : list[i] \in Container
        /\ \A i \in 1 .. Len(disk) : disk[i] \in Record
    BY <2>1
  <2>3. /\ \A c \in Container : c.id \in Nat
        /\ \A r \in Record : r.id \in Nat
    BY DEF Container, Record, Ids
  <2> QED
    BY <2>1, <2>2, <2>3
<1>2. ASSUME pc # "down", UNCHANGED next_sequence, Len(list') = Len(list),
             list' \in Seq(Container),
             \A i \in 1 .. Len(list) : list'[i].id = list[i].id,
             disk' = disk \/ disk' = Saved(list')
      PROVE  UniqueIds'
  <2>1. /\ Distinct(list)'
        /\ \A i \in 1 .. Len(list') : list'[i].id < next_sequence'
    BY <1>2 DEF UniqueIds, Distinct
  <2>2. /\ Distinct(disk)'
        /\ \A i \in 1 .. Len(disk') : disk'[i].id < next_sequence'
    <3>1. CASE disk' = disk
      BY <1>2, <3>1 DEF UniqueIds, Distinct
    <3>2. CASE disk' = Saved(list')
      BY <1>2, <2>1, <3>2, SavedProperties DEF Distinct
    <3> QED
      BY <1>2, <3>1, <3>2
  <2> QED
    BY <2>1, <2>2 DEF UniqueIds
<1>3. ASSUME poll_states, pc # "down", UNCHANGED next_sequence PROVE UniqueIds'
  BY <1>2, <1>3, PollProperties
<1>4. ASSUME UNCHANGED <<list, disk, next_sequence>>, pc # "down" \/ pc' = "down"
      PROVE  UniqueIds'
  BY <1>4 DEF UniqueIds, Distinct
<1>5. ASSUME Restore PROVE UniqueIds'
  <2>1. \A i \in 1 .. Len(disk) : disk[i] \in Record
    BY <1>1
  <2>2. \A i \in 1 .. Len(disk) : Reconciled(disk[i]).id = disk[i].id
    BY <2>1, ReconciledProperties, ZenonT(30)
  <2>3. /\ disk' = disk /\ Len(list') = Len(disk)
        /\ \A i \in 1 .. Len(disk) : list'[i].id = disk[i].id
    BY <1>1, <1>5, <2>2 DEF Restore
  <2>4. \A i \in 1 .. Len(disk) : disk[i].id < next_sequence'
    BY <1>5 DEF Restore, update_next_sequence
  <2>5. Distinct(list)' /\ Distinct(disk)'
    BY <2>3 DEF UniqueIds, Distinct
  <2> QED
    BY <2>3, <2>4, <2>5 DEF UniqueIds
<1>24. ASSUME RestoreNothing PROVE UniqueIds'
  <2>1. Len(list') = 0 /\ Len(disk') = 0
    BY <1>24 DEF RestoreNothing
  <2> QED
    BY <2>1 DEF UniqueIds, Distinct
<1>6. ASSUME CreateFails PROVE UniqueIds'
  BY <1>1, <1>6 DEF CreateFails, UniqueIds, Distinct, mgr
<1>7. ASSUME NEW m \in {"none", "fg", "bg"}, Create(m) PROVE UniqueIds'
  <2>1. Created \in Container /\ Created.id = next_sequence
    BY <1>7 DEF Create, Created, Container, States, Ids, TypeOK
  <2>2. /\ list' \in Seq(Container) /\ Len(list') = Len(list) + 1
        /\ \A i \in 1 .. Len(list) : list'[i] = list[i]
        /\ list'[Len(list) + 1].id = next_sequence
    BY <1>1, <1>7, <2>1, AppendFacts DEF Create
  <2>3. next_sequence' = next_sequence + 1 /\ pc # "down"
    BY <1>7 DEF Create
  <2>4. Distinct(list) /\ \A i \in 1 .. Len(list) : list[i].id < next_sequence
    BY <2>3 DEF UniqueIds
  <2>5. \A i \in 1 .. Len(list') : list'[i].id < next_sequence'
    <3>1. Len(list) \in Nat /\ next_sequence \in Nat
      BY <1>1 DEF TypeOK
    <3>2. \A i \in 1 .. Len(list') : i \in 1 .. Len(list) \/ i = Len(list) + 1
      BY <2>2, <3>1
    <3>3. \A i \in 1 .. Len(list) : list[i].id \in Nat
      BY <1>1 DEF Container, Ids
    <3>4. \A i \in 1 .. Len(list) : list'[i].id < next_sequence + 1
      BY <2>2, <2>4, <3>1, <3>3
    <3> QED
      BY <2>2, <2>3, <3>1, <3>2, <3>4
  <2>6. Distinct(list')
    <3>1. \A i \in 1 .. Len(list') : i \in 1 .. Len(list) \/ i = Len(list) + 1
      BY <1>1, <2>2
    <3>2. \A i \in 1 .. Len(list) : list[i].id # next_sequence
      BY <1>1, <2>4
    <3> QED
      BY <2>2, <2>4, <3>1, <3>2 DEF Distinct
  <2>7. disk' = Saved(list')
    BY <1>7 DEF Create, SaveOk
  <2> QED
    BY <2>2, <2>5, <2>6, <2>7, SavedProperties, SMTT(60) DEF UniqueIds, Distinct
<1>8. ASSUME pc \in {"start", "spawned", "reap", "fgwait"}, UNCHANGED next_sequence,
             disk' = disk \/ disk' = Saved(list'),
             NEW r \in Container, r.id = list[cur].id, list' = [list EXCEPT ![cur] = r]
      PROVE  UniqueIds'
  <2>1. cur \in 1 .. Len(list)
    BY <1>8 DEF TypeOK
  <2>2. list' \in Seq(Container) /\ Len(list') = Len(list)
    BY <1>1, <1>8, <2>1
  <2>3. \A i \in 1 .. Len(list) : list'[i].id = list[i].id
    BY <1>1, <1>8, <2>1
  <2> QED
    BY <1>2, <1>8, <2>2, <2>3
<1>9. pc \in {"start", "spawned", "reap", "fgwait"} => list[cur] \in Container
  BY <1>1 DEF TypeOK
<1>10. ASSUME NEW p \in Pids, StartSpawn(p) PROVE UniqueIds'
  <2> DEFINE r == [list[cur] EXCEPT !.stack = TRUE]
  <2>1. r \in Container /\ r.id = list[cur].id
    BY <1>9, <1>10, Zenon DEF StartSpawn, Container
  <2>2. list' = [list EXCEPT ![cur] = r]
    BY <1>10 DEF StartSpawn
  <2> QED
    BY <1>8, <1>10, <2>1, <2>2, Zenon DEF StartSpawn
<1>11. ASSUME StartFails PROVE UniqueIds'
  <2> DEFINE r == [list[cur] EXCEPT !.stack = FALSE]
  <2>1. r \in Container /\ r.id = list[cur].id
    BY <1>9, <1>11, Zenon DEF StartFails, Container
  <2>2. list' = [list EXCEPT ![cur] = r]
    BY <1>11 DEF StartFails
  <2> QED
    BY <1>8, <1>11, <2>1, <2>2, Zenon DEF StartFails
<1>12. ASSUME StartCommits \/ StartRollsBack PROVE UniqueIds'
  <2> DEFINE r == [[list[cur] EXCEPT !.pid = newpid] EXCEPT !.state = "RUNNING"]
  <2>1. r \in Container /\ r.id = list[cur].id
    BY <1>9, <1>12, Zenon DEF StartCommits, StartRollsBack, Container, States, TypeOK
  <2>2. list' = [list EXCEPT ![cur] = r]
    BY <1>1, <1>12, ZenonT(60) DEF StartCommits, StartRollsBack, Registered, TypeOK
  <2> QED
    BY <1>8, <1>12, <2>1, <2>2, Zenon DEF StartCommits, StartRollsBack, SaveOk, SaveFails
<1>13. ASSUME StopReap \/ FgReap PROVE UniqueIds'
  <2>1. Stopped(list[cur]) \in Container /\ Stopped(list[cur]).id = list[cur].id
    BY <1>9, <1>13, Zenon DEF StopReap, FgReap, Stopped, Container, States
  <2>2. list' = [list EXCEPT ![cur] = Stopped(list[cur])]
    BY <1>13 DEF StopReap, FgReap
  <2> QED
    BY <1>8, <1>13, <2>1, <2>2, Zenon DEF StopReap, FgReap, SaveOk, SaveFails
<1>14. ASSUME Delete PROVE UniqueIds'
  <2> DEFINE rest == remove_container(list, cur)
             back == Append(rest, list[cur])
  <2>1. cur \in 1 .. Len(list) /\ list[cur] \in Container
    BY <1>1, <1>14 DEF Delete, TypeOK
  <2>2. /\ rest \in Seq(Container) /\ Len(rest) = Len(list) - 1
        /\ \A j \in 1 .. Len(list) - 1 : rest[j] = IF j < cur THEN list[j] ELSE list[j + 1]
    BY <1>1, <2>1, RemoveProperties
  <2>3. /\ back \in Seq(Container) /\ Len(back) = Len(list)
        /\ \A j \in 1 .. Len(list) - 1 : back[j] = rest[j]
        /\ back[Len(list)] = list[cur]
    BY <1>1, <2>1, <2>2, AppendFacts, SMTT(60)
  <2>4. /\ Distinct(list) /\ Distinct(disk)
        /\ \A i \in 1 .. Len(list) : list[i].id < next_sequence
        /\ \A i \in 1 .. Len(disk) : disk[i].id < next_sequence
    BY <1>14 DEF Delete, UniqueIds
  <2> HIDE DEF rest, back
  <2> DEFINE pos(j) == IF j < cur THEN j ELSE j + 1
  <2>5. \A j \in 1 .. Len(rest) : /\ pos(j) \in 1 .. Len(list)
                                  /\ pos(j) # cur
                                  /\ rest[j] = list[pos(j)]
    BY <1>1, <2>1, <2>2
  <2>6. \A i, j \in 1 .. Len(rest) : pos(i) = pos(j) => i = j
    BY <1>1, <2>1, <2>2
  <2> HIDE DEF pos
  <2>7. /\ Distinct(rest)
        /\ \A j \in 1 .. Len(rest) : rest[j].id # list[cur].id
        /\ \A j \in 1 .. Len(rest) : rest[j].id < next_sequence
    <3>1. Distinct(rest)
      BY <2>4, <2>5, <2>6, SMTT(60) DEF Distinct
    <3>2. \A j \in 1 .. Len(rest) : rest[j].id # list[cur].id
      BY <2>1, <2>4, <2>5 DEF Distinct
    <3>3. \A j \in 1 .. Len(rest) : rest[j].id < next_sequence
      BY <2>4, <2>5
    <3> QED
      BY <3>1, <3>2, <3>3
  <2>8. /\ Len(back) = Len(rest) + 1
        /\ \A j \in 1 .. Len(rest) : back[j] = rest[j]
        /\ back[Len(rest) + 1] = list[cur]
    <3>1. Len(rest) + 1 = Len(list)
      BY <1>1, <2>2
    <3> QED
      BY <2>2, <2>3, <3>1
  <2>9. Len(rest) \in Nat
    BY <1>1, <2>1, <2>2
  <2>10. \A j \in 1 .. Len(back) : j \in 1 .. Len(rest) \/ j = Len(rest) + 1
    BY <2>8, <2>9
  <2>11. \A j \in 1 .. Len(back) : back[j].id < next_sequence
    BY <2>1, <2>4, <2>7, <2>8, <2>10, SMTT(60)
  <2>12. Distinct(back)
    BY <2>7, <2>8, <2>10, SMTT(60) DEF Distinct
  <2>13. ASSUME NEW l \in Seq(Container), Distinct(l),
                \A j \in 1 .. Len(l) : l[j].id < next_sequence
         PROVE  /\ Distinct(Saved(l))
                /\ \A j \in 1 .. Len(Saved(l)) : Saved(l)[j].id < next_sequence
    BY <2>13, SavedProperties DEF Distinct
  <2>14. /\ next_sequence' = next_sequence
        /\ \/ list' = list /\ disk' = disk
           \/ list' = rest /\ disk' = Saved(rest)
           \/ list' = back /\ disk' = disk
    BY <1>14 DEF Delete, SaveOk, SaveFails, rest, back
  <2> QED
    BY <2>2, <2>4, <2>7, <2>11, <2>12, <2>13, <2>14, SMTT(60) DEF UniqueIds
<1>15. ASSUME Gone, disk' = disk \/ disk' = Saved(list), pc # "down" PROVE UniqueIds'
  <2>1. list' = << >> /\ pc' = "down"
    BY <1>15 DEF Gone
  <2>2. Distinct(list)'
    BY <2>1, SMTT(60) DEF Distinct
  <2>3. Distinct(disk)'
    BY <1>1, <1>15, SavedProperties DEF UniqueIds, Distinct
  <2> QED
    BY <2>1, <2>2, <2>3 DEF UniqueIds
<1>16. ASSUME CleanupEnd \/ Crash PROVE UniqueIds'
  BY <1>15, <1>16 DEF CleanupEnd, Crash, SaveOk, SaveFails
<1>17. ASSUME Poll \/ RunPoll \/ CleanupBegin PROVE UniqueIds'
  BY <1>3, <1>17 DEF Poll, RunPoll, CleanupBegin
<1>18. ASSUME NEW op, NEW i, Command(op, i) PROVE UniqueIds'
  BY <1>3, <1>18, SMTT(60) DEF Command
<1>19. ASSUME StartRefused \/ StopRefused \/ StopKill \/ CleanupStep PROVE UniqueIds'
  BY <1>4, <1>19 DEF StartRefused, StopRefused, StopKill, CleanupStep
<1>20. ASSUME NEW on, SchedRefresh(on) PROVE UniqueIds'
  BY <1>4, <1>20 DEF SchedRefresh
<1>21. ASSUME SchedPrune PROVE UniqueIds'
  BY <1>4, <1>21 DEF SchedPrune, mgr
<1>22. ASSUME NEW p \in Pids, Exit(p) \/ ReapedElsewhere(p) \/ ForeignSpawn(p) PROVE UniqueIds'
  BY <1>4, <1>22 DEF Exit, ReapedElsewhere, ForeignSpawn, mgr
<1>23. CASE UNCHANGED vars
  BY <1>4, <1>23 DEF vars, mgr
<1> QED
  BY <1>5, <1>6, <1>7, <1>10, <1>11, <1>12, <1>13, <1>14, <1>16, <1>17, <1>18, <1>19,
     <1>20, <1>21, <1>22, <1>23, <1>24, SMTT(60) DEF Next, Typed, Proceed, Kernel

\* Container ids stay unique in memory and on disk, and the next one is new,
\* through failed creates, failed saves, failed deletions, crashes and restarts.
THEOREM IdsUnique == Spec => []UniqueIds
<1>1. Init => UniqueIds
  BY DEF Init, UniqueIds, Distinct
<1> QED
  BY <1>1, IdsStep, TypeCorrect, PTL DEF Spec

----------------------------------------------------------------------------
(* The record in hand *)

\* The types of the list and of its records, as the steps below need them.
LEMMA ListFacts ==
    ASSUME TypeOK
    PROVE  /\ list \in Seq(Container) /\ Len(list) \in Nat
           /\ \A i \in 1 .. Len(list) : list[i] \in Container
           /\ pc \in {"run", "start", "spawned", "fgwait", "stop", "reap", "delete"}
                => cur \in 1 .. Len(list) /\ list[cur] \in Container
  BY DEF TypeOK

\* A record marked STOPPED is not one of a running child.
LEMMA OwnFacts ==
    /\ \A r \in Container : r.state # "RUNNING" => ~Own(r)
    /\ \A r \in Container : r.state = "RUNNING" /\ r.stack <=> Own(r)
  BY Zenon DEF Own

\* What each operation on the record in hand leaves of it.
LEMMA RecordUpdates ==
    ASSUME TypeOK, TypeOK', cur \in 1 .. Len(list)
    PROVE  /\ list' = [list EXCEPT ![cur].stack = TRUE] =>
                /\ Len(list') = Len(list)
                /\ \A i \in 1 .. Len(list) : i # cur => list'[i] = list[i]
                /\ list'[cur].state = list[cur].state /\ list'[cur].pid = list[cur].pid
                /\ list'[cur].id = list[cur].id /\ list'[cur].stack
           /\ list' = [list EXCEPT ![cur].stack = FALSE] =>
                /\ Len(list') = Len(list)
                /\ \A i \in 1 .. Len(list) : i # cur => list'[i] = list[i]
                /\ list'[cur].state = list[cur].state /\ list'[cur].pid = list[cur].pid
                /\ list'[cur].id = list[cur].id
           /\ list' = Registered =>
                /\ Len(list') = Len(list)
                /\ \A i \in 1 .. Len(list) : i # cur => list'[i] = list[i]
                /\ list'[cur].state = "RUNNING" /\ list'[cur].pid = newpid
                /\ list'[cur].id = list[cur].id
                /\ list[cur].stack => Own(list'[cur])
           /\ list' = [list EXCEPT ![cur] = Stopped(@)] =>
                /\ Len(list') = Len(list)
                /\ \A i \in 1 .. Len(list) : i # cur => list'[i] = list[i]
                /\ list'[cur].state = "STOPPED"
<1>1. /\ list \in Seq(Container) /\ Len(list) \in Nat
      /\ \A i \in 1 .. Len(list) : list[i] \in Container
  BY ListFacts
<1>2. /\ list = [i \in 1 .. Len(list) |-> list[i]]
      /\ DOMAIN list = 1 .. Len(list)
  BY <1>1
<1>3. ASSUME NEW r, list' = [list EXCEPT ![cur] = r]
      PROVE  /\ Len(list') = Len(list)
             /\ \A i \in 1 .. Len(list) : i # cur => list'[i] = list[i]
             /\ list'[cur] = r
  BY <1>1, <1>3
<1>4. ASSUME list' = [list EXCEPT ![cur].stack = TRUE]
      PROVE  /\ list'[cur] = [list[cur] EXCEPT !.stack = TRUE]
             /\ list' = [list EXCEPT ![cur] = [list[cur] EXCEPT !.stack = TRUE]]
  BY <1>2, <1>4, Zenon
<1>5. ASSUME list' = [list EXCEPT ![cur].stack = FALSE]
      PROVE  /\ list'[cur] = [list[cur] EXCEPT !.stack = FALSE]
             /\ list' = [list EXCEPT ![cur] = [list[cur] EXCEPT !.stack = FALSE]]
  BY <1>2, <1>5, Zenon
<1>6. ASSUME list' = Registered
      PROVE  list' = [list EXCEPT ![cur] = [[list[cur] EXCEPT !.pid = newpid] EXCEPT !.state = "RUNNING"]]
  BY <1>2, <1>6, Zenon DEF Registered
<1>7. ASSUME list' = Registered
      PROVE  /\ list'[cur].state = "RUNNING" /\ list'[cur].pid = newpid
             /\ list'[cur].id = list[cur].id /\ (list[cur].stack => Own(list'[cur]))
  <2>1. list'[cur] = [[list[cur] EXCEPT !.pid = newpid] EXCEPT !.state = "RUNNING"]
    BY <1>3, <1>6, <1>7
  <2>2. list[cur] \in Container
    BY <1>1
  <2> QED
    BY <2>1, <2>2, Zenon DEF Container, Own
<1>8. \A r \in Container :
        /\ [r EXCEPT !.stack = TRUE].state = r.state /\ [r EXCEPT !.stack = TRUE].pid = r.pid
        /\ [r EXCEPT !.stack = TRUE].id = r.id /\ [r EXCEPT !.stack = TRUE].stack
        /\ [r EXCEPT !.stack = FALSE].state = r.state /\ [r EXCEPT !.stack = FALSE].pid = r.pid
        /\ [r EXCEPT !.stack = FALSE].id = r.id
  BY Zenon DEF Container
<1>9. list[cur] \in Container
  BY <1>1
<1>10. ASSUME list' = [list EXCEPT ![cur].stack = TRUE]
       PROVE  /\ Len(list') = Len(list)
              /\ \A i \in 1 .. Len(list) : i # cur => list'[i] = list[i]
              /\ list'[cur].state = list[cur].state /\ list'[cur].pid = list[cur].pid
              /\ list'[cur].id = list[cur].id /\ list'[cur].stack
  BY <1>3, <1>4, <1>8, <1>9, <1>10, ZenonT(60)
<1>11. ASSUME list' = [list EXCEPT ![cur].stack = FALSE]
       PROVE  /\ Len(list') = Len(list)
              /\ \A i \in 1 .. Len(list) : i # cur => list'[i] = list[i]
              /\ list'[cur].state = list[cur].state /\ list'[cur].pid = list[cur].pid
              /\ list'[cur].id = list[cur].id
  BY <1>3, <1>5, <1>8, <1>9, <1>11, ZenonT(60)
<1>12. ASSUME list' = Registered
       PROVE  /\ Len(list') = Len(list)
              /\ \A i \in 1 .. Len(list) : i # cur => list'[i] = list[i]
  BY <1>3, <1>6, <1>12, ZenonT(30)
<1>13. ASSUME list' = [list EXCEPT ![cur] = Stopped(@)]
       PROVE  /\ Len(list') = Len(list)
              /\ \A i \in 1 .. Len(list) : i # cur => list'[i] = list[i]
              /\ list'[cur].state = "STOPPED"
  <2>1. list' = [list EXCEPT ![cur] = Stopped(list[cur])]
    BY <1>13
  <2>2. Stopped(list[cur]).state = "STOPPED"
    BY <1>9, Zenon DEF Container, Stopped
  <2> QED
    BY <1>3, <2>1, <2>2, Zenon
<1> QED
  BY <1>7, <1>10, <1>11, <1>12, <1>13, ZenonT(60)

\* container_delete keeps every other record, and a RUNNING one in any case.
LEMMA DeleteKeeps ==
    ASSUME TypeOK, TypeOK', Delete
    PROVE  /\ \A i \in 1 .. Len(list') : \E j \in 1 .. Len(list) : list'[i] = list[j]
           /\ \A j \in 1 .. Len(list) :
                list[j].state = "RUNNING" => \E i \in 1 .. Len(list') : list'[i] = list[j]
<1> DEFINE rest == remove_container(list, cur)
           back == Append(rest, list[cur])
<1>1. /\ list \in Seq(Container) /\ Len(list) \in Nat
      /\ cur \in 1 .. Len(list) /\ list[cur] \in Container
  BY ListFacts DEF Delete
<1>2. \/ list' = list
      \/ list[cur].state # "RUNNING" /\ list' = rest
      \/ list[cur].state # "RUNNING" /\ list' = back
  BY DEF Delete
<1>3. /\ rest \in Seq(Container) /\ Len(rest) = Len(list) - 1
      /\ \A j \in 1 .. Len(list) - 1 : rest[j] = IF j < cur THEN list[j] ELSE list[j + 1]
  BY <1>1, RemoveProperties
<1>4. /\ Len(back) = Len(rest) + 1
      /\ \A j \in 1 .. Len(rest) : back[j] = rest[j]
      /\ back[Len(rest) + 1] = list[cur]
  BY <1>1, <1>3, AppendFacts
<1> HIDE DEF rest, back
<1>5. \A i \in 1 .. Len(list) : i # cur => \E j \in 1 .. Len(rest) : rest[j] = list[i]
  <2> SUFFICES ASSUME NEW i \in 1 .. Len(list), i # cur
               PROVE  \E j \in 1 .. Len(rest) : rest[j] = list[i]
    OBVIOUS
  <2>1. CASE i < cur
    BY <1>1, <1>3, <2>1
  <2>2. CASE i > cur
    <3>1. i - 1 \in 1 .. Len(rest) /\ ~(i - 1 < cur) /\ (i - 1) + 1 = i
      BY <1>1, <1>3, <2>2
    <3> QED
      BY <1>1, <1>3, <3>1, ZenonT(60)
  <2> QED
    BY <1>1, <2>1, <2>2
<1>6. \A i \in 1 .. Len(rest) : \E j \in 1 .. Len(list) : rest[i] = list[j]
  <2> SUFFICES ASSUME NEW i \in 1 .. Len(rest) PROVE \E j \in 1 .. Len(list) : rest[i] = list[j]
    OBVIOUS
  <2>1. i \in 1 .. Len(list) /\ i + 1 \in 1 .. Len(list)
    BY <1>1, <1>3
  <2> QED
    BY <1>1, <1>3, <2>1
<1>7. CASE list' = list
  BY <1>7
<1>8. CASE list[cur].state # "RUNNING" /\ list' = rest
  BY <1>5, <1>6, <1>8
<1>9. CASE list[cur].state # "RUNNING" /\ list' = back
  <2>1. \A i \in 1 .. Len(rest) : i \in 1 .. Len(back)
    BY <1>1, <1>3, <1>4
  <2>2. \A i \in 1 .. Len(back) : i \in 1 .. Len(rest) \/ i = Len(rest) + 1
    BY <1>1, <1>3, <1>4
  <2>3. \A i \in 1 .. Len(back) : \E j \in 1 .. Len(list) : back[i] = list[j]
    BY <1>1, <1>4, <1>6, <2>2
  <2>4. \A i \in 1 .. Len(list) : i # cur => \E j \in 1 .. Len(back) : back[j] = list[i]
    BY <1>4, <1>5, <2>1
  <2> QED
    BY <1>9, <2>3, <2>4
<1> QED
  BY <1>2, <1>7, <1>8, <1>9, SMTT(60)

----------------------------------------------------------------------------
(* The stack of a child, and the terminal *)

\* A record holds a stack only while it is RUNNING.
StackSound(r) == r.stack => r.state = "RUNNING"

\* Which records are sound, and that StackHeld asks it of all but the one being
\* started.
LEMMA StackFacts ==
    /\ StackHeld <=> \A i \in 1 .. Len(list) :
                       StackSound(list[i]) \/ (pc = "spawned" /\ cur = i)
    /\ \A r \in Container : r.state = "RUNNING" => StackSound(r)
    /\ \A r \in Container : StackSound(Stopped(r)) /\ StackSound([r EXCEPT !.stack = FALSE])
    /\ \A r \in Record : StackSound(Reconciled(r))
    /\ StackSound(Created)
<1>1. StackHeld <=> \A i \in 1 .. Len(list) :
                      StackSound(list[i]) \/ (pc = "spawned" /\ cur = i)
  BY Zenon DEF StackHeld, StackSound
<1>2. \A r \in Container : StackSound(Stopped(r)) /\ StackSound([r EXCEPT !.stack = FALSE])
  BY Zenon DEF StackSound, Stopped, Container
<1>3. \A r \in Record : StackSound(Reconciled(r))
  BY Zenon DEF StackSound, Reconciled
<1>4. StackSound(Created)
  BY Zenon DEF StackSound, Created
<1>5. \A r \in Container : r.state = "RUNNING" => StackSound(r)
  BY ZenonT(60) DEF StackSound
<1> QED
  BY <1>1, <1>2, <1>3, <1>4, <1>5, Zenon

\* Every step allocates and frees the stack together with the change of state.
LEMMA StackStep == TypeOK /\ TypeOK' /\ StackHeld /\ [Next]_vars => StackHeld'
<1> SUFFICES ASSUME TypeOK, TypeOK', StackHeld, [Next]_vars PROVE StackHeld'
  BY SMTT(60)
<1>1. /\ list \in Seq(Container) /\ Len(list) \in Nat
      /\ \A i \in 1 .. Len(list) : list[i] \in Container
      /\ pc \in {"run", "start", "spawned", "fgwait", "stop", "reap", "delete"}
           => cur \in 1 .. Len(list) /\ list[cur] \in Container
      /\ \A i \in 1 .. Len(list') : list'[i] \in Container
  BY ListFacts, SMTT(60) DEF TypeOK
<1>2. \A i \in 1 .. Len(list) : StackSound(list[i]) \/ (pc = "spawned" /\ cur = i)
  BY StackFacts, Zenon
<1>3. SUFFICES \A i \in 1 .. Len(list') : StackSound(list'[i]) \/ (pc' = "spawned" /\ cur' = i)
  BY StackFacts, Zenon DEF StackHeld, StackSound
<1>4. ASSUME UNCHANGED <<list, pc, cur>> \/ (list' = list /\ pc # "spawned")
      PROVE  \A i \in 1 .. Len(list') : StackSound(list'[i]) \/ (pc' = "spawned" /\ cur' = i)
  BY <1>2, <1>4
<1>5. ASSUME poll_states, pc # "spawned"
      PROVE  \A i \in 1 .. Len(list') : StackSound(list'[i])
  <2>1. /\ Len(list') = Len(list)
        /\ \A i \in 1 .. Len(list) : list'[i] = sync_container_state(list[i])
    BY <1>1, <1>5, SMTT(60) DEF poll_states
  <2>2. \A i \in 1 .. Len(list) : list'[i] = list[i] \/ list'[i] = Stopped(list[i])
    BY <2>1, ZenonT(60) DEF sync_container_state
  <2> QED
    BY <1>1, <1>2, <1>5, <2>1, <2>2, StackFacts, Zenon
<1>6. ASSUME NEW r, list' = [list EXCEPT ![cur] = r], cur \in 1 .. Len(list), StackSound(r)
      PROVE  \A i \in 1 .. Len(list') : StackSound(list'[i])
  BY <1>1, <1>2, <1>6
<1>7. CASE Restore
  <2>1. /\ Len(list') = Len(disk)
        /\ \A i \in 1 .. Len(disk) : list'[i] = Reconciled(disk[i]) /\ disk[i] \in Record
    BY <1>7, SMTT(60) DEF Restore, TypeOK
  <2> QED
    BY <2>1, StackFacts, ZenonT(60)
<1>8. CASE Poll \/ RunPoll \/ CleanupBegin \/ (\E op, i : Command(op, i))
  BY <1>5, <1>8, SMTT(60) DEF Poll, RunPoll, CleanupBegin, Command
<1>9. CASE \E m \in {"none", "fg", "bg"} : Create(m)
  <2>1. pc # "spawned" /\ list' = Append(list, Created) /\ next_sequence <= MaxSeq
    BY <1>9, SMTT(60) DEF Create
  <2>2. Created \in Container
    BY <2>1, ConstantsAssumption, SMTT(60) DEF Created, Container, States, Ids, TypeOK
  <2>3. /\ Len(list') = Len(list) + 1
        /\ \A i \in 1 .. Len(list) : list'[i] = list[i]
        /\ list'[Len(list) + 1] = Created
    BY <1>1, <2>1, <2>2, AppendFacts, SMTT(60)
  <2>4. \A i \in 1 .. Len(list') : i \in 1 .. Len(list) \/ i = Len(list) + 1
    BY <1>1, <2>3
  <2>5. StackSound(Created)
    BY StackFacts, Zenon
  <2> QED
    BY <1>2, <2>1, <2>3, <2>4, <2>5, SMTT(60)
<1>10. CASE \E p \in Pids : StartSpawn(p)
  <2>1. /\ pc # "spawned" /\ pc' = "spawned" /\ cur' = cur /\ cur \in 1 .. Len(list)
        /\ list' = [list EXCEPT ![cur].stack = TRUE]
    BY <1>1, <1>10 DEF StartSpawn
  <2>2. Len(list') = Len(list) /\ \A i \in 1 .. Len(list) : i # cur => list'[i] = list[i]
    BY <2>1, RecordUpdates, Zenon
  <2> QED
    BY <1>2, <2>1, <2>2
<1>11. CASE StartFails
  <2>1. /\ pc = "spawned" /\ cur \in 1 .. Len(list) /\ list[cur] \in Container
    BY <1>1, <1>11 DEF StartFails
  <2>2. list' = [list EXCEPT ![cur] = [list[cur] EXCEPT !.stack = FALSE]]
    BY <1>11 DEF StartFails
  <2>3. StackSound([list[cur] EXCEPT !.stack = FALSE])
    BY <2>1, StackFacts, ZenonT(60)
  <2> QED
    BY <1>6, <2>1, <2>2, <2>3, Zenon
<1>12. CASE StartCommits \/ StartRollsBack
  <2>1. pc = "spawned" /\ cur \in 1 .. Len(list) /\ list' = Registered
    BY <1>1, <1>12 DEF StartCommits, StartRollsBack
  <2>2. /\ Len(list') = Len(list) /\ \A i \in 1 .. Len(list) : i # cur => list'[i] = list[i]
        /\ list'[cur].state = "RUNNING"
    BY <2>1, RecordUpdates, Zenon
  <2>3. StackSound(list'[cur])
    BY <1>1, <2>1, <2>2, StackFacts
  <2> QED
    BY <1>2, <2>1, <2>2, <2>3, SMTT(60)
<1>13. CASE StopReap \/ FgReap
  <2>1. /\ pc # "spawned" /\ cur \in 1 .. Len(list) /\ list[cur] \in Container
        /\ list' = [list EXCEPT ![cur] = Stopped(list[cur])]
    BY <1>1, <1>13 DEF StopReap, FgReap
  <2>2. StackSound(Stopped(list[cur]))
    BY <2>1, StackFacts, ZenonT(60)
  <2> QED
    BY <1>6, <2>1, <2>2, ZenonT(60)
<1>14. CASE Delete
  BY <1>2, <1>14, DeleteKeeps, SMTT(60) DEF Delete
<1>15. CASE CleanupEnd \/ Crash \/ RestoreNothing
  BY <1>15, SMTT(60) DEF CleanupEnd, Crash, Gone, RestoreNothing
<1>16. CASE CreateFails \/ StartRefused \/ StopRefused \/ StopKill \/ SchedPrune \/ CleanupStep
            \/ (\E on : SchedRefresh(on))
  BY <1>4, <1>16, ZenonT(60) DEF CreateFails, StartRefused, StopRefused, StopKill, SchedPrune, CleanupStep,
                     SchedRefresh, mgr
<1>17. CASE Kernel \/ UNCHANGED vars
  BY <1>4, <1>17, SMTT(60) DEF Kernel, Exit, ReapedElsewhere, ForeignSpawn, vars, mgr
<1> QED
  BY <1>7, <1>8, <1>9, <1>10, <1>11, <1>12, <1>13, <1>14, <1>15, <1>16, <1>17, SMTT(60)
     DEF Next, Typed, Proceed

\* The stack given to clone() is held by the record being started and by RUNNING
\* ones only: no failed start, rollback, poll, wait or deletion keeps it.
THEOREM StackReleased == Spec => []StackHeld
<1>1. Init => StackHeld
  BY DEF Init, StackHeld
<1> QED
  BY <1>1, StackStep, TypeCorrect, PTL DEF Spec

\* The terminal belongs to a container only while the manager waits for that very
\* container in the foreground, whether or not tcsetpgrp succeeded.
THEOREM TerminalReturns == Spec => []TtyReturned
<1>1. Init => TtyReturned
  BY DEF Init, TtyReturned
<1>2. TypeOK /\ TypeOK' /\ TtyReturned /\ [Next]_vars => TtyReturned'
  <2> SUFFICES ASSUME TypeOK, TypeOK', TtyReturned, [Next]_vars PROVE TtyReturned'
    OBVIOUS
  <2>1. \/ tty' = Shell
        \/ UNCHANGED <<tty, pc, cur, list>>
        \/ tty' = tty /\ pc # "fgwait"
        \/ StartCommits
    BY SMTT(60)
       DEF Next, Typed, Proceed, Kernel, Restore, RestoreNothing, Poll, CreateFails, Create, Command,
           RunPoll, StartRefused, StartSpawn, StartFails, StartRollsBack, StopRefused, StopKill, StopReap,
           FgReap, TerminalBack, Delete, SchedRefresh, SchedPrune, CleanupBegin, CleanupStep,
           CleanupEnd, Crash, Gone, Exit, ReapedElsewhere, ForeignSpawn, vars, mgr
  <2>2. CASE StartCommits
    <3>1. /\ pc = "spawned" /\ cur \in 1 .. Len(list) /\ cur' = cur /\ list' = Registered
          /\ tty' = tty \/ (tty' = newpid /\ pc' = "fgwait")
      BY <2>2, ListFacts DEF StartCommits
    <3>2. list'[cur].pid = newpid
      BY <3>1, RecordUpdates, Zenon
    <3> QED
      BY <3>1, <3>2, SMTT(60) DEF TtyReturned
  <2> QED
    BY <2>1, <2>2, SMTT(60) DEF TtyReturned
<1> QED
  BY <1>1, <1>2, TypeCorrect, PTL DEF Spec
=============================================================================
