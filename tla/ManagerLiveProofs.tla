------------------------- MODULE ManagerLiveProofs -------------------------
(***************************************************************************)
(* The manager and its child processes.  First, no living container is     *)
(* ever lost (LiveInv), whatever the kernel does with pids.  Then what     *)
(* holds as long as no pid comes back while a record names it (OwnInv):    *)
(* the manager's children and its records agree.                           *)
(***************************************************************************)
EXTENDS ManagerProofs

----------------------------------------------------------------------------
(* Living containers *)

\* What is in memory is on disk after a save.
LEMMA SavedNames ==
    ASSUME list' \in Seq(Container), disk' = Saved(list'), NEW p, Names(list, p)'
    PROVE  Names(disk, p)'
  BY SavedProperties, Zenon DEF Names

\* poll_states forgets only processes that are dead.
LEMMA PollKeepsLive ==
    ASSUME TypeOK, poll_states, NEW p \in Pids, Live(p)', Names(list, p)
    PROVE  Names(list, p)'
<1>1. st[p] = "run" /\ runs' = runs
  BY PollProperties, Zenon DEF Live
<1>2. PICK i \in 1 .. Len(list) :
        list[i].state = "RUNNING" /\ list[i].pid = p /\ list[i].id = runs[p]
  BY Zenon DEF Names
<1>3. ~Reapable(list[i]) /\ ~Vanished(list[i])
  BY <1>1, <1>2, ConstantsAssumption, Zenon DEF Reapable, Vanished, is_pid_alive
<1>4. list'[i] = list[i] /\ Len(list') = Len(list)
  BY <1>3, PollProperties, Zenon
<1> QED
  BY <1>1, <1>2, <1>4, Zenon DEF Names

\* A command that polls at a place where no child is in hand.
LEMMA PollStep ==
    ASSUME TypeOK, LiveInv, poll_states, UNCHANGED lost,
           pc \in {"init", "idle", "run"},
           \/ pc' \in {"idle", "start", "stop", "delete"} /\ mode' # "exit"
           \/ pc' \in {"idle", "start", "delete"}
           \/ pc' = "cleanup" /\ mode' = "exit" /\ cur' = 1
    PROVE  LiveInv'
<1>1. \A p \in Pids : Live(p)' => Live(p)
  BY PollProperties, Zenon DEF Live
<1>2. \A p \in Pids : Live(p)' => Names(list, p)' \/ p \in lost'
  BY <1>1, PollKeepsLive, Zenon DEF LiveInv, LiveInMemory
<1>3. LiveInMemory'
  BY <1>2, Zenon DEF LiveInMemory
<1>4. LiveOnDisk'
  <2>1. CASE disk' = disk
    BY <1>1, <2>1, PollProperties DEF LiveInv, LiveOnDisk, Names
  <2>2. CASE disk' = Saved(list')
    BY <1>2, <2>2, PollProperties, SavedNames, Zenon DEF LiveOnDisk
  <2> QED
    BY <2>1, <2>2, PollProperties, Zenon
<1>5. ChildInHand'
  BY Zenon DEF ChildInHand
<1>6. Swept'
  BY DEF Swept
<1> QED
  BY <1>3, <1>4, <1>5, <1>6, Zenon DEF LiveInv

----------------------------------------------------------------------------
\* Every step preserves the invariant: one case per action.
LEMMA LiveStep == TypeOK /\ TypeOK' /\ LiveInv /\ [Next]_vars => LiveInv'
<1> SUFFICES ASSUME TypeOK, TypeOK', LiveInv, [Next]_vars PROVE LiveInv'
  BY Zenon
<1> USE ConstantsAssumption
<1>1. /\ list \in Seq(Container) /\ Len(list) \in Nat
      /\ \A i \in 1 .. Len(list) : list[i] \in Container
      /\ pc \in {"run", "start", "spawned", "fgwait", "stop", "reap", "delete"}
           => cur \in 1 .. Len(list) /\ list[cur] \in Container
  BY ListFacts, Zenon
<1>2. list' \in Seq(Container)
  BY Zenon DEF TypeOK
<1>3. \* The file follows the memory, or is left alone and still right.
      ASSUME LiveInMemory', pc' # "down",
             \/ disk' = Saved(list')
             \/ /\ disk' = disk
                /\ \A p \in Pids : Live(p)' => /\ runs'[p] = runs[p]
                                               /\ \/ Live(p) /\ (pc = "spawned" => newpid # p)
                                                  \/ pc' = "spawned" /\ newpid' = p
                /\ lost \subseteq lost'
      PROVE  LiveOnDisk'
  <2>1. CASE disk' = Saved(list')
    BY <1>2, <1>3, <2>1, SavedNames, Zenon DEF LiveInMemory, LiveOnDisk
  <2>2. CASE disk' # Saved(list')
    BY <1>3, <2>2, Zenon DEF LiveInv, LiveOnDisk, Names
  <2> QED
    BY <2>1, <2>2, Zenon
<1>4. ASSUME Restore PROVE LiveInv'
  <2>1. \A i \in 1 .. Len(disk) : disk[i] \in Record
    BY DEF TypeOK
  <2>2. /\ Len(list') = Len(disk)
        /\ \A i \in 1 .. Len(disk) : list'[i] = Reconciled(disk[i])
    BY <1>4 DEF Restore, TypeOK
  <2>3. ASSUME NEW p \in Pids, Live(p), Names(disk, p) PROVE Names(list, p)'
    <3>1. PICK i \in 1 .. Len(disk) :
            disk[i].state = "RUNNING" /\ disk[i].pid = p /\ disk[i].id = runs[p]
      BY <2>3, Zenon DEF Names
    <3>2. is_pid_alive(disk[i].pid)
      BY <2>3, <3>1, Zenon DEF is_pid_alive, Live
    <3>3. /\ list'[i].state = "RUNNING" /\ list'[i].pid = p
          /\ list'[i].id = runs[p]
      BY <2>1, <2>2, <3>1, <3>2, ReconciledProperties, ZenonT(30)
    <3>4. runs' = runs
      BY <1>4, Zenon DEF Restore, kern
    <3> QED
      BY <2>2, <3>3, <3>4, Zenon DEF Names
  <2>4. \A p \in Pids : Live(p)' <=> Live(p)
    BY <1>4, Zenon DEF Restore, kern, Live
  <2>5. LiveInMemory' /\ LiveOnDisk'
    BY <1>4, <2>3, <2>4, ZenonT(60) DEF Restore, LiveInv, LiveOnDisk, LiveInMemory, Names, kern
  <2>6. ChildInHand' /\ Swept'
    BY <1>4, Zenon DEF Restore, ChildInHand, Swept
  <2> QED
    BY <2>5, <2>6, Zenon DEF LiveInv
<1>26. ASSUME RestoreNothing PROVE LiveInv'
  <2>1. \A p \in Pids : Live(p)' => p \in lost'
    BY <1>26, Zenon DEF RestoreNothing, kern, Live
  <2>2. pc' = "idle"
    BY <1>26, Zenon DEF RestoreNothing
  <2>3. LiveInMemory' /\ LiveOnDisk'
    BY <2>1, Zenon DEF LiveInMemory, LiveOnDisk
  <2>4. ChildInHand' /\ Swept'
    BY <2>2, Zenon DEF ChildInHand, Swept
  <2> QED
    BY <2>3, <2>4, Zenon DEF LiveInv
<1>5. ASSUME Poll \/ RunPoll \/ CleanupBegin PROVE LiveInv'
  BY <1>5, PollStep, Zenon DEF Poll, RunPoll, CleanupBegin
<1>6. ASSUME NEW op \in {"start", "stop", "delete"}, NEW i, Command(op, i) PROVE LiveInv'
  BY <1>6, PollStep, Zenon DEF Command
<1>7. \* Nothing LiveInv speaks of changes, and the manager returns to the prompt.
      ASSUME UNCHANGED <<list, disk, kern, lost>>,
             \/ UNCHANGED mgr
             \/ pc \notin {"spawned", "down"} /\ pc' = "idle"
      PROVE  LiveInv'
  BY <1>7 DEF LiveInv, LiveOnDisk, LiveInMemory, ChildInHand, Swept, Names, Live, kern, mgr
<1>8. ASSUME CreateFails \/ StartRefused \/ (StopRefused /\ mode # "exit")
             \/ SchedPrune \/ (\E on \in BOOLEAN : SchedRefresh(on))
      PROVE  LiveInv'
  BY <1>7, <1>8, Zenon DEF CreateFails, StartRefused, StopRefused, StopReturns, SchedPrune, SchedRefresh
<1>9. ASSUME NEW m \in {"none", "fg", "bg"}, Create(m) PROVE LiveInv'
  <2>1. Created \in Container
    BY <1>9 DEF Create, Created, Container, States, Ids, TypeOK
  <2>2. /\ Len(list') = Len(list) + 1
        /\ \A i \in 1 .. Len(list) : list'[i] = list[i]
    BY <1>1, <1>9, <2>1, AppendFacts DEF Create
  <2>3. /\ pc = "idle" /\ pc' \in {"idle", "run"}
        /\ UNCHANGED <<st, parent, runs, lost>> /\ disk' = Saved(list')
    BY <1>9, Zenon DEF Create, SaveOk, mgr, kern
  <2>4. LiveInMemory'
    BY <1>1, <2>2, <2>3 DEF LiveInv, LiveInMemory, Names, Live
  <2>5. ChildInHand' /\ Swept'
    BY <2>3, Zenon DEF ChildInHand, Swept
  <2> QED
    BY <1>3, <2>3, <2>4, <2>5, Zenon DEF LiveInv
<1>10. ASSUME NEW q \in Pids, StartSpawn(q) PROVE LiveInv'
  <2>1. /\ Len(list') = Len(list)
        /\ \A i \in 1 .. Len(list) : /\ list'[i].id = list[i].id
                                     /\ list'[i].state = list[i].state
                                     /\ list'[i].pid = list[i].pid
    BY <1>1, <1>10 DEF StartSpawn, Container
  <2>2. /\ pc = "start" /\ pc' = "spawned" /\ newpid' = q /\ cur' = cur
        /\ disk' = disk /\ lost' = lost /\ cur \in 1 .. Len(list)
        /\ list[cur].state # "RUNNING"
        /\ st'[q] = "run" /\ parent'[q] = "manager" /\ runs'[q] = list[cur].id
        /\ \A p \in Pids \ {q} : st'[p] = st[p] /\ parent'[p] = parent[p] /\ runs'[p] = runs[p]
    BY <1>1, <1>10 DEF StartSpawn, TypeOK
  <2>3. LiveInMemory'
    BY <2>1, <2>2, SMTT(60) DEF LiveInv, LiveInMemory, Names, Live
  <2>4. LiveOnDisk'
    BY <2>2 DEF LiveInv, LiveOnDisk, Names, Live
  <2>5. ChildInHand' /\ Swept'
    BY <2>1, <2>2, Zenon DEF ChildInHand, Swept
  <2> QED
    BY <2>3, <2>4, <2>5, Zenon DEF LiveInv
<1>11. ASSUME StartFails PROVE LiveInv'
  <2>1. /\ Len(list') = Len(list)
        /\ \A i \in 1 .. Len(list) : /\ list'[i].id = list[i].id
                                     /\ list'[i].state = list[i].state
                                     /\ list'[i].pid = list[i].pid
    BY <1>1, <1>11 DEF StartFails, Container
  <2>2. /\ pc = "spawned" /\ pc' = "idle" /\ disk' = disk /\ lost' = lost
        /\ parent' = parent /\ runs' = runs
        /\ st'[newpid] = "free" /\ \A p \in Pids \ {newpid} : st'[p] = st[p]
    BY <1>11 DEF StartFails, Reaped, TypeOK
  <2>3. LiveInMemory' /\ LiveOnDisk'
    BY <2>1, <2>2 DEF LiveInv, LiveInMemory, LiveOnDisk, Names, Live
  <2>4. ChildInHand' /\ Swept'
    BY <2>2, Zenon DEF ChildInHand, Swept
  <2> QED
    BY <2>3, <2>4 DEF LiveInv
<1>12. ASSUME pc = "spawned", list' = Registered
       PROVE  /\ Len(list') = Len(list)
              /\ list'[cur].state = "RUNNING" /\ list'[cur].pid = newpid
              /\ list'[cur].id = runs[newpid]
              /\ \A i \in 1 .. Len(list) : i # cur => list'[i] = list[i]
              /\ list[cur].state # "RUNNING"
  BY <1>1, <1>12 DEF Registered, Container, LiveInv, ChildInHand
<1>13. ASSUME StartCommits PROVE LiveInv'
  <2>1. /\ pc = "spawned" /\ cur \in 1 .. Len(list) /\ cur' = cur
        /\ pc' \in {"idle", "fgwait"} /\ list' = Registered /\ disk' = Saved(list')
        /\ lost' = lost /\ UNCHANGED <<st, parent, runs>>
    BY <1>1, <1>13, Zenon DEF StartCommits, SaveOk, kern
  <2>2. LiveInMemory'
    BY <1>12, <2>1 DEF LiveInv, LiveInMemory, Names, Live
  <2>3. ChildInHand' /\ Swept'
    BY <1>12, <2>1 DEF LiveInv, ChildInHand, Swept, TypeOK
  <2> QED
    BY <1>3, <2>1, <2>2, <2>3, Zenon DEF LiveInv
<1>14. ASSUME StartRollsBack PROVE LiveInv'
  <2>1. /\ pc = "spawned" /\ cur \in 1 .. Len(list) /\ cur' = cur
        /\ pc' = "reap" /\ mode' = "bg" /\ list' = Registered /\ disk' = disk
        /\ lost' = lost /\ UNCHANGED <<parent, runs>>
        /\ st'[newpid] # "run" /\ \A p \in Pids \ {newpid} : st'[p] = st[p]
    BY <1>1, <1>14, SMTT(60) DEF StartRollsBack, SaveFails, Killed, TypeOK
  <2>2. LiveInMemory' /\ LiveOnDisk'
    BY <1>12, <2>1, SMTT(60) DEF LiveInv, LiveInMemory, LiveOnDisk, Names, Live
  <2>3. ChildInHand' /\ Swept'
    BY <1>12, <2>1 DEF ChildInHand, Swept, Live, TypeOK
  <2> QED
    BY <2>2, <2>3 DEF LiveInv
<1>15. ASSUME StopRefused, mode = "exit" PROVE LiveInv'
  <2>1. /\ pc = "stop" /\ pc' = "cleanup" /\ cur' = cur + 1 /\ mode' = mode
        /\ cur \in 1 .. Len(list) /\ UNCHANGED <<list, disk, lost, st, parent, runs>>
        /\ \A p \in Pids : list[cur].state = "RUNNING" /\ list[cur].pid = p => ~Live(p)
    BY <1>1, <1>15, Zenon DEF StopRefused, StopReturns, kern, IsRunning, Live
  <2>2. LiveInMemory' /\ LiveOnDisk'
    BY <2>1, Zenon DEF LiveInv, LiveInMemory, LiveOnDisk, Names, Live
  <2>3. Swept'
    <3> SUFFICES ASSUME NEW p \in Pids, NEW i \in 1 .. Len(list), i < cur + 1,
                        list[i].state = "RUNNING", list[i].pid = p
                 PROVE  ~Live(p)
      BY <1>15, <2>1, Zenon DEF Swept, Live
    <3>1. CASE i < cur
      BY <1>15, <2>1, <3>1, Zenon DEF LiveInv, Swept
    <3>2. CASE i = cur
      BY <2>1, <3>2, Zenon
    <3> QED
      BY <2>1, <3>1, <3>2
  <2> QED
    BY <2>1, <2>2, <2>3, Zenon DEF LiveInv, ChildInHand
<1>16. ASSUME StopKill PROVE LiveInv'
  <2>1. /\ pc = "stop" /\ pc' = "reap" /\ cur' = cur /\ mode' = mode
        /\ cur \in 1 .. Len(list) /\ list[cur].pid \in Pids
        /\ UNCHANGED <<list, disk, lost, parent, runs>>
        /\ st'[list[cur].pid] # "run"
        /\ \A p \in Pids : st'[p] = "run" => st[p] = "run"
    BY <1>1, <1>16 DEF StopKill, IsRunning, Killed, TypeOK, Container
  <2>2. LiveInMemory' /\ LiveOnDisk'
    BY <2>1, Zenon DEF LiveInv, LiveInMemory, LiveOnDisk, Names, Live
  <2>3. ChildInHand' /\ Swept'
    BY <2>1, Zenon DEF LiveInv, ChildInHand, Swept, Live
  <2> QED
    BY <2>2, <2>3 DEF LiveInv
<1>17. \* The record of a process that does not live is marked STOPPED.
       ASSUME pc \in {"reap", "fgwait"}, NEW q \in Pids, list[cur].pid = q,
              list' = [list EXCEPT ![cur] = Stopped(@)], disk' = Saved(list') \/ disk' = disk,
              UNCHANGED <<mode, parent, runs, lost>>, ~Live(q)',
              \A p \in Pids : st'[p] = "run" => st[p] = "run",
              \/ pc' = "idle"
              \/ pc = "reap" /\ mode = "exit" /\ pc' = "cleanup" /\ cur' = cur + 1
       PROVE  LiveInv'
  <2>1. /\ cur \in 1 .. Len(list) /\ Len(list') = Len(list)
        /\ list'[cur].state = "STOPPED"
        /\ \A i \in 1 .. Len(list) : i # cur => list'[i] = list[i]
    BY <1>1, <1>17 DEF Stopped, Container
  <2>2. \A p \in Pids : Live(p)' => Live(p) /\ p # q
    BY <1>17, Zenon DEF Live
  <2>3. LiveInMemory'
    BY <1>17, <2>1, <2>2 DEF LiveInv, LiveInMemory, Names
  <2>4. LiveOnDisk'
    BY <1>3, <1>17, <2>2, <2>3, Zenon
  <2>5. Swept'
    <3>1. CASE pc' = "idle"
      BY <3>1, Zenon DEF Swept
    <3>2. CASE pc' # "idle"
      <4> SUFFICES ASSUME NEW p \in Pids, NEW i \in 1 .. Len(list), i < cur + 1,
                          list'[i].state = "RUNNING", list'[i].pid = p
                   PROVE  ~Live(p)'
        BY <1>17, <2>1, <3>2, Zenon DEF Swept
      <4>1. i # cur
        BY <2>1, Zenon
      <4>2. i < cur /\ list[i].state = "RUNNING" /\ list[i].pid = p
        BY <2>1, <4>1
      <4> QED
        BY <1>17, <2>2, <3>2, <4>2, Zenon DEF LiveInv, Swept
    <3> QED
      BY <3>1, <3>2, Zenon
  <2> QED
    BY <1>17, <2>3, <2>4, <2>5, Zenon DEF LiveInv, ChildInHand
<1>18. ASSUME NEW q \in Pids, Waited(q)
       PROVE  /\ \A p \in Pids : st'[p] = "run" => st[p] = "run"
              /\ parent[q] = "manager" => st'[q] # "run"
  BY <1>18, Zenon DEF Waited, Reaped, TypeOK
<1>19. ASSUME StopReap PROVE LiveInv'
  <2>1. PICK q \in Pids : q = list[cur].pid /\ ~Live(q)
    BY <1>19, Zenon DEF StopReap, LiveInv, ChildInHand
  <2>2. \A p \in Pids : st'[p] = "run" => st[p] = "run"
    BY <1>18, <1>19, <2>1, Zenon DEF StopReap
  <2>3. ~Live(q)'
    BY <1>19, <2>1, <2>2, Zenon DEF StopReap, Live
  <2> QED
    BY <1>17, <1>19, <2>1, <2>2, <2>3, Zenon DEF StopReap, StopReturns, SaveOk, SaveFails
<1>20. ASSUME FgReap PROVE LiveInv'
  <2>1. PICK q \in Pids : q = list[cur].pid /\ st[q] # "free" /\ parent[q] = "manager"
    BY <1>20, Zenon DEF FgReap, LiveInv, ChildInHand
  <2>2. /\ \A p \in Pids : st'[p] = "run" => st[p] = "run"
        /\ st'[q] # "run"
    BY <1>18, <1>20, <2>1, Zenon DEF FgReap
  <2>3. ~Live(q)'
    BY <2>2, Zenon DEF Live
  <2> QED
    BY <1>17, <1>20, <2>1, <2>2, <2>3, Zenon DEF FgReap, SaveOk, SaveFails
<1>21. ASSUME Delete PROVE LiveInv'
  <2> DEFINE rest == remove_container(list, cur)
             back == Append(rest, list[cur])
  <2>1. /\ cur \in 1 .. Len(list) /\ list[cur] \in Container /\ pc = "delete" /\ pc' = "idle"
        /\ UNCHANGED <<st, parent, runs, lost>>
        /\ \/ list' = list /\ disk' = disk
           \/ list[cur].state # "RUNNING" /\ list' = rest /\ disk' = Saved(list')
           \/ list[cur].state # "RUNNING" /\ list' = back /\ disk' = disk
    BY <1>1, <1>21, Zenon DEF Delete, SaveOk, SaveFails, kern
  <2>2. /\ rest \in Seq(Container) /\ Len(rest) = Len(list) - 1
        /\ \A j \in 1 .. Len(list) - 1 : rest[j] = IF j < cur THEN list[j] ELSE list[j + 1]
    BY <1>1, <2>1, RemoveProperties, Zenon
  <2>3. /\ Len(back) = Len(rest) + 1
        /\ \A j \in 1 .. Len(rest) : back[j] = rest[j]
    BY <2>1, <2>2, AppendFacts
  <2> HIDE DEF rest, back
  <2>4. \A i \in 1 .. Len(list) : i # cur => \E j \in 1 .. Len(rest) : rest[j] = list[i]
    <3> SUFFICES ASSUME NEW i \in 1 .. Len(list), i # cur
                 PROVE  \E j \in 1 .. Len(rest) : rest[j] = list[i]
      BY Zenon
    <3>1. CASE i < cur
      BY <1>1, <2>1, <2>2, <3>1
    <3>2. CASE i > cur
      <4>1. i - 1 \in 1 .. Len(rest) /\ ~(i - 1 < cur) /\ (i - 1) + 1 = i
        BY <1>1, <2>1, <2>2, <3>2, SMTT(60)
      <4> QED
        BY <1>1, <2>2, <4>1, Zenon
    <3> QED
      BY <1>1, <2>1, <3>1, <3>2
  <2>5. \A p \in Pids : Names(list, p) => Names(list, p)'
    <3>1. CASE list' = list
      BY <2>1, <3>1, Zenon DEF Names
    <3>2. CASE list' # list /\ list' = rest
      BY <2>1, <2>4, <3>2, SMTT(60) DEF Names
    <3>3. CASE list' # list /\ list' = back
      <4>1. \A j \in 1 .. Len(rest) : j \in 1 .. Len(back) /\ back[j] = rest[j]
        BY <1>1, <2>2, <2>3
      <4>2. \A i \in 1 .. Len(list) : i # cur => \E j \in 1 .. Len(back) : back[j] = list[i]
        BY <2>4, <4>1, Zenon
      <4> QED
        BY <2>1, <3>3, <4>2 DEF Names
    <3> QED
      BY <2>1, <3>1, <3>2, <3>3, Zenon
  <2>6. LiveInMemory'
    BY <2>1, <2>5, Zenon DEF LiveInv, LiveInMemory, Live
  <2>7. LiveOnDisk'
    BY <1>3, <2>1, <2>6, Zenon DEF Live
  <2> QED
    BY <2>1, <2>6, <2>7, Zenon DEF LiveInv, ChildInHand, Swept
<1>22. ASSUME CleanupStep PROVE LiveInv'
  <2>1. /\ pc = "cleanup" /\ pc' \in {"cleanup", "stop"} /\ mode' = mode
        /\ UNCHANGED <<list, disk, lost, st, parent, runs>>
        /\ \/ cur' = cur
           \/ cur' = cur + 1 /\ list[cur].state # "RUNNING" /\ pc' = "cleanup"
        /\ cur \in Nat
    BY <1>1, <1>22, SMTT(60) DEF CleanupStep, MustStop, kern, TypeOK
  <2>2. LiveInMemory' /\ LiveOnDisk'
    BY <2>1, Zenon DEF LiveInv, LiveInMemory, LiveOnDisk, Names, Live
  <2>3. Swept'
    <3>1. CASE cur' = cur
      BY <2>1, <3>1, Zenon DEF LiveInv, Swept, Live
    <3>2. CASE cur' = cur + 1 /\ list[cur].state # "RUNNING" /\ pc' = "cleanup"
      <4>1. \A i \in 1 .. Len(list) : i < cur + 1 /\ i # cur => i < cur
        BY <1>1, <2>1, SMTT(60)
      <4> QED
        BY <2>1, <3>2, <4>1, Zenon DEF LiveInv, Swept, Live
    <3> QED
      BY <2>1, <3>1, <3>2, Zenon
  <2> QED
    BY <2>1, <2>2, <2>3, Zenon DEF LiveInv, ChildInHand
<1>23. ASSUME CleanupEnd \/ Crash PROVE LiveInv'
  <2>1. /\ pc' = "down" /\ runs' = runs
        /\ \A p \in Pids : Live(p)' => Live(p)
    BY <1>23 DEF CleanupEnd, Crash, Gone, Live, TypeOK
  <2>2. LiveOnDisk'
    <3>1. CASE Crash
      BY <2>1, <3>1, Zenon DEF Crash, SaveFails, LiveInv, LiveOnDisk, Names
    <3>2. CASE CleanupEnd /\ disk' = disk
      BY <2>1, <3>2, Zenon DEF CleanupEnd, LiveInv, LiveOnDisk, Names
    <3>3. CASE CleanupEnd /\ disk' = Saved(list)
      <4>1. \A p \in Pids : Names(list, p) => Names(disk, p)'
        BY <1>1, <2>1, <3>3, SavedProperties DEF Names
      <4> QED
        BY <2>1, <3>3, <4>1, Zenon DEF CleanupEnd, LiveInv, LiveInMemory, LiveOnDisk
    <3> QED
      BY <1>23, <3>1, <3>2, <3>3, Zenon DEF CleanupEnd, SaveOk, SaveFails
  <2> QED
    BY <2>1, <2>2, Zenon DEF LiveInv, LiveInMemory, ChildInHand, Swept
<1>24. ASSUME NEW q \in Pids, Exit(q) \/ ReapedElsewhere(q) \/ ForeignSpawn(q) PROVE LiveInv'
  <2>1. /\ UNCHANGED <<pc, cur, mode, newpid, list, disk>>
        /\ \A p \in Pids : Live(p)' => Live(p) /\ runs'[p] = runs[p] /\ (p \in lost => p \in lost')
        /\ \A p \in Pids : st[p] # "free" /\ parent[p] = "manager" =>
                             /\ st'[p] # "free" /\ parent'[p] = "manager"
                             /\ runs'[p] = runs[p]
    <3>1. CASE Exit(q)
      BY <3>1, SMTT(60) DEF Exit, Live, TypeOK, mgr
    <3>2. CASE ReapedElsewhere(q)
      BY <3>2, SMTT(60) DEF ReapedElsewhere, Live, TypeOK, mgr
    <3>3. CASE ForeignSpawn(q)
      BY <3>3, SMTT(60) DEF ForeignSpawn, Fresh, Live, TypeOK, mgr
    <3> QED
      BY <1>24, <3>1, <3>2, <3>3, Zenon
  <2>2. LiveInMemory' /\ LiveOnDisk'
    BY <2>1 DEF LiveInv, LiveInMemory, LiveOnDisk, Names
  <2>3. pc = "spawned" => newpid \in Pids
    BY Zenon DEF TypeOK
  <2>4. ChildInHand'
    BY <2>1, <2>3, ZenonT(30) DEF LiveInv, ChildInHand, Live
  <2>5. Swept'
    BY <2>1, ZenonT(30) DEF LiveInv, Swept
  <2> QED
    BY <2>2, <2>4, <2>5, Zenon DEF LiveInv
<1>25. CASE UNCHANGED vars
  BY <1>7, <1>25, Zenon DEF vars
<1> QED
  BY <1>4, <1>5, <1>6, <1>8, <1>9, <1>10, <1>11, <1>13, <1>14, <1>15, <1>16, <1>19, <1>20,
     <1>21, <1>22, <1>23, <1>24, <1>25, <1>26, SMTT(60) DEF Next, Typed, Proceed, Kernel

\* The invariant holds from the start of the first manager on.
LEMMA LiveInvariant == Spec => []LiveInv
<1>1. Init => LiveInv
  BY ZenonT(60) DEF Init, LiveInv, LiveOnDisk, LiveInMemory, ChildInHand, Swept, Live
<1> QED
  BY <1>1, LiveStep, TypeCorrect, PTL DEF Spec

\* Whenever the manager dies, every living container is RUNNING in the metadata

\* file under its own id, but for the one whose first save had not happened yet.
THEOREM CrashSafe == Spec => []LiveOnDisk
  BY LiveInvariant, PTL DEF LiveInv

\* At the prompt, after any number of restarts, every living container has a

\* RUNNING record: list shows it and stop reaches it.
THEOREM PromptReachesLive == Spec => []LiveAtPrompt
<1>1. LiveInv => LiveAtPrompt
  BY Zenon DEF LiveInv, LiveInMemory, LiveAtPrompt
<1> QED
  BY <1>1, LiveInvariant, PTL

\* When the exit command frees the list, no container it could name still lives.
THEOREM ExitKillsAll == Spec => CleanExit
<1>1. ASSUME TypeOK, LiveInv, [Next]_vars
      PROVE  [CleanupEnd => \A p \in Pids : Live(p) => p \in lost]_vars
  <2> SUFFICES ASSUME CleanupEnd, NEW p \in Pids, Live(p), Names(list, p) PROVE FALSE
    BY <1>1, Zenon DEF CleanupEnd, LiveInv, LiveInMemory
  <2>1. PICK i \in 1 .. Len(list) : list[i].state = "RUNNING" /\ list[i].pid = p
    BY Zenon DEF Names
  <2>2. i < cur
    BY <1>1 DEF CleanupEnd, TypeOK
  <2> QED
    BY <1>1, <2>1, <2>2, Zenon DEF CleanupEnd, LiveInv, Swept
<1> QED
  BY <1>1, LiveInvariant, TypeCorrect, PTL DEF Spec, CleanExit
----------------------------------------------------------------------------
(* The manager's own children, as long as no pid comes back too early *)

\* The record in hand is what the command takes it for.
LEMMA InHandStep == TypeOK /\ TypeOK' /\ RecordInHand /\ [Next]_vars => RecordInHand'
<1> SUFFICES ASSUME TypeOK, TypeOK', RecordInHand, [Next]_vars PROVE RecordInHand'
  OBVIOUS
<1>1. \/ pc' \notin {"down", "spawned", "reap", "fgwait"}
      \/ UNCHANGED <<pc, cur, list>>
      \/ Gone
      \/ \E p \in Pids : StartSpawn(p)
      \/ StartCommits \/ StartRollsBack \/ StopKill
  BY Zenon
     DEF Next, Typed, Proceed, Kernel, Restore, RestoreNothing, Poll, CreateFails, Create, Command,
         RunPoll, StartRefused, StartFails, StopRefused, StopReap, StopReturns, FgReap, Delete,
         SchedRefresh, SchedPrune, CleanupBegin, CleanupStep, CleanupEnd, Crash,
         Exit, ReapedElsewhere, ForeignSpawn, vars, mgr
<1>2. CASE pc' \notin {"down", "spawned", "reap", "fgwait"}
  BY <1>2, Zenon DEF RecordInHand
<1>3. CASE UNCHANGED <<pc, cur, list>>
  BY <1>3, Zenon DEF RecordInHand
<1>4. CASE Gone
  BY <1>4, Zenon DEF Gone, RecordInHand
<1>5. ASSUME NEW p \in Pids, StartSpawn(p) PROVE RecordInHand'
  <2>1. cur \in 1 .. Len(list) /\ pc' = "spawned" /\ cur' = cur
        /\ list' = [list EXCEPT ![cur].stack = TRUE]
    BY <1>5, ListFacts, Zenon DEF StartSpawn
  <2> QED
    BY <2>1, RecordUpdates, Zenon DEF RecordInHand
<1>6. CASE StartCommits \/ StartRollsBack
  <2>1. cur \in 1 .. Len(list) /\ pc' \in {"fgwait", "idle", "reap"} /\ cur' = cur
        /\ list' = Registered
    BY <1>6, ListFacts, Zenon DEF StartCommits, StartRollsBack
  <2>2. list'[cur].state = "RUNNING"
    BY <2>1, RecordUpdates, Zenon
  <2> QED
    BY <2>1, <2>2, Zenon DEF RecordInHand
<1>7. CASE StopKill
  BY <1>7, Zenon DEF StopKill, IsRunning, RecordInHand
<1> QED
  BY <1>1, <1>2, <1>3, <1>4, <1>5, <1>6, <1>7, Zenon

\* A pid is among the running ones if and only if a record with it is RUNNING.
LEMMA RunningPidsFacts ==
    ASSUME NEW l, NEW p \in Pids
    PROVE  p \in RunningPids(l) <=>
             \E i \in 1 .. Len(l) : l[i].state = "RUNNING" /\ l[i].pid = p
  BY ConstantsAssumption, Zenon DEF RunningPids, IsRunning

\* The four parts of OwnInv that depend on what the kernel does with pids.
Pinned == OwnPidPinned /\ NoStrayChild /\ TargetsTracked /\ Adopted

\* poll_states reaps a child together with every record that names it.
LEMMA PollPinned ==
    ASSUME TypeOK, TypeOK', Pinned, poll_states, pc # "spawned", ~PidReuse
    PROVE  Pinned'
<1> USE ConstantsAssumption
<1>1. /\ Len(list') = Len(list) /\ Len(list) \in Nat
      /\ \A i \in 1 .. Len(list) : list[i] \in Container /\ list'[i] \in Container
      /\ \A i \in 1 .. Len(list) :
           /\ list'[i].id = list[i].id
           /\ \/ list'[i] = list[i] /\ ~Reapable(list[i]) /\ ~Vanished(list[i])
              \/ list'[i].state = "STOPPED" /\ (Reapable(list[i]) \/ Vanished(list[i]))
      /\ \A p \in Pids :
           \/ st'[p] = st[p] /\ \A i \in 1 .. Len(list) : Reapable(list[i]) => list[i].pid # p
           \/ /\ st[p] = "zombie" /\ parent[p] = "manager" /\ st'[p] = "free"
              /\ p \notin targets'
      /\ targets' \subseteq targets /\ targets \subseteq Pids
      /\ parent' = parent /\ runs' = runs
  BY PollProperties, ListFacts, SMTT(60) DEF TypeOK
<1>2. \A i \in 1 .. Len(list) : list'[i].state = "RUNNING" => list'[i] = list[i]
  BY <1>1, ZenonT(60)
<1>3. \A i \in 1 .. Len(list) : Own(list'[i]) => list'[i] = list[i]
  BY <1>1, <1>2, OwnFacts, Zenon
<1>4. OwnPidPinned'
  <2> SUFFICES ASSUME NEW i \in 1 .. Len(list), Own(list'[i])
               PROVE  /\ list'[i].pid \in Pids
                      /\ st'[list'[i].pid] # "free"
                      /\ parent'[list'[i].pid] = "manager"
                      /\ runs'[list'[i].pid] = list'[i].id
    BY <1>1, Zenon DEF OwnPidPinned
  <2>1. list'[i] = list[i] /\ Own(list[i]) /\ list[i].state = "RUNNING"
    BY <1>1, <1>3, OwnFacts, Zenon
  <2>2. /\ list[i].pid \in Pids /\ st[list[i].pid] # "free"
        /\ parent[list[i].pid] = "manager" /\ runs[list[i].pid] = list[i].id
    BY <2>1, Zenon DEF Pinned, OwnPidPinned
  <2>3. st[list[i].pid] # "zombie"
    BY <1>1, <2>1, <2>2, Zenon DEF Reapable, IsRunning
  <2> QED
    BY <1>1, <2>1, <2>2, <2>3, Zenon
<1>5. NoStrayChild'
  <2> SUFFICES ASSUME NEW p \in Pids, st'[p] # "free", parent'[p] = "manager"
               PROVE  \E i \in 1 .. Len(list') : Own(list'[i]) /\ list'[i].pid = p
    BY Zenon DEF NoStrayChild
  <2>1. /\ st'[p] = st[p] /\ parent[p] = "manager"
        /\ \A i \in 1 .. Len(list) : Reapable(list[i]) => list[i].pid # p
    BY <1>1, Zenon
  <2>2. PICK i \in 1 .. Len(list) : Own(list[i]) /\ list[i].pid = p
    BY <2>1, Zenon DEF Pinned, NoStrayChild
  <2>3. ~Reapable(list[i]) /\ ~Vanished(list[i])
    BY <2>1, <2>2, Zenon DEF Vanished, is_pid_alive
  <2> QED
    BY <1>1, <2>2, <2>3, Zenon
<1>6. TargetsTracked'
  <2> SUFFICES ASSUME NEW p \in targets' PROVE p \in RunningPids(list') \/ st'[p] = "free"
    BY Zenon DEF TargetsTracked
  <2>1. /\ p \in Pids /\ p \in targets
        /\ st'[p] = st[p] /\ \A i \in 1 .. Len(list) : Reapable(list[i]) => list[i].pid # p
    BY <1>1, Zenon
  <2>2. CASE st[p] = "free"
    BY <2>1, <2>2, Zenon
  <2>3. CASE st[p] # "free"
    <3>1. PICK i \in 1 .. Len(list) : list[i].state = "RUNNING" /\ list[i].pid = p
      BY <2>1, <2>3, RunningPidsFacts, SMTT(60) DEF Pinned, TargetsTracked
    <3>2. ~Reapable(list[i]) /\ ~Vanished(list[i])
      BY <2>1, <2>3, <3>1, Zenon DEF Vanished, is_pid_alive
    <3> QED
      BY <1>1, <2>1, <3>1, <3>2, RunningPidsFacts, SMTT(60)
  <2> QED
    BY <2>2, <2>3, Zenon
<1>7. Adopted'
  <2> SUFFICES ASSUME NEW i \in 1 .. Len(list), list'[i].state = "RUNNING", ~Own(list'[i])
               PROVE  /\ list'[i].pid \in Pids
                      /\ st'[list'[i].pid] = "free" \/ parent'[list'[i].pid] # "manager"
    BY <1>1, Zenon DEF Adopted
  <2>1. /\ list'[i] = list[i] /\ list[i].pid \in Pids
        /\ st[list[i].pid] = "free" \/ parent[list[i].pid] # "manager"
    BY <1>2, Zenon DEF Pinned, Adopted
  <2> QED
    BY <1>1, <2>1, Zenon
<1> QED
  BY <1>4, <1>5, <1>6, <1>7, Zenon DEF Pinned

\* Nothing that Pinned speaks of changes, but for records that are not RUNNING,

\* pids that die without being reaped, and targets.
LEMMA QuietPinned ==
    ASSUME TypeOK, TypeOK', Pinned, ~PidReuse,
           pc # "spawned" \/ UNCHANGED <<pc, newpid>>,
           UNCHANGED <<parent, runs>>,
           \A p \in Pids : st'[p] = "free" <=> st[p] = "free",
           \A i \in 1 .. Len(list') :
             list'[i].state = "RUNNING" => \E j \in 1 .. Len(list) : list'[i] = list[j],
           \A j \in 1 .. Len(list) :
             list[j].state = "RUNNING" => \E i \in 1 .. Len(list') : list'[i] = list[j],
           targets' \subseteq targets \cup RunningPids(list)
    PROVE  Pinned'
<1>1. /\ \A i \in 1 .. Len(list) : list[i] \in Container
      /\ \A i \in 1 .. Len(list') : list'[i] \in Container
      /\ targets \subseteq Pids /\ targets' \subseteq Pids
  BY SMTT(60) DEF TypeOK
<1>2. OwnPidPinned'
  <2> SUFFICES ASSUME NEW i \in 1 .. Len(list'), Own(list'[i])
               PROVE  /\ list'[i].pid \in Pids
                      /\ st'[list'[i].pid] # "free"
                      /\ parent'[list'[i].pid] = "manager"
                      /\ runs'[list'[i].pid] = list'[i].id
    BY Zenon DEF OwnPidPinned
  <2>1. PICK j \in 1 .. Len(list) : list'[i] = list[j]
    BY <1>1, OwnFacts, Zenon
  <2> QED
    BY <2>1, SMTT(60) DEF Pinned, OwnPidPinned
<1>3. NoStrayChild'
  <2> SUFFICES ASSUME NEW p \in Pids, st'[p] # "free", parent'[p] = "manager",
                      ~(pc' = "spawned" /\ newpid' = p)
               PROVE  \E i \in 1 .. Len(list') : Own(list'[i]) /\ list'[i].pid = p
    BY Zenon DEF NoStrayChild
  <2>1. PICK j \in 1 .. Len(list) : Own(list[j]) /\ list[j].pid = p
    BY Zenon DEF Pinned, NoStrayChild
  <2>2. list[j].state = "RUNNING"
    BY <1>1, <2>1, OwnFacts, Zenon
  <2> QED
    BY <2>1, <2>2, Zenon
<1>4. TargetsTracked'
  <2> SUFFICES ASSUME NEW p \in targets' PROVE p \in RunningPids(list') \/ st'[p] = "free"
    BY Zenon DEF TargetsTracked
  <2>1. p \in Pids /\ (p \in RunningPids(list) \/ st[p] = "free")
    BY <1>1, Zenon DEF Pinned, TargetsTracked
  <2>2. CASE p \in RunningPids(list)
    <3>1. PICK j \in 1 .. Len(list) : list[j].state = "RUNNING" /\ list[j].pid = p
      BY <2>1, <2>2, RunningPidsFacts, SMTT(60)
    <3>2. \E i \in 1 .. Len(list') : list'[i].state = "RUNNING" /\ list'[i].pid = p
      BY <3>1, SMTT(60)
    <3> QED
      BY <2>1, <3>2, RunningPidsFacts, Zenon
  <2> QED
    BY <2>1, <2>2, Zenon
<1>5. Adopted'
  <2> SUFFICES ASSUME NEW i \in 1 .. Len(list'), list'[i].state = "RUNNING", ~Own(list'[i])
               PROVE  /\ list'[i].pid \in Pids
                      /\ st'[list'[i].pid] = "free" \/ parent'[list'[i].pid] # "manager"
    BY Zenon DEF Adopted
  <2>1. PICK j \in 1 .. Len(list) : list'[i] = list[j]
    BY Zenon
  <2>2. list[j].pid \in Pids /\ (st[list[j].pid] = "free" \/ parent[list[j].pid] # "manager")
    BY <2>1, Zenon DEF Pinned, Adopted
  <2> QED
    BY <2>1, <2>2, Zenon
<1> QED
  BY <1>2, <1>3, <1>4, <1>5, Zenon DEF Pinned

\* Every step keeps the manager's own children in its records, and only them.
LEMMA PinnedStep ==
    /\ TypeOK /\ TypeOK' /\ UniqueIds /\ LiveInv /\ RecordInHand
    /\ ~PidReuse /\ Pinned /\ [Next]_vars
    => Pinned'
<1> SUFFICES ASSUME TypeOK, TypeOK', UniqueIds, LiveInv, RecordInHand,
                    ~PidReuse, Pinned, [Next]_vars
             PROVE  Pinned'
  BY Zenon
<1> USE ConstantsAssumption
<1>1. /\ list \in Seq(Container) /\ Len(list) \in Nat
      /\ \A i \in 1 .. Len(list) : list[i] \in Container
      /\ pc \in {"run", "start", "spawned", "fgwait", "stop", "reap", "delete"}
           => cur \in 1 .. Len(list) /\ list[cur] \in Container
      /\ \A i \in 1 .. Len(list') : list'[i] \in Container
      /\ targets \subseteq Pids
  BY ListFacts, SMTT(60) DEF TypeOK
<1>2. \* Two records of own children never name the same one.
      \A i, j \in 1 .. Len(list) :
        Own(list[i]) /\ Own(list[j]) /\ list[i].pid = list[j].pid => i = j
  BY SMTT(60) DEF Pinned, OwnPidPinned, UniqueIds, Distinct
<1>3. ASSUME Restore PROVE Pinned'
  <2>1. /\ list = << >> /\ pc # "spawned" /\ pc' # "spawned"
        /\ UNCHANGED <<targets, st, parent, runs>>
        /\ Len(list') = Len(disk)
        /\ \A i \in 1 .. Len(disk) : list'[i] = Reconciled(disk[i]) /\ disk[i] \in Record
    BY <1>3 DEF Restore, kern, RecordInHand, TypeOK
  <2>2. \A p \in Pids : st[p] # "free" => parent[p] # "manager"
    BY <2>1 DEF Pinned, NoStrayChild
  <2>3. \A i \in 1 .. Len(disk) : ~Own(list'[i])
    <3> SUFFICES ASSUME NEW i \in 1 .. Len(disk) PROVE ~Own(list'[i])
      BY Zenon
    <3>1. Reconciled(disk[i]).stack = FALSE
      BY <2>1, ReconciledProperties, ZenonT(60)
    <3> QED
      BY <2>1, <3>1, Zenon DEF Own
  <2>4. \A i \in 1 .. Len(disk) : list'[i].state = "RUNNING" =>
                                    list'[i].pid \in Pids /\ st[list'[i].pid] # "free"
    <3> SUFFICES ASSUME NEW i \in 1 .. Len(disk), list'[i].state = "RUNNING"
                 PROVE  list'[i].pid \in Pids /\ st[list'[i].pid] # "free"
      BY Zenon
    <3>1. list'[i].pid = disk[i].pid /\ is_pid_alive(disk[i].pid)
      BY <2>1, ReconciledProperties, ZenonT(60)
    <3> QED
      BY <2>1, <3>1, Zenon DEF is_pid_alive, Record
  <2>5. \A p \in targets : st[p] = "free"
    BY <2>1, SMTT(60) DEF Pinned, TargetsTracked, RunningPids
  <2>6. OwnPidPinned' /\ NoStrayChild'
    BY <2>1, <2>2, <2>3, Zenon DEF OwnPidPinned, NoStrayChild
  <2>7. Adopted' /\ TargetsTracked'
    BY <2>1, <2>2, <2>4, <2>5, Zenon DEF Adopted, TargetsTracked
  <2> QED
    BY <2>6, <2>7, Zenon DEF Pinned
<1>19. ASSUME RestoreNothing PROVE Pinned'
  <2>1. /\ pc # "spawned" /\ Len(list) = 0 /\ Len(list') = 0
        /\ UNCHANGED <<targets, st, parent, runs>>
    BY <1>19 DEF RestoreNothing, kern, RecordInHand
  <2>2. OwnPidPinned' /\ NoStrayChild'
    BY <2>1 DEF Pinned, OwnPidPinned, NoStrayChild
  <2>3. Adopted' /\ TargetsTracked'
    BY <2>1, SMTT(60) DEF Pinned, Adopted, TargetsTracked, RunningPids
  <2> QED
    BY <2>2, <2>3, Zenon DEF Pinned
<1>4. ASSUME Poll \/ RunPoll \/ CleanupBegin \/ (\E op, i : Command(op, i)) PROVE Pinned'
  BY <1>4, PollPinned, Zenon DEF Poll, RunPoll, CleanupBegin, Command
<1>5. ASSUME UNCHANGED <<list, kern>>, pc # "spawned" \/ UNCHANGED <<pc, newpid>>,
             targets' \subseteq targets \cup RunningPids(list)
      PROVE  Pinned'
  BY <1>5, QuietPinned, Zenon DEF kern
<1>6. ASSUME CreateFails \/ StartRefused \/ StopRefused \/ SchedPrune \/ CleanupStep
             \/ (\E on : SchedRefresh(on))
      PROVE  Pinned'
  BY <1>5, <1>6, Zenon DEF CreateFails, StartRefused, StopRefused, SchedPrune, CleanupStep, SchedRefresh, mgr
<1>7. ASSUME NEW m \in {"none", "fg", "bg"}, Create(m) PROVE Pinned'
  <2>1. Created \in Container /\ Created.state = "CREATED"
    BY <1>7, SMTT(60) DEF Create, Created, Container, States, Ids, TypeOK
  <2>2. /\ Len(list') = Len(list) + 1
        /\ \A i \in 1 .. Len(list) : list'[i] = list[i]
        /\ list'[Len(list) + 1].state # "RUNNING"
    BY <1>1, <1>7, <2>1, AppendFacts, SMTT(60) DEF Create
  <2>3. /\ \A i \in 1 .. Len(list') : i \in 1 .. Len(list) \/ i = Len(list) + 1
        /\ \A i \in 1 .. Len(list) : i \in 1 .. Len(list')
    BY <1>1, <2>2
  <2>4. pc # "spawned" /\ UNCHANGED <<targets, st, parent, runs>>
    BY <1>7, Zenon DEF Create, kern
  <2> QED
    BY <2>2, <2>3, <2>4, QuietPinned, ZenonT(60)
<1>8. ASSUME Delete PROVE Pinned'
  <2>1. pc # "spawned" /\ UNCHANGED <<targets, st, parent, runs>>
    BY <1>8, Zenon DEF Delete, kern
  <2> QED
    BY <1>8, <2>1, DeleteKeeps, QuietPinned, Zenon
<1>9. ASSUME StopKill PROVE Pinned'
  <2>1. pc # "spawned" /\ UNCHANGED <<list, targets, parent, runs>>
    BY <1>9, Zenon DEF StopKill
  <2>2. \A p \in Pids : st'[p] = "free" <=> st[p] = "free"
    BY <1>9, SMTT(60) DEF StopKill, Killed, TypeOK
  <2> QED
    BY <2>1, <2>2, QuietPinned, Zenon
<1>10. ASSUME CleanupEnd \/ Crash PROVE Pinned'
  <2>1. /\ list' = << >> /\ targets' = {} /\ \A p \in Pids : parent'[p] # "manager"
    BY <1>10 DEF CleanupEnd, Crash, Gone, TypeOK
  <2> QED
    BY <2>1, SMTT(60) DEF Pinned, OwnPidPinned, NoStrayChild, TargetsTracked, Adopted
<1>11. ASSUME NEW q \in Pids, Exit(q) PROVE Pinned'
  <2>1. UNCHANGED <<pc, newpid, list, targets, parent, runs>>
    BY <1>11, Zenon DEF Exit, mgr
  <2>2. \A p \in Pids : st'[p] = "free" <=> st[p] = "free"
    BY <1>11 DEF Exit, TypeOK
  <2> QED
    BY <2>1, <2>2, QuietPinned, Zenon
<1>12. ASSUME NEW q \in Pids, StartSpawn(q) PROVE Pinned'
  <2>1. /\ cur \in 1 .. Len(list) /\ pc # "spawned" /\ pc' = "spawned" /\ newpid' = q
        /\ list[cur].state # "RUNNING" /\ targets' = targets
        /\ st[q] = "free" /\ q \notin RunningPids(list) /\ q \notin targets
        /\ \A p \in Pids \ {q} : st'[p] = st[p] /\ parent'[p] = parent[p] /\ runs'[p] = runs[p]
    BY <1>1, <1>12 DEF StartSpawn, Fresh, TypeOK
  <2>2. /\ Len(list') = Len(list)
        /\ \A i \in 1 .. Len(list) : i # cur => list'[i] = list[i]
        /\ list'[cur].state = list[cur].state
    BY <1>12, <2>1, RecordUpdates, ZenonT(60) DEF StartSpawn
  <2>3. \A i \in 1 .. Len(list) : /\ Own(list'[i]) \/ list'[i].state = "RUNNING" => i # cur /\ list'[i] = list[i]
                                  /\ Own(list[i]) \/ list[i].state = "RUNNING" => i # cur /\ list'[i] = list[i]
    BY <1>1, <2>1, <2>2, OwnFacts, ZenonT(60)
  <2>4. \A i \in 1 .. Len(list) : list[i].state = "RUNNING" => list[i].pid # q
    BY <2>1, RunningPidsFacts, Zenon
  <2>5. \A i \in 1 .. Len(list) : Own(list[i]) => list[i].state = "RUNNING"
    BY <1>1, OwnFacts, Zenon
  <2>6. OwnPidPinned'
    BY <2>1, <2>2, <2>3, <2>4, <2>5, SMTT(60) DEF Pinned, OwnPidPinned
  <2>7. NoStrayChild'
    BY <2>1, <2>2, <2>3, SMTT(60) DEF Pinned, NoStrayChild
  <2>8. TargetsTracked'
    BY <1>1, <2>1, <2>2, <2>3, RunningPidsFacts, SMTT(60) DEF Pinned, TargetsTracked
  <2>9. Adopted'
    BY <2>1, <2>2, <2>3, <2>4, SMTT(60) DEF Pinned, Adopted
  <2> QED
    BY <2>6, <2>7, <2>8, <2>9, Zenon DEF Pinned
<1>13. pc = "spawned" =>
         /\ cur \in 1 .. Len(list) /\ newpid \in Pids /\ st[newpid] # "free"
         /\ parent[newpid] = "manager" /\ runs[newpid] = list[cur].id
         /\ list[cur].state # "RUNNING"
         /\ \A i \in 1 .. Len(list) : Own(list[i]) => list[i].pid # newpid
  <2> SUFFICES ASSUME pc = "spawned"
               PROVE  /\ cur \in 1 .. Len(list) /\ newpid \in Pids /\ st[newpid] # "free"
                      /\ parent[newpid] = "manager" /\ runs[newpid] = list[cur].id
                      /\ list[cur].state # "RUNNING"
                      /\ \A i \in 1 .. Len(list) : Own(list[i]) => list[i].pid # newpid
    BY Zenon
  <2>1. /\ cur \in 1 .. Len(list) /\ newpid \in Pids /\ st[newpid] # "free"
        /\ parent[newpid] = "manager" /\ runs[newpid] = list[cur].id
        /\ list[cur].state # "RUNNING"
    BY <1>1, Zenon DEF LiveInv, ChildInHand, TypeOK
  <2>2. ASSUME NEW i \in 1 .. Len(list), Own(list[i]), list[i].pid = newpid PROVE FALSE
    <3>1. runs[newpid] = list[i].id
      BY <2>2, Zenon DEF Pinned, OwnPidPinned
    <3>2. i = cur
      BY <2>1, <3>1, ZenonT(60) DEF UniqueIds, Distinct
    <3> QED
      BY <1>1, <2>1, <2>2, <3>2, OwnFacts, ZenonT(60)
  <2> QED
    BY <2>1, <2>2, Zenon
<1>14. ASSUME StartFails PROVE Pinned'
  <2>1. /\ pc = "spawned" /\ pc' # "spawned" /\ UNCHANGED <<targets, parent, runs>>
        /\ st'[newpid] = "free" /\ \A p \in Pids \ {newpid} : st'[p] = st[p]
    BY <1>13, <1>14 DEF StartFails, Reaped, TypeOK
  <2>2. /\ Len(list') = Len(list)
        /\ \A i \in 1 .. Len(list) : i # cur => list'[i] = list[i]
        /\ list'[cur].state = list[cur].state
    BY <1>13, <1>14, <2>1, RecordUpdates, Zenon DEF StartFails
  <2>3. \A i \in 1 .. Len(list) : /\ Own(list'[i]) \/ list'[i].state = "RUNNING" => i # cur /\ list'[i] = list[i]
                                  /\ Own(list[i]) \/ list[i].state = "RUNNING" => i # cur /\ list'[i] = list[i]
    BY <1>1, <1>13, <2>1, <2>2, OwnFacts, Zenon
  <2>4. OwnPidPinned'
    BY <1>13, <2>1, <2>2, <2>3, SMTT(60) DEF Pinned, OwnPidPinned
  <2>5. NoStrayChild'
    BY <2>1, <2>2, <2>3, SMTT(60) DEF Pinned, NoStrayChild
  <2>6. TargetsTracked'
    BY <1>1, <2>1, <2>2, <2>3, RunningPidsFacts DEF Pinned, TargetsTracked
  <2>7. Adopted'
    BY <2>1, <2>2, <2>3, SMTT(60) DEF Pinned, Adopted
  <2> QED
    BY <2>4, <2>5, <2>6, <2>7, Zenon DEF Pinned
<1>15. ASSUME StartCommits \/ StartRollsBack PROVE Pinned'
  <2>1. /\ pc = "spawned" /\ pc' # "spawned" /\ UNCHANGED <<parent, runs>>
        /\ list' = Registered /\ targets' \subseteq targets \cup {newpid}
    BY <1>15, Zenon DEF StartCommits, StartRollsBack, kern
  <2>2. \A p \in Pids : st'[p] = "free" <=> st[p] = "free"
    BY <1>15, <1>13, SMTT(60) DEF StartCommits, StartRollsBack, Killed, kern, TypeOK
  <2>3. /\ Len(list') = Len(list)
        /\ \A i \in 1 .. Len(list) : i # cur => list'[i] = list[i]
        /\ Own(list'[cur]) /\ list'[cur].pid = newpid /\ list'[cur].id = list[cur].id
        /\ list'[cur].state = "RUNNING"
    BY <1>13, <2>1, RecordUpdates, ZenonT(60) DEF RecordInHand
  <2>4. \A i \in 1 .. Len(list) : Own(list[i]) \/ list[i].state = "RUNNING" => i # cur /\ list'[i] = list[i]
    BY <1>1, <1>13, <2>1, <2>3, OwnFacts, ZenonT(60)
  <2>5. OwnPidPinned'
    BY <1>13, <2>1, <2>2, <2>3, SMTT(60) DEF Pinned, OwnPidPinned
  <2>6. NoStrayChild'
    BY <1>13, <2>1, <2>2, <2>3, <2>4, SMTT(60) DEF Pinned, NoStrayChild
  <2>7. TargetsTracked'
    BY <1>1, <1>13, <2>1, <2>2, <2>3, <2>4, RunningPidsFacts DEF Pinned, TargetsTracked
  <2>8. Adopted'
    BY <1>13, <2>1, <2>2, <2>3, SMTT(60) DEF Pinned, Adopted
  <2> QED
    BY <2>5, <2>6, <2>7, <2>8 DEF Pinned
<1>16. ASSUME StopReap \/ FgReap PROVE Pinned'
  <2> DEFINE q == list[cur].pid
  <2>1. /\ pc \in {"reap", "fgwait"} /\ pc' # "spawned" /\ UNCHANGED <<parent, runs>>
        /\ cur \in 1 .. Len(list) /\ list[cur].state = "RUNNING"
        /\ targets' \subseteq targets /\ Waited(q)
        /\ list' = [list EXCEPT ![cur] = Stopped(@)]
        /\ q \in Pids /\ (pc = "reap" => q \notin targets')
        /\ pc = "fgwait" => st[q] # "free" /\ parent[q] = "manager"
    BY <1>1, <1>16, Zenon DEF StopReap, FgReap, StopReturns, RecordInHand, LiveInv, ChildInHand
  <2> HIDE DEF q
  <2>2. /\ Len(list') = Len(list)
        /\ \A i \in 1 .. Len(list) : i # cur => list'[i] = list[i]
        /\ list'[cur].state = "STOPPED"
    BY <2>1, RecordUpdates, ZenonT(60)
  <2>3. /\ \A p \in Pids \ {q} : st'[p] = st[p]
        /\ st'[q] = st[q] \/ st'[q] = "free"
        /\ parent[q] = "manager" => st'[q] = "free"
        /\ st'[q] # st[q] => parent[q] = "manager" /\ st[q] # "free"
    BY <2>1, SMTT(60) DEF Waited, Reaped, TypeOK
  <2>4. \A i \in 1 .. Len(list) : Own(list'[i]) \/ list'[i].state = "RUNNING" => i # cur /\ list'[i] = list[i]
    BY <1>1, <2>1, <2>2, OwnFacts, ZenonT(60)
  <2>5. \A i \in 1 .. Len(list) : Own(list[i]) /\ i # cur => list[i].pid # q
    <3> SUFFICES ASSUME NEW i \in 1 .. Len(list), Own(list[i]), i # cur, list[i].pid = q PROVE FALSE
      BY Zenon
    <3>1. st[q] # "free" /\ parent[q] = "manager"
      BY Zenon DEF Pinned, OwnPidPinned
    <3>2. ~Own(list[cur])
      BY <1>2, <2>1, Zenon DEF q
    <3> QED
      BY <2>1, <3>1, <3>2, Zenon DEF Pinned, Adopted, q
  <2>6. OwnPidPinned'
    BY <2>1, <2>2, <2>3, <2>4, <2>5, SMTT(60) DEF Pinned, OwnPidPinned
  <2>7. NoStrayChild'
    <3> SUFFICES ASSUME NEW p \in Pids, st'[p] # "free", parent'[p] = "manager"
                 PROVE  \E i \in 1 .. Len(list') : Own(list'[i]) /\ list'[i].pid = p
      BY Zenon DEF NoStrayChild
    <3>1. p # q /\ st[p] # "free" /\ parent[p] = "manager"
      BY <2>1, <2>3, Zenon
    <3>2. PICK i \in 1 .. Len(list) : Own(list[i]) /\ list[i].pid = p
      BY <2>1, <3>1, Zenon DEF Pinned, NoStrayChild
    <3> QED
      BY <2>2, <3>1, <3>2, Zenon DEF q
  <2>8. TargetsTracked'
    <3> SUFFICES ASSUME NEW p \in targets', st'[p] # "free" PROVE p \in RunningPids(list')
      BY Zenon DEF TargetsTracked
    <3>1. p \in Pids /\ p # q /\ st[p] # "free" /\ p \in targets
      BY <1>1, <2>1, <2>3, ZenonT(60)
    <3>2. PICK i \in 1 .. Len(list) : list[i].state = "RUNNING" /\ list[i].pid = p
      BY <3>1, RunningPidsFacts, Zenon DEF Pinned, TargetsTracked
    <3>3. list'[i] = list[i]
      BY <2>2, <3>1, <3>2, Zenon DEF q
    <3> QED
      BY <2>2, <3>1, <3>2, <3>3, RunningPidsFacts, SMTT(60)
  <2>9. Adopted'
    BY <2>1, <2>2, <2>3, <2>4, SMTT(60) DEF Pinned, Adopted
  <2> QED
    BY <2>6, <2>7, <2>8, <2>9 DEF Pinned
<1>17. ASSUME NEW q \in Pids, ReapedElsewhere(q) \/ ForeignSpawn(q) PROVE Pinned'
  <2>1. /\ UNCHANGED <<pc, newpid, list, targets>>
        /\ \A p \in Pids \ {q} : st'[p] = st[p] /\ parent'[p] = parent[p] /\ runs'[p] = runs[p]
        /\ st[q] = "free" \/ parent[q] # "manager"
        /\ st'[q] = "free" \/ parent'[q] # "manager"
        /\ st'[q] = "free" \/ q \notin targets
    BY <1>17, SMTT(60) DEF ReapedElsewhere, ForeignSpawn, Fresh, TypeOK, mgr
  <2>2. OwnPidPinned'
    BY <2>1, ZenonT(60) DEF Pinned, OwnPidPinned
  <2>3. NoStrayChild'
    BY <2>1, ZenonT(60) DEF Pinned, NoStrayChild
  <2>4. TargetsTracked'
    BY <1>1, <2>1, Zenon DEF Pinned, TargetsTracked
  <2>5. Adopted'
    BY <2>1 DEF Pinned, Adopted
  <2> QED
    BY <2>2, <2>3, <2>4, <2>5 DEF Pinned
<1>18. CASE UNCHANGED vars
  BY <1>5, <1>18, Zenon DEF vars, mgr
<1> QED
  BY <1>3, <1>4, <1>6, <1>7, <1>8, <1>9, <1>10, <1>11, <1>12, <1>14, <1>15, <1>16, <1>17,
     <1>18, <1>19, SMTT(60) DEF Next, Typed, Proceed, Kernel

\* The manager's own children are pinned from the start of the first manager on.
LEMMA OwnInvariant == Spec => []OwnInv
<1>1. Init => OwnInv
  BY DEF Init, OwnInv, OwnPidPinned, NoStrayChild, TargetsTracked, Adopted, RecordInHand
<1>2. TypeOK /\ TypeOK' /\ UniqueIds /\ LiveInv /\ OwnInv /\ [Next]_vars => OwnInv'
  <2> SUFFICES ASSUME TypeOK, TypeOK', UniqueIds, LiveInv, OwnInv, [Next]_vars PROVE OwnInv'
    BY Zenon
  <2>1. RecordInHand'
    BY InHandStep, Zenon DEF OwnInv
  <2>2. CASE ~PidReuse
    BY <2>1, <2>2, PinnedStep, Zenon DEF OwnInv, Pinned
  <2>3. CASE PidReuse
    BY <2>1, <2>3, ZenonT(60) DEF OwnInv, OwnPidPinned, NoStrayChild, TargetsTracked, Adopted
  <2> QED
    BY <2>2, <2>3, Zenon
<1> QED
  BY <1>1, <1>2, TypeCorrect, IdsUnique, LiveInvariant, PTL DEF Spec

\* As long as no pid named by a record is reused, a RUNNING record of this

\* manager holds the pid of its own child, which nobody has reaped: a signal sent
\* through a record never reaches another process.
THEOREM OwnPidsPinned == Spec => []OwnPidPinned
  BY OwnInvariant, PTL DEF OwnInv

\* Under the same condition no child is leaked: every one that is not reaped is

\* being started or named by a RUNNING record, whatever start, save, rollback or
\* foreground wait failed before.
THEOREM NoChildLeaks == Spec => []NoStrayChild
  BY OwnInvariant, PTL DEF OwnInv

\* Under the same condition the scheduler never holds a living pid that no

\* RUNNING record names.
THEOREM SchedulerTracked == Spec => []TargetsTracked
  BY OwnInvariant, PTL DEF OwnInv
=============================================================================
