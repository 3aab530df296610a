------------------------------ MODULE Manager ------------------------------
(***************************************************************************)
(* The container manager of container.c: the list of container records,    *)
(* the metadata file that mirrors it, the child processes it clones, reaps *)
(* and kills, and the set of pids it hands to the scheduler.               *)
(*                                                                         *)
(* The manager is one thread that executes CLI commands one after another. *)
(* pc says where it is inside a command: a step of this module runs from   *)
(* one system call another process can interfere with to the next one.     *)
(* Around it, processes exit, init reaps orphans, unrelated processes come *)
(* and go, and the manager itself may die at any point and be restarted.   *)
(*                                                                         *)
(* A container id "container-%04d" is its number.  The scheduler's array   *)
(* of targets is here the set of its elements; Scheduler.tla models it.    *)
(*                                                                         *)
(* A definition introduced by "Faulty:" is the one after it with a slip;   *)
(* it is used nowhere, and shows which property the slip would break.      *)
(***************************************************************************)
EXTENDS Integers, Sequences, FiniteSets

CONSTANTS
    Pids,      \* the pids the kernel hands out
    NoPid,     \* the -1 of a record without a process
    Shell,     \* the manager's own process group, as owner of the terminal
    MaxSeq,    \* bound: container numbers are created up to this one
    PidReuse   \* may a pid come back while some record still names it?

ASSUME ConstantsAssumption ==
    /\ NoPid \notin Pids
    /\ Shell \notin Pids
    /\ MaxSeq \in Nat
    /\ PidReuse \in BOOLEAN

VARIABLES
    pc,              \* where the manager is in the current command
    cur,             \* the Container pointer of that command, as a position
    mode,            \* "fg" run, "bg" runbg/start/stop, "exit" cleanup
    newpid,          \* the child between clone() and its registration
    list,            \* head .. tail
    next_sequence,
    disk,            \* containers.meta: what the last successful save wrote
    targets,         \* pids in the scheduler's target array
    thread_started,  \* the scheduler thread, which prunes targets, exists
    tty,             \* foreground process group of the terminal
    st,              \* kernel: state of every pid
    parent,          \* kernel: who can wait for it
    runs,            \* kernel: the container whose command it runs, 0 if none
    lost             \* history: processes whose registration a crash cut off, or
                     \* that only a file nobody can read names

mgr  == <<pc, cur, mode, newpid>>
kern == <<st, parent, runs>>
vars == <<mgr, list, next_sequence, disk, targets, thread_started, tty, kern, lost>>

----------------------------------------------------------------------------
States == {"CREATED", "RUNNING", "STOPPED"}

Ids == 1 .. MaxSeq

Container == [id: Ids, state: States, pid: Pids \cup {NoPid}, stack: BOOLEAN]

Record == [id: Ids, state: States, pid: Pids \cup {NoPid}]

\* The fields save_metadata writes: the child's stack is not one of them.
Saved(l) == [i \in 1 .. Len(l) |->
               [id |-> l[i].id, state |-> l[i].state, pid |-> l[i].pid]]

\* The two outcomes of save_metadata: the renamed file, or the old one.
SaveOk(l) == disk' = Saved(l)
SaveFails == disk' = disk

IsRunning(r) == r.state = "RUNNING" /\ r.pid # NoPid

\* kill(pid, 0) succeeds, or fails with EPERM: a zombie is still "alive".
is_pid_alive(pid) == pid # NoPid /\ st[pid] # "free"

\* Faulty: the stack is not freed, or nothing is recorded.
KeepsStack(r) == [r EXCEPT !.state = "STOPPED", !.pid = NoPid]
KeepsRecord(r) == r
Stopped(r) == [r EXCEPT !.state = "STOPPED", !.pid = NoPid, !.stack = FALSE]

\* find_container(id) is the record at position i: the first with its id.
Found(i) == /\ i \in 1 .. Len(list)
            /\ \A j \in 1 .. i - 1 : list[j].id # list[i].id

RunningPids(l) == {l[i].pid : i \in {j \in 1 .. Len(l) : IsRunning(l[j])}}

\* A pid the kernel may give to a new process.
Fresh(p) == /\ st[p] = "free"
            /\ \/ PidReuse
               \/ p \notin RunningPids(list) \cup RunningPids(disk) \cup targets

----------------------------------------------------------------------------
(* poll_states: waitpid(WNOHANG) on every RUNNING record. *)

\* The child is a zombie of ours, waitpid returns it.
Reapable(r) == IsRunning(r) /\ parent[r.pid] = "manager" /\ st[r.pid] = "zombie"

\* waitpid says ECHILD and the pid does not exist.
\* Faulty: a zombie of init counts as gone.
VanishedZombie(r) == IsRunning(r) /\ st[r.pid] \in {"free", "zombie"}
Vanished(r) == IsRunning(r) /\ ~is_pid_alive(r.pid)

sync_container_state(r) == IF Reapable(r) \/ Vanished(r) THEN Stopped(r) ELSE r

poll_states ==
    LET polled == [i \in 1 .. Len(list) |-> sync_container_state(list[i])]
        reaped == {list[i].pid : i \in {j \in 1 .. Len(list) : Reapable(list[j])}}
    IN  /\ list' = polled
        /\ st' = [p \in Pids |-> IF p \in reaped THEN "free" ELSE st[p]]
        /\ targets' = targets \ reaped
        /\ \/ SaveFails
           \/ polled # list /\ SaveOk(polled)
        /\ UNCHANGED <<parent, runs>>

\* A living process of some container, whoever its parent is by now.
Live(p) == st[p] = "run" /\ parent[p] # "foreign"

----------------------------------------------------------------------------
(* container_manager_init *)

\* Faulty: nothing survives a restart.
NeverAdopted(r) == [id |-> r.id, state |-> "STOPPED", pid |-> NoPid, stack |-> FALSE]
Reconciled(r) ==
    LET dead == r.state = "RUNNING" /\ ~is_pid_alive(r.pid)
    IN  [id    |-> r.id,
         state |-> IF dead THEN "STOPPED" ELSE r.state,
         pid   |-> IF dead THEN NoPid ELSE r.pid,
         stack |-> FALSE]

\* The value update_next_sequence leaves after it has seen every record.
\* Faulty: > instead of >=.
update_off_by_one(n) ==
    /\ \A i \in 1 .. Len(disk) : disk[i].id <= n
    /\ n > 1 => \E i \in 1 .. Len(disk) : disk[i].id = n
update_next_sequence(n) ==
    /\ \A i \in 1 .. Len(disk) : disk[i].id < n
    /\ n > 1 => \E i \in 1 .. Len(disk) : disk[i].id = n - 1

Restore ==
    /\ pc = "down"
    /\ list' = [i \in 1 .. Len(disk) |-> Reconciled(disk[i])]
    /\ next_sequence' \in 1 .. MaxSeq + 1
    /\ update_next_sequence(next_sequence')
    /\ pc' = "init"
    /\ UNCHANGED <<cur, mode, newpid, disk, targets, thread_started, tty, kern, lost>>

\* Any failure of fopen counts as no file: the manager begins with nothing, and
\* its next save replaces what it could not read.
RestoreNothing ==
    /\ pc = "down" /\ disk # << >>
    /\ list' = << >> /\ disk' = << >>
    /\ lost' = lost \cup {p \in Pids : Live(p)}
    /\ next_sequence' = 1
    /\ pc' = "idle"
    /\ UNCHANGED <<cur, mode, newpid, targets, thread_started, tty, kern>>

\* Its closing poll; also what list, stats and stats --watch do to the state.
Poll ==
    /\ pc \in {"init", "idle"}
    /\ poll_states
    /\ pc' = "idle"
    /\ UNCHANGED <<cur, mode, newpid, next_sequence, thread_started, tty, lost>>

----------------------------------------------------------------------------
(* container_create, alone or as the first half of run and runbg *)

\* prepare_rootfs or save_metadata failed: only the number is consumed.
CreateFails ==
    /\ pc = "idle"
    /\ next_sequence <= MaxSeq
    /\ next_sequence' = next_sequence + 1
    /\ UNCHANGED <<mgr, list, disk, targets, thread_started, tty, kern, lost>>

Created == [id |-> next_sequence, state |-> "CREATED", pid |-> NoPid, stack |-> FALSE]

\* m = "none": create.  m = "fg": run.  m = "bg": runbg.
Create(m) ==
    /\ pc = "idle"
    /\ next_sequence <= MaxSeq
    /\ next_sequence' = next_sequence + 1
    /\ list' = Append(list, Created)
    /\ SaveOk(list')
    /\ IF m = "none"
       THEN UNCHANGED mgr
       ELSE /\ pc' = "run"
            /\ cur' = Len(list) + 1
            /\ mode' = m
            /\ UNCHANGED newpid
    /\ UNCHANGED <<targets, thread_started, tty, kern, lost>>

----------------------------------------------------------------------------
(* start_container_by_id, stop_container_process, container_delete *)

\* start, stop and delete poll, then look the id up.
Command(op, i) ==
    /\ pc = "idle"
    /\ Found(i)
    /\ poll_states
    /\ pc' = op
    /\ cur' = i
    /\ mode' = "bg"
    /\ UNCHANGED <<newpid, next_sequence, thread_started, tty, lost>>

\* run and runbg look up the container they just created.
RunPoll ==
    /\ pc = "run"
    /\ poll_states
    /\ pc' = "start"
    /\ UNCHANGED <<cur, mode, newpid, next_sequence, thread_started, tty, lost>>

\* Already running, no memory for the stack, or clone() failed: nothing is kept.
StartRefused ==
    /\ pc = "start"
    /\ pc' = "idle"
    /\ UNCHANGED <<cur, mode, newpid, list, next_sequence, disk, targets,
                   thread_started, tty, kern, lost>>

\* The stack is allocated and namespace_start_container has cloned a child.
StartSpawn(p) ==
    /\ pc = "start"
    /\ list[cur].state # "RUNNING"
    /\ Fresh(p)
    /\ list' = [list EXCEPT ![cur].stack = TRUE]
    /\ st' = [st EXCEPT ![p] = "run"]
    /\ parent' = [parent EXCEPT ![p] = "manager"]
    /\ runs' = [runs EXCEPT ![p] = list[cur].id]
    /\ newpid' = p
    /\ pc' = "spawned"
    /\ UNCHANGED <<cur, mode, next_sequence, disk, targets, thread_started, tty, lost>>

\* waitpid has returned p.  Faulty: nobody waits for it.
Unreaped(p) == [st EXCEPT ![p] = "zombie"]
Reaped(p) == [st EXCEPT ![p] = "free"]

\* namespace_start_container reports failure: it has reaped the child.
StartFails ==
    /\ pc = "spawned"
    /\ list' = [list EXCEPT ![cur].stack = FALSE]
    /\ st' = Reaped(newpid)
    /\ newpid' = NoPid
    /\ pc' = "idle"
    /\ UNCHANGED <<cur, mode, next_sequence, disk, targets, thread_started, tty,
                   parent, runs, lost>>

\* A SIGKILL makes a living process dying; it does nothing to a zombie.
\* Faulty: the signal is not sent.
NotKilled(p) == st
Killed(p) == [st EXCEPT ![p] = IF @ = "run" THEN "dying" ELSE @]

Registered == [list EXCEPT ![cur].pid = newpid, ![cur].state = "RUNNING"]

\* Registered and saved; run then takes the terminal and waits (tcsetpgrp may
\* fail), runbg and start make the process a scheduling target.
StartCommits ==
    /\ pc = "spawned"
    /\ list' = Registered
    /\ SaveOk(list')
    /\ newpid' = NoPid
    /\ IF mode = "fg"
       THEN pc' = "fgwait" /\ tty' \in {tty, newpid} /\ UNCHANGED targets
       ELSE pc' = "idle" /\ targets' = targets \cup {newpid} /\ UNCHANGED tty
    /\ UNCHANGED <<cur, mode, next_sequence, thread_started, kern, lost>>

\* Registered but not saved: stop_container_process rolls the start back.
StartRollsBack ==
    /\ pc = "spawned"
    /\ list' = Registered
    /\ SaveFails
    /\ st' = Killed(newpid)
    /\ newpid' = NoPid
    /\ pc' = "reap"
    /\ mode' = "bg"
    /\ UNCHANGED <<cur, next_sequence, targets, thread_started, tty, parent, runs, lost>>

\* Where the manager goes when stop_container_process returns.
StopReturns ==
    IF mode = "exit" THEN pc' = "cleanup" /\ cur' = cur + 1
                     ELSE pc' = "idle" /\ UNCHANGED cur

\* Not running, or kill() refused (EPERM) because the pid is someone else's.
StopRefused ==
    /\ pc = "stop"
    /\ IsRunning(list[cur]) => parent[list[cur].pid] = "foreign"
    /\ StopReturns
    /\ UNCHANGED <<mode, newpid, list, next_sequence, disk, targets,
                   thread_started, tty, kern, lost>>

\* kill(pid, SIGKILL) succeeds, or fails with ESRCH.
StopKill ==
    /\ pc = "stop"
    /\ IsRunning(list[cur])
    /\ st' = Killed(list[cur].pid)
    /\ pc' = "reap"
    /\ UNCHANGED <<cur, mode, newpid, list, next_sequence, disk, targets,
                   thread_started, tty, parent, runs, lost>>

\* waitpid returns the child once it is dead, or ECHILD at once.
Waited(p) == \/ /\ parent[p] = "manager"
                /\ st[p] = "zombie"
                /\ st' = Reaped(p)
             \/ /\ st[p] = "free" \/ parent[p] # "manager"
                /\ UNCHANGED st

StopReap ==
    /\ pc = "reap"
    /\ Waited(list[cur].pid)
    /\ targets' = targets \ {list[cur].pid}
    /\ list' = [list EXCEPT ![cur] = Stopped(@)]
    /\ SaveOk(list') \/ SaveFails
    /\ StopReturns
    /\ UNCHANGED <<mode, newpid, next_sequence, thread_started, tty, parent, runs, lost>>

\* The terminal goes back to the shell.  Faulty: it does not.
KeepsTerminal == UNCHANGED tty
TerminalBack == tty' = Shell

\* wait_for_container_process, from the return of its waitpid.
FgReap ==
    /\ pc = "fgwait"
    /\ Waited(list[cur].pid)
    /\ TerminalBack
    /\ list' = [list EXCEPT ![cur] = Stopped(@)]
    /\ SaveOk(list') \/ SaveFails
    /\ pc' = "idle"
    /\ UNCHANGED <<cur, mode, newpid, next_sequence, targets, thread_started,
                   parent, runs, lost>>

\* The list without its i-th record.
remove_container(l, i) == SubSeq(l, 1, i - 1) \o SubSeq(l, i + 1, Len(l))

\* container_delete after its poll; a failed save puts the record at the tail.
Delete ==
    /\ pc = "delete"
    /\ \/ list[cur].state = "RUNNING" /\ SaveFails /\ UNCHANGED list
       \/ /\ list[cur].state # "RUNNING"
          /\ list' = remove_container(list, cur)
          /\ SaveOk(list')
       \/ /\ list[cur].state # "RUNNING"
          /\ list' = Append(remove_container(list, cur), list[cur])
          /\ SaveFails
    /\ pc' = "idle"
    /\ UNCHANGED <<cur, mode, newpid, next_sequence, targets, thread_started, tty, kern, lost>>

----------------------------------------------------------------------------
(* The scheduler's hooks *)

\* sched on and sched off both rebuild the targets; on first starts the thread.
SchedRefresh(on) ==
    /\ pc = "idle"
    /\ thread_started' = (thread_started \/ on)
    /\ targets' = RunningPids(list)
    /\ UNCHANGED <<mgr, list, next_sequence, disk, tty, kern, lost>>

\* The scheduler thread drops the targets that no longer exist.
SchedPrune ==
    /\ thread_started
    /\ targets' = {p \in targets : is_pid_alive(p)}
    /\ targets' # targets
    /\ UNCHANGED <<mgr, list, next_sequence, disk, thread_started, tty, kern, lost>>

----------------------------------------------------------------------------
(* cleanup_all_containers, and the other way to stop: dying *)

CleanupBegin ==
    /\ pc = "idle"
    /\ poll_states
    /\ pc' = "cleanup"
    /\ cur' = 1
    /\ mode' = "exit"
    /\ UNCHANGED <<newpid, next_sequence, thread_started, tty, lost>>

\* Faulty: containers of an earlier manager are left alone.
MustStopOwn(r) == r.state = "RUNNING" /\ r.stack
MustStop(r) == r.state = "RUNNING"

CleanupStep ==
    /\ pc = "cleanup"
    /\ cur <= Len(list)
    /\ IF MustStop(list[cur])
       THEN pc' = "stop" /\ UNCHANGED cur
       ELSE cur' = cur + 1 /\ UNCHANGED pc
    /\ UNCHANGED <<mode, newpid, list, next_sequence, disk, targets,
                   thread_started, tty, kern, lost>>

\* The manager's memory is gone, init adopts its children.
Gone ==
    /\ pc' = "down"
    /\ cur' = 0
    /\ mode' = "bg"
    /\ newpid' = NoPid
    /\ list' = << >>
    /\ next_sequence' = 1
    /\ targets' = {}
    /\ thread_started' = FALSE
    /\ tty' = Shell
    /\ parent' = [p \in Pids |-> IF parent[p] = "manager" THEN "init" ELSE parent[p]]
    /\ UNCHANGED <<st, runs>>

CleanupEnd ==
    /\ pc = "cleanup"
    /\ cur > Len(list)
    /\ SaveOk(list) \/ SaveFails
    /\ Gone
    /\ UNCHANGED lost

Crash ==
    /\ pc # "down"
    /\ Gone
    /\ lost' = IF pc = "spawned" THEN lost \cup {newpid} ELSE lost
    /\ SaveFails

----------------------------------------------------------------------------
(* The kernel *)

Exit(p) ==
    /\ st[p] \in {"run", "dying"}
    /\ st' = [st EXCEPT ![p] = "zombie"]
    /\ UNCHANGED <<mgr, list, next_sequence, disk, targets, thread_started, tty,
                   parent, runs, lost>>

\* A parent other than the manager reaps its dead child.
ReapedElsewhere(p) ==
    /\ st[p] = "zombie"
    /\ parent[p] # "manager"
    /\ st' = [st EXCEPT ![p] = "free"]
    /\ lost' = lost \ {p}
    /\ UNCHANGED <<mgr, list, next_sequence, disk, targets, thread_started, tty,
                   parent, runs>>

\* A process that has nothing to do with the manager.
ForeignSpawn(p) ==
    /\ Fresh(p)
    /\ st' = [st EXCEPT ![p] = "run"]
    /\ parent' = [parent EXCEPT ![p] = "foreign"]
    /\ runs' = [runs EXCEPT ![p] = 0]
    /\ UNCHANGED <<mgr, list, next_sequence, disk, targets, thread_started, tty, lost>>

----------------------------------------------------------------------------
Init ==
    /\ pc = "down" /\ cur = 0 /\ mode = "bg" /\ newpid = NoPid
    /\ list = << >> /\ next_sequence = 1 /\ disk = << >>
    /\ targets = {} /\ thread_started = FALSE /\ tty = Shell
    /\ st = [p \in Pids |-> "free"]
    /\ parent = [p \in Pids |-> "init"]
    /\ runs = [p \in Pids |-> 0]
    /\ lost = {}

\* What the manager does by itself once a command has been typed.
Proceed ==
    \/ RunPoll \/ StartRefused \/ StartFails \/ StartCommits \/ StartRollsBack
    \/ (\E p \in Pids : StartSpawn(p))
    \/ StopRefused \/ StopKill \/ StopReap \/ FgReap \/ Delete
    \/ CleanupStep \/ CleanupEnd

\* What the user types.
Typed ==
    \/ Poll \/ CreateFails \/ CleanupBegin
    \/ \E m \in {"none", "fg", "bg"} : Create(m)
    \/ \E op \in {"start", "stop", "delete"}, i \in 1 .. Len(list) : Command(op, i)
    \/ \E on \in BOOLEAN : SchedRefresh(on)

Kernel == \E p \in Pids : Exit(p) \/ ReapedElsewhere(p) \/ ForeignSpawn(p)

Next == Restore \/ RestoreNothing \/ Typed \/ Proceed \/ SchedPrune \/ Crash \/ Kernel

Spec == Init /\ [][Next]_vars

\* A start that returns, a stop that returns and an exit that completes need
\* only that the manager runs and that a killed process dies.
FairSpec == /\ Spec
            /\ WF_vars(Proceed)
            /\ \A p \in Pids : WF_vars(Exit(p) /\ st[p] = "dying")

----------------------------------------------------------------------------
(* Properties *)

TypeOK ==
    /\ pc \in {"down", "init", "idle", "run", "start", "spawned", "fgwait",
              "stop", "reap", "delete", "cleanup"}
    /\ mode \in {"fg", "bg", "exit"}
    /\ list \in Seq(Container)
    /\ disk \in Seq(Record)
    /\ cur \in 0 .. Len(list) + 1
    /\ (pc = "down" => cur = 0) /\ (pc = "cleanup" => cur # 0)
    /\ pc \in {"run", "start", "spawned", "fgwait", "stop", "reap", "delete"}
          => cur \in 1 .. Len(list)
    /\ next_sequence \in 1 .. MaxSeq + 1
    /\ newpid \in Pids \cup {NoPid}
    /\ pc = "spawned" => newpid \in Pids
    /\ targets \in SUBSET Pids
    /\ thread_started \in BOOLEAN
    /\ tty \in Pids \cup {Shell}
    /\ st \in [Pids -> {"free", "run", "dying", "zombie"}]
    /\ parent \in [Pids -> {"manager", "init", "foreign"}]
    /\ runs \in [Pids -> Ids \cup {0}]
    /\ lost \in SUBSET Pids

Distinct(l) == \A i, j \in 1 .. Len(l) : l[i].id = l[j].id => i = j

\* Container ids are unique, in memory and in the metadata file, and no id
\* create hands out next is on either: next_sequence survives failed creates,
\* failed saves, deletions and restarts (update_next_sequence).  The id of a
\* deleted container may come back after a restart.
UniqueIds ==
    /\ Distinct(list)
    /\ Distinct(disk)
    /\ pc # "down" => /\ \A i \in 1 .. Len(list) : list[i].id < next_sequence
                      /\ \A i \in 1 .. Len(disk) : disk[i].id < next_sequence

\* The record of a container this manager started itself: clone() needed a stack.
Own(r) == r.state = "RUNNING" /\ r.stack

\* A record the manager started itself holds the pid of its own, not yet
\* reaped child, so every signal sent through it reaches that container:
\* no path reaps the child and leaves the record RUNNING.
OwnPidPinned ==
    ~PidReuse =>
      \A i \in 1 .. Len(list) :
        Own(list[i]) =>
          /\ list[i].pid \in Pids
          /\ st[list[i].pid] # "free"
          /\ parent[list[i].pid] = "manager"
          /\ runs[list[i].pid] = list[i].id

\* Every child the manager has not reaped is named by a RUNNING record of its
\* own or is the one being started: no child, and no zombie, is ever leaked by
\* a failed start, a failed save, a rollback or a foreground wait.
NoStrayChild ==
    ~PidReuse =>
      \A p \in Pids :
        st[p] # "free" /\ parent[p] = "manager" =>
          \/ pc = "spawned" /\ newpid = p
          \/ \E i \in 1 .. Len(list) : Own(list[i]) /\ list[i].pid = p

\* The stack given to clone() is held exactly as long as it is in use: by a
\* record being started and by RUNNING records of this manager's children.
StackHeld ==
    \A i \in 1 .. Len(list) :
      list[i].stack => \/ list[i].state = "RUNNING"
                       \/ pc = "spawned" /\ cur = i

\* A RUNNING record names p under the id of the container p runs.
Names(l, p) ==
    \E i \in 1 .. Len(l) : l[i].state = "RUNNING" /\ l[i].pid = p /\ l[i].id = runs[p]

\* Crash safety: whenever the manager dies, the metadata file names every
\* living container process as RUNNING under its id, whatever saves failed
\* before.  The exceptions are the window between clone() and the first save,
\* and what a file named that an earlier manager could not open.
LiveOnDisk ==
    \A p \in Pids : Live(p) => \/ Names(disk, p)
                               \/ pc = "spawned" /\ newpid = p
                               \/ p \in lost

\* The user can always reach what runs: at the prompt, every living container
\* process has a RUNNING record in memory, restarts that can open the metadata
\* file included.
LiveAtPrompt ==
    pc = "idle" => \A p \in Pids : Live(p) => Names(list, p) \/ p \in lost

\* The scheduler is never left with a living pid the manager no longer tracks:
\* a target without a RUNNING record has ceased to exist (the recovery branch
\* of sync_container_state forgets the record but not the target).
TargetsTracked ==
    ~PidReuse => \A p \in targets : p \in RunningPids(list) \/ st[p] = "free"

\* The terminal belongs to a container only while the manager waits for it.
TtyReturned == tty # Shell => pc = "fgwait" /\ tty = list[cur].pid

\* The exit command kills every container, also those started by an earlier
\* manager, also when saves fail: none runs on when the list is freed, but for
\* those no manager has had a record of since a crash or an unreadable file.
CleanExit == [][CleanupEnd => \A p \in Pids : Live(p) => p \in lost]_vars

\* What LiveOnDisk says of the file holds in memory, inside every command.
LiveInMemory ==
    pc # "down" =>
      \A p \in Pids : Live(p) => \/ Names(list, p)
                                 \/ pc = "spawned" /\ newpid = p
                                 \/ p \in lost

\* The child being started, waited for or killed is what the command takes it for.
ChildInHand ==
    /\ pc = "spawned" => /\ st[newpid] # "free"
                         /\ parent[newpid] = "manager"
                         /\ runs[newpid] = list[cur].id
                         /\ list[cur].state # "RUNNING"
    /\ pc = "fgwait" => /\ list[cur].pid \in Pids
                        /\ st[list[cur].pid] # "free"
                        /\ parent[list[cur].pid] = "manager"
    /\ pc = "reap" => list[cur].pid \in Pids /\ ~Live(list[cur].pid)

\* The records cleanup_all_containers has passed name nothing that lives.
Swept ==
    /\ pc = "cleanup" => mode = "exit"
    /\ mode = "exit" /\ pc \in {"cleanup", "stop", "reap"} =>
         \A p \in Pids, i \in 1 .. Len(list) :
           i < cur /\ list[i].state = "RUNNING" /\ list[i].pid = p => ~Live(p)

\* Why LiveOnDisk, LiveAtPrompt and CleanExit hold: inductive together.
LiveInv == LiveOnDisk /\ LiveInMemory /\ ChildInHand /\ Swept

\* A RUNNING record of an earlier manager names no child of this one.
Adopted ==
    ~PidReuse =>
      \A i \in 1 .. Len(list) :
        list[i].state = "RUNNING" /\ ~Own(list[i]) =>
          /\ list[i].pid \in Pids
          /\ st[list[i].pid] = "free" \/ parent[list[i].pid] # "manager"

\* The record in hand keeps its stack from clone() to its registration and is
\* RUNNING while its process is waited for; a dead manager has no records.
RecordInHand ==
    /\ pc = "down" => list = << >>
    /\ pc = "spawned" => list[cur].stack
    /\ pc \in {"reap", "fgwait"} => list[cur].state = "RUNNING"

\* Why OwnPidPinned, NoStrayChild and TargetsTracked hold: inductive together
\* with UniqueIds and LiveInv.
OwnInv == OwnPidPinned /\ NoStrayChild /\ TargetsTracked /\ Adopted /\ RecordInHand

\* stop_container_process returns: its blocking waitpid is always answered.
StopReturnsEventually == pc = "reap" ~> pc # "reap"

\* Once exit was typed, the manager ends.
CleanupTerminates == pc = "cleanup" ~> pc = "down"
=============================================================================
