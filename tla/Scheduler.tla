----------------------------- MODULE Scheduler -----------------------------
(***************************************************************************)
(* The round-robin scheduler of scheduler.c: a thread that pauses and      *)
(* resumes container processes with SIGSTOP and SIGCONT, and the main      *)
(* thread, whose CLI commands edit the scheduler's state under its mutex   *)
(* and send the same signals outside it (container_scheduler_refresh_      *)
(* targets).                                                               *)
(*                                                                         *)
(* A critical section of g_state.mutex is one step, and so is each system  *)
(* call.  A command of the main thread is the queue todo of the calls it   *)
(* still has to make, so the scheduler thread and the kernel interleave    *)
(* with every one of them.  Sleeping takes any time: the slice length is   *)
(* not modelled.  Positions count from 1 here, current_index from 0.       *)
(***************************************************************************)
EXTENDS Integers, Sequences, FiniteSets

CONSTANTS
    Pids,            \* the pids of container processes
    NoPid,           \* a pid variable that holds none
    InitialCapacity  \* first size of the target array, 8 in the code

ASSUME ConstantsAssumption ==
    /\ NoPid \notin Pids
    /\ InitialCapacity \in Nat \ {0}

VARIABLES
    enabled, targets, target_capacity, current_index, \* g_state; target_count
    thread_started, stop_requested,                   \*   is Len(targets)
    tpc,        \* where the scheduler thread is
    current,    \* its local variables, read under the mutex and
    next,       \*   used after it has been released
    running,    \* main thread: pids of the RUNNING records, in list order
    todo,       \* main thread: the calls the current command has yet to make
    st          \* kernel: state of every pid

array == <<targets, target_capacity, current_index>>
flags == <<thread_started, stop_requested>>
thread == <<tpc, current, next>>
main == <<running, todo>>
vars == <<enabled, array, flags, thread, main, st>>

----------------------------------------------------------------------------
Call(op, p) == [op |-> op, pid |-> p]

Ops == {"start", "enable", "disable", "clear", "add", "remove", "stop", "cont",
        "sync", "spawn_fg", "spawn_bg", "kill", "wait", "stop_thread", "join", "end"}

Calls(op, pids) == [i \in 1 .. Len(pids) |-> Call(op, pids[i])]

Tracked(p) == \E i \in 1 .. Len(targets) : targets[i] = p

\* SIGSTOP and SIGCONT reach living processes only.  Faulty: not sent.
Ignored(p) == st
Paused(p) == [st EXCEPT ![p] = IF @ = "run" THEN "stop" ELSE @]
Resumed(p) == [st EXCEPT ![p] = IF @ = "stop" THEN "run" ELSE @]

\* The pid of a new process: not one the thread has just read.
Fresh(p) == st[p] = "free" /\ p \notin {current, next} /\ ~Tracked(p)

\* current_index after target_count became n.  Faulty: left as it is.
Unwrapped(n) == current_index
Wrapped(n) == IF current_index >= n THEN 0 ELSE current_index

----------------------------------------------------------------------------
(* The scheduler thread *)

\* prune_dead_locked: keep, in order, the targets that exist (zombies do).
\* f lists their positions.
prune_dead_locked(n, f) ==
    /\ \A j, k \in 1 .. n : j < k => f[j] < f[k]
    /\ \A i \in 1 .. Len(targets) :
         st[targets[i]] # "free" <=> \E k \in 1 .. n : f[k] = i
    /\ targets' = [k \in 1 .. n |-> targets[f[k]]]

\* No rotation this round.  Faulty: a single target is rotated with itself.
NothingAlone(n) == ~enabled \/ n < 1
Nothing(n) == ~enabled \/ n < 2

\* The index after this one.  Faulty: only two targets take turns.
TwoByTwo(n) == (Wrapped(n) + 1) % 2
Rotated(n) == (Wrapped(n) + 1) % n

\* The critical section of one round.
ThreadRound ==
    /\ tpc = "lock"
    /\ ~stop_requested
    /\ \E n \in 0 .. Len(targets) : \E f \in [1 .. n -> 1 .. Len(targets)] :
         /\ prune_dead_locked(n, f)
         /\ IF Nothing(n)
            THEN /\ current_index' = Wrapped(n)
                 /\ UNCHANGED thread
            ELSE /\ current_index' = Rotated(n)
                 /\ current' = targets'[Wrapped(n) + 1]
                 /\ next' = targets'[current_index' + 1]
                 /\ tpc' = "kill_stop"
    /\ UNCHANGED <<enabled, target_capacity, flags, main, st>>

ThreadExit ==
    /\ tpc = "lock"
    /\ stop_requested
    /\ tpc' = "exited"
    /\ UNCHANGED <<enabled, array, flags, current, next, main, st>>

ThreadStops ==
    /\ tpc = "kill_stop"
    /\ st' = Paused(current)
    /\ tpc' = "kill_cont"
    /\ UNCHANGED <<enabled, array, flags, current, next, main>>

\* SIGCONT, then sleep for the slice and lock again: the locals are dead.
ThreadConts ==
    /\ tpc = "kill_cont"
    /\ st' = Resumed(next)
    /\ tpc' = "lock"
    /\ current' = NoPid
    /\ next' = NoPid
    /\ UNCHANGED <<enabled, array, flags, main>>

----------------------------------------------------------------------------
(* The calls of the main thread *)

Doing(op) == todo # << >> /\ Head(todo).op = op
Arg == Head(todo).pid
Return == todo' = Tail(todo)
Goto(calls) == todo' = calls \o Tail(todo)

\* scheduler_start; the rest of sched on is skipped if pthread_create fails.
scheduler_start ==
    /\ Doing("start")
    /\ \/ /\ thread_started
          /\ Return
          /\ UNCHANGED <<flags, thread>>
       \/ /\ ~thread_started
          /\ thread_started' = TRUE
          /\ stop_requested' = FALSE
          /\ tpc' = "lock"
          /\ Return
          /\ UNCHANGED <<current, next>>
       \/ /\ ~thread_started
          /\ stop_requested' = FALSE
          /\ todo' = << >>
          /\ UNCHANGED <<thread_started, thread>>
    /\ UNCHANGED <<enabled, array, running, st>>

scheduler_set_enabled ==
    /\ Doing("enable") \/ Doing("disable")
    /\ enabled' = Doing("enable")
    /\ Return
    /\ UNCHANGED <<array, flags, thread, running, st>>

scheduler_clear_targets ==
    /\ Doing("clear")
    /\ targets' = << >>
    /\ current_index' = 0
    /\ Return
    /\ UNCHANGED <<enabled, target_capacity, flags, thread, running, st>>

\* ensure_capacity_locked, for one more target than fits.
Grown == IF target_capacity = 0 THEN InitialCapacity ELSE 2 * target_capacity

\* No duplicates; a full array is doubled, and if realloc fails (ENOMEM) the
\* pid is not added and the caller ignores it.
scheduler_add_target ==
    /\ Doing("add")
    /\ \/ Tracked(Arg) /\ UNCHANGED <<targets, target_capacity>>
       \/ /\ ~Tracked(Arg)
          /\ Len(targets) < target_capacity
          /\ targets' = Append(targets, Arg)
          /\ UNCHANGED target_capacity
       \/ /\ ~Tracked(Arg)
          /\ Len(targets) >= target_capacity
          /\ \/ /\ target_capacity' = Grown
                /\ targets' = Append(targets, Arg)
             \/ UNCHANGED <<targets, target_capacity>>
    /\ Return
    /\ UNCHANGED <<enabled, current_index, flags, thread, running, st>>

\* The last target moves into the hole.
scheduler_remove_target ==
    /\ Doing("remove")
    /\ \/ /\ \E i \in 1 .. Len(targets) :
               /\ targets[i] = Arg
               /\ \A j \in 1 .. i - 1 : targets[j] # Arg
               /\ targets' = [j \in 1 .. Len(targets) - 1 |->
                                IF j = i THEN targets[Len(targets)] ELSE targets[j]]
          /\ current_index' = Wrapped(Len(targets) - 1)
       \/ /\ ~Tracked(Arg)
          /\ current_index' = Wrapped(Len(targets))
          /\ UNCHANGED targets
    /\ Return
    /\ UNCHANGED <<enabled, target_capacity, flags, thread, running, st>>

\* kill(pid, SIGSTOP) and kill(pid, SIGCONT) of the refresh.
Signal ==
    /\ \/ Doing("stop") /\ st' = Paused(Arg)
       \/ Doing("cont") /\ st' = Resumed(Arg)
    /\ Return
    /\ UNCHANGED <<enabled, array, flags, thread, running>>

\* The list of the manager without its k-th pid, and with p in the k-th place.
RemoveAt(l, k) == SubSeq(l, 1, k - 1) \o SubSeq(l, k + 1, Len(l))
InsertAt(l, k, p) == SubSeq(l, 1, k - 1) \o <<p>> \o SubSeq(l, k, Len(l))

\* waitpid returned the zombie p: its record is RUNNING no longer.
Reap(p) ==
    /\ st[p] = "zombie"
    /\ st' = [st EXCEPT ![p] = "free"]
    /\ \E i \in 1 .. Len(running) : running[i] = p /\ running' = RemoveAt(running, i)

\* Faulty: the target is kept.
KeepTarget(p) == << >>
DropTarget(p) == <<Call("remove", p)>>

\* sync_container_state: a reaped child is then removed from the targets.
Sync ==
    /\ Doing("sync")
    /\ \/ Reap(Arg) /\ Goto(DropTarget(Arg))
       \/ st[Arg] # "zombie" /\ Return /\ UNCHANGED <<running, st>>
    /\ UNCHANGED <<enabled, array, flags, thread>>

\* start_container_by_id once the child runs: a restarted container keeps its
\* place in the list.  run waits for it, start and runbg make it a target.
Spawn ==
    /\ Doing("spawn_fg") \/ Doing("spawn_bg")
    /\ \/ \E p \in Pids, k \in 1 .. Len(running) + 1 :
            /\ Fresh(p)
            /\ st' = [st EXCEPT ![p] = "run"]
            /\ running' = InsertAt(running, k, p)
            /\ Goto(<<Call(IF Doing("spawn_fg") THEN "wait" ELSE "add", p)>>)
       \/ Return /\ UNCHANGED <<running, st>>
    /\ UNCHANGED <<enabled, array, flags, thread>>

\* stop_container_process: nothing if the poll found the container dead.
Kill ==
    /\ Doing("kill")
    /\ IF \E i \in 1 .. Len(running) : running[i] = Arg
       THEN /\ st' = [st EXCEPT ![Arg] = "zombie"]
            /\ Goto(<<Call("wait", Arg), Call("remove", Arg)>>)
       ELSE Return /\ UNCHANGED st
    /\ UNCHANGED <<enabled, array, flags, thread, running>>

\* The blocking waitpid of stop and of run.
Wait ==
    /\ Doing("wait")
    /\ Reap(Arg)
    /\ Return
    /\ UNCHANGED <<enabled, array, flags, thread>>

\* Faulty: the thread is not told.
Untold == UNCHANGED stop_requested
Told == stop_requested' = (stop_requested \/ thread_started)

\* scheduler_stop up to pthread_join ...
StopThread ==
    /\ Doing("stop_thread")
    /\ Told
    /\ IF thread_started THEN Goto(<<Call("join", NoPid)>>) ELSE Return
    /\ UNCHANGED <<enabled, array, thread_started, thread, running, st>>

\* ... and from its return.
Join ==
    /\ Doing("join")
    /\ tpc = "exited"
    /\ tpc' = "none"
    /\ thread_started' = FALSE
    /\ stop_requested' = FALSE
    /\ Return
    /\ UNCHANGED <<enabled, array, current, next, running, st>>

\* The manager process exits; the next one starts from the static initial state.
End ==
    /\ Doing("end")
    /\ enabled' = FALSE
    /\ targets' = << >>
    /\ target_capacity' = 0
    /\ current_index' = 0
    /\ Return
    /\ UNCHANGED <<flags, thread, running, st>>

----------------------------------------------------------------------------
(* The commands of the main thread *)

\* sched on: the first RUNNING container is resumed, the others are stopped.
SchedOn == <<Call("start", NoPid), Call("enable", NoPid), Call("clear", NoPid)>>
           \o Calls("add", running)
           \o (IF running = << >> THEN << >>
               ELSE Append(Calls("stop", Tail(running)), Call("cont", Head(running))))

\* sched off: everyone is resumed.  Faulty: nobody is.
SchedOffQuiet == <<Call("disable", NoPid), Call("clear", NoPid)>> \o Calls("add", running)
SchedOff == <<Call("disable", NoPid), Call("clear", NoPid)>>
            \o Calls("add", running) \o Calls("cont", running)

poll_states == Calls("sync", running)

Exit == poll_states \o Calls("kill", running)
        \o <<Call("stop_thread", NoPid), Call("end", NoPid)>>

Command ==
    /\ todo = << >>
    /\ \/ todo' = SchedOn
       \/ todo' = SchedOff
       \/ todo' = poll_states /\ running # << >>
       \/ todo' = Append(poll_states, Call("spawn_fg", NoPid))
       \/ todo' = Append(poll_states, Call("spawn_bg", NoPid))
       \/ \E i \in 1 .. Len(running) : todo' = Append(poll_states, Call("kill", running[i]))
       \/ todo' = Exit
    /\ UNCHANGED <<enabled, array, flags, thread, running, st>>

\* A container process ends by itself or is killed.
Dies(p) ==
    /\ st[p] \in {"run", "stop"}
    /\ st' = [st EXCEPT ![p] = "zombie"]
    /\ UNCHANGED <<enabled, array, flags, thread, main>>

----------------------------------------------------------------------------
Init ==
    /\ enabled = FALSE /\ targets = << >> /\ target_capacity = 0 /\ current_index = 0
    /\ thread_started = FALSE /\ stop_requested = FALSE
    /\ tpc = "none" /\ current = NoPid /\ next = NoPid
    /\ running = << >> /\ todo = << >>
    /\ st = [p \in Pids |-> "free"]

Thread == ThreadRound \/ ThreadExit \/ ThreadStops \/ ThreadConts

Main == \/ scheduler_start \/ scheduler_set_enabled \/ scheduler_clear_targets
        \/ scheduler_add_target \/ scheduler_remove_target \/ Signal
        \/ Sync \/ Spawn \/ Kill \/ Wait \/ StopThread \/ Join \/ End

Next == Thread \/ Main \/ Command \/ \E p \in Pids : Dies(p)

Spec == Init /\ [][Next]_vars

\* The kernel runs both threads of the manager.
FairSpec == Spec /\ WF_vars(Thread) /\ WF_vars(Main)

----------------------------------------------------------------------------
(* Properties *)

TypeOK ==
    /\ enabled \in BOOLEAN
    /\ targets \in Seq(Pids)
    /\ target_capacity \in Nat
    /\ current_index \in Nat
    /\ thread_started \in BOOLEAN
    /\ stop_requested \in BOOLEAN
    /\ tpc \in {"none", "lock", "kill_stop", "kill_cont", "exited"}
    /\ current \in Pids \cup {NoPid}
    /\ next \in Pids \cup {NoPid}
    /\ running \in Seq(Pids)
    /\ todo \in Seq([op: Ops, pid: Pids \cup {NoPid}])
    /\ st \in [Pids -> {"free", "run", "stop", "zombie"}]

Idle == todo = << >>

\* No pid is a target twice, the targets fit the allocated array, and the
\* round-robin index always points at a target (at 0 when there are none),
\* whatever add, remove, clear and the thread's own pruning did in between.
TargetsWellFormed ==
    /\ Len(targets) <= target_capacity
    /\ \A i, j \in 1 .. Len(targets) : targets[i] = targets[j] => i = j
    /\ current_index = 0 \/ current_index < Len(targets)

\* The thread never pauses and resumes the same process in one round: with two
\* targets or more, the process it stops and the one it continues differ.
SignalsDiffer ==
    tpc \in {"kill_stop", "kill_cont"} =>
      current \in Pids /\ next \in Pids /\ current # next

\* Between commands, every target is the process of a RUNNING record: stop,
\* poll and exit take what they reap out of the array.
TargetsFollowList ==
    Idle => \A i \in 1 .. Len(targets) : \E j \in 1 .. Len(running) : running[j] = targets[i]

\* After sched off at most one container can be left paused: the one the
\* thread had picked under the mutex and stopped after it was resumed.
AtMostOnePausedWhenOff ==
    ~enabled /\ Idle =>
      \A p, q \in Pids : st[p] = "stop" /\ st[q] = "stop" => p = q

\* What container_scheduler_refresh_targets intends: no container is left
\* paused when scheduling is off.
NoPausedWhenOff == ~enabled /\ Idle => \A p \in Pids : st[p] # "stop"

Living(p) == st[p] \in {"run", "stop"}

\* Round-robin progress: a living target among two or more runs again and
\* again, however many zombies the other targets are.
EveryTargetRuns ==
    \A p \in Pids :
      <>[](enabled /\ Idle /\ Tracked(p) /\ Living(p) /\ Len(targets) >= 2)
        => []<>(st[p] = "run")

\* What round-robin between the tracked pids promises: the same without "two
\* or more", once every RUNNING container is a target.
EveryTrackedRuns ==
    \A p \in Pids :
      <>[](/\ enabled /\ Idle /\ Tracked(p) /\ Living(p)
           /\ \A i \in 1 .. Len(running) : Tracked(running[i]))
        => []<>(st[p] = "run")

\* When the commands cease, at most one of the targets runs at any time, also
\* when containers were added while others were being rotated.
EventuallyExclusive ==
    <>[](enabled /\ Idle /\ Len(targets) >= 2) =>
      <>[](\A p, q \in Pids :
             Tracked(p) /\ Tracked(q) /\ st[p] = "run" /\ st[q] = "run" => p = q)

\* scheduler_stop returns: the thread sees stop_requested and exits.
JoinReturns == Doing("join") ~> ~Doing("join")
=============================================================================
