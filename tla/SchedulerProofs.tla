-------------------------- MODULE SchedulerProofs --------------------------
(***************************************************************************)
(* For any number of containers and any first size of the array: the array *)
(* of targets and the round-robin index stay sound and the thread never    *)
(* stops and continues one process in a round (SchedInv); between commands *)
(* the targets are RUNNING containers, and after sched off at most one of  *)
(* them is paused (CommandInv, what a command has yet to do).              *)
(***************************************************************************)
EXTENDS Scheduler, SequenceTheorems, TLAPS

\* A call that signals a process or makes it a target names one.
ProperCalls ==
    {c \in [op : Ops, pid : Pids \cup {NoPid}] :
       c.op \in {"add", "remove", "stop", "cont", "sync", "kill", "wait"} => c.pid \in Pids}

SchedInv ==
    /\ TypeOK
    /\ todo \in Seq(ProperCalls)
    /\ TargetsWellFormed
    /\ SignalsDiffer

----------------------------------------------------------------------------
(* Facts about sequences and the index *)

\* One call for each pid of a sequence: what the loops of a command over the
\* containers make.
LEMMA CallsType ==
    ASSUME NEW s \in Seq(Pids), NEW op \in Ops
    PROVE  Calls(op, s) \in Seq(ProperCalls)
<1>1. \A i \in 1 .. Len(s) : s[i] \in Pids
  BY ElementOfSeq, Zenon
<1>2. \A i \in 1 .. Len(s) : Call(op, s[i]) \in ProperCalls
  BY <1>1, Zenon DEF Call, ProperCalls
<1>3. Len(s) \in Nat
  OBVIOUS
<1> QED
  BY <1>2, <1>3, IsASeq DEF Calls

\* A call without a pid.
LEMMA PlainCallType ==
    ASSUME NEW op \in {"start", "enable", "disable", "clear", "spawn_fg", "spawn_bg",
                       "stop_thread", "join", "end"}
    PROVE  Call(op, NoPid) \in ProperCalls
  BY Zenon DEF Call, ProperCalls, Ops

\* The next entry of the round-robin list is another one when there are two.
LEMMA RotationMoves ==
    ASSUME NEW n \in Nat, n >= 2, NEW w \in 0 .. n - 1
    PROVE  (w + 1) % n \in 0 .. n - 1 /\ (w + 1) % n # w
<1>1. CASE w + 1 < n
  <2>1. (w + 1) % n = w + 1
    BY <1>1
  <2> QED
    BY <1>1, <2>1
<1>2. CASE w + 1 = n
  <2>1. n % n = 0
    BY SMT
  <2> QED
    BY <1>2, <2>1
<1> QED
  BY <1>1, <1>2

\* Inserting and removing records keeps the list one of pids.
LEMMA ListTypes ==
    ASSUME NEW s \in Seq(Pids), NEW p \in Pids
    PROVE  /\ \A k \in 1 .. Len(s) + 1 : InsertAt(s, k, p) \in Seq(Pids)
           /\ \A k \in 1 .. Len(s) : RemoveAt(s, k) \in Seq(Pids)
<1>1. \A a, b \in Int : a \in 1 .. Len(s) + 1 /\ b \in 0 .. Len(s) => SubSeq(s, a, b) \in Seq(Pids)
  BY SubSeqProperties, ElementOfSeq, IsASeq
<1>2. Len(s) \in Nat
  OBVIOUS
<1>3. ASSUME NEW k \in 1 .. Len(s) + 1 PROVE InsertAt(s, k, p) \in Seq(Pids)
  <2>1. SubSeq(s, 1, k - 1) \in Seq(Pids) /\ SubSeq(s, k, Len(s)) \in Seq(Pids)
    BY <1>1, <1>2
  <2> QED
    BY <2>1, ConcatProperties DEF InsertAt
<1>4. ASSUME NEW k \in 1 .. Len(s) PROVE RemoveAt(s, k) \in Seq(Pids)
  <2>1. SubSeq(s, 1, k - 1) \in Seq(Pids) /\ SubSeq(s, k + 1, Len(s)) \in Seq(Pids)
    BY <1>1, <1>2
  <2> QED
    BY <2>1, ConcatProperties, Zenon DEF RemoveAt
<1> QED
  BY <1>3, <1>4, Zenon

\* What is left of a command after its first call, with or without the calls
\* that one adds.
LEMMA TodoFacts ==
    ASSUME todo \in Seq(ProperCalls), todo # << >>
    PROVE  /\ Head(todo) \in ProperCalls
           /\ Tail(todo) \in Seq(ProperCalls)
           /\ \A calls \in Seq(ProperCalls) : calls \o Tail(todo) \in Seq(ProperCalls)
  BY HeadTailProperties, ConcatProperties, Zenon

\* Every command of main is a sequence of proper calls.
LEMMA CommandCalls ==
    ASSUME running \in Seq(Pids)
    PROVE  /\ SchedOn \in Seq(ProperCalls)
           /\ SchedOff \in Seq(ProperCalls)
           /\ poll_states \in Seq(ProperCalls)
           /\ Exit \in Seq(ProperCalls)
<1>1. \A op \in Ops : Calls(op, running) \in Seq(ProperCalls)
  BY CallsType, Zenon
<1>2. poll_states \in Seq(ProperCalls)
  BY <1>1, Zenon DEF poll_states, Ops
<1>3. Calls("add", running) \in Seq(ProperCalls) /\ Calls("cont", running) \in Seq(ProperCalls)
      /\ Calls("kill", running) \in Seq(ProperCalls)
  BY <1>1, Zenon DEF Ops
<1>4. <<Call("start", NoPid), Call("enable", NoPid), Call("clear", NoPid)>> \in Seq(ProperCalls)
  BY PlainCallType
<1>5. <<Call("disable", NoPid), Call("clear", NoPid)>> \in Seq(ProperCalls)
  BY PlainCallType
<1>6. <<Call("stop_thread", NoPid), Call("end", NoPid)>> \in Seq(ProperCalls)
  BY PlainCallType
<1>7. SchedOff \in Seq(ProperCalls)
  BY <1>3, <1>5, ConcatProperties, Zenon DEF SchedOff
<1>8. Exit \in Seq(ProperCalls)
  BY <1>2, <1>3, <1>6, ConcatProperties, Zenon DEF Exit
<1>9. SchedOn \in Seq(ProperCalls)
  <2> DEFINE rest == IF running = << >> THEN << >>
                     ELSE Append(Calls("stop", Tail(running)), Call("cont", Head(running)))
  <2>1. rest \in Seq(ProperCalls)
    <3>1. CASE running = << >>
      BY <3>1
    <3>2. CASE running # << >>
      <4>1. Head(running) \in Pids /\ Tail(running) \in Seq(Pids)
        BY <3>2, HeadTailProperties, Zenon
      <4>2. Calls("stop", Tail(running)) \in Seq(ProperCalls)
        BY <4>1, CallsType, ZenonT(60) DEF Ops
      <4>3. Call("cont", Head(running)) \in ProperCalls
        BY <4>1, Zenon DEF Call, ProperCalls, Ops
      <4> QED
        BY <3>2, <4>2, <4>3, AppendProperties, Zenon
    <3> QED
      BY <3>1, <3>2, Zenon
  <2>2. SchedOn = <<Call("start", NoPid), Call("enable", NoPid), Call("clear", NoPid)>>
                  \o Calls("add", running) \o rest
    BY Zenon DEF SchedOn
  <2> HIDE DEF rest
  <2> QED
    BY <1>3, <1>4, <2>1, <2>2, ConcatProperties, Zenon
<1> QED
  BY <1>2, <1>7, <1>8, <1>9, Zenon

----------------------------------------------------------------------------
(* The array of targets *)

\* TargetsWellFormed without the index.
ArrayOK ==
    /\ targets \in Seq(Pids) /\ target_capacity \in Nat
    /\ Len(targets) <= target_capacity
    /\ \A i, j \in 1 .. Len(targets) : targets[i] = targets[j] => i = j

\* prune_dead_locked keeps the array sound: it only leaves entries out.
LEMMA PruneKeeps ==
    ASSUME ArrayOK, UNCHANGED target_capacity,
           NEW n \in 0 .. Len(targets), NEW f \in [1 .. n -> 1 .. Len(targets)],
           prune_dead_locked(n, f)
    PROVE  ArrayOK' /\ Len(targets') = n
<1>1. targets' = [k \in 1 .. n |-> targets[f[k]]]
  BY Zenon DEF prune_dead_locked
<1>2. Len(targets) \in Nat /\ n \in Nat /\ \A k \in 1 .. n : targets[f[k]] \in Pids
  BY ElementOfSeq DEF ArrayOK
<1>3. targets' \in Seq(Pids) /\ Len(targets') = n
  <2>1. targets' \in [1 .. n -> Pids]
    BY <1>1, <1>2, Zenon
  <2> QED
    BY <1>2, <2>1, IsASeq, LenProperties
<1>4. ASSUME NEW i \in 1 .. n, NEW j \in 1 .. n, targets'[i] = targets'[j] PROVE i = j
  <2>1. f[i] = f[j]
    BY <1>1, <1>4, Zenon DEF ArrayOK
  <2>2. i < j => f[i] < f[j]
    BY Zenon DEF prune_dead_locked
  <2>3. j < i => f[j] < f[i]
    BY Zenon DEF prune_dead_locked
  <2>4. f[i] \in Int /\ f[j] \in Int
    BY <1>2
  <2> QED
    BY <1>2, <2>1, <2>2, <2>3, <2>4
<1> QED
  BY <1>2, <1>3, <1>4 DEF ArrayOK

\* scheduler_remove_target keeps the array sound: the last entry goes into the
\* hole and is gone from the end.
LEMMA RemoveKeeps ==
    ASSUME ArrayOK, UNCHANGED target_capacity, NEW i \in 1 .. Len(targets),
           targets' = [j \in 1 .. Len(targets) - 1 |->
                         IF j = i THEN targets[Len(targets)] ELSE targets[j]]
    PROVE  ArrayOK' /\ Len(targets') = Len(targets) - 1
<1>1. Len(targets) \in Nat /\ Len(targets) - 1 \in Nat /\ \A k \in 1 .. Len(targets) : targets[k] \in Pids
  BY ElementOfSeq DEF ArrayOK
<1>2. targets' \in [1 .. Len(targets) - 1 -> Pids]
  BY <1>1
<1>3. targets' \in Seq(Pids) /\ Len(targets') = Len(targets) - 1
  BY <1>1, <1>2, IsASeq, LenProperties
<1>4. ASSUME NEW j \in 1 .. Len(targets) - 1, NEW k \in 1 .. Len(targets) - 1,
             targets'[j] = targets'[k]
      PROVE  j = k
  BY <1>1, <1>4 DEF ArrayOK
<1> QED
  BY <1>1, <1>3, <1>4 DEF ArrayOK

\* scheduler_add_target keeps the array sound: no pid twice, and room for it.
LEMMA AppendKeeps ==
    ASSUME ArrayOK, NEW p \in Pids, ~Tracked(p), targets' = Append(targets, p),
           target_capacity' \in Nat, Len(targets) < target_capacity'
    PROVE  ArrayOK' /\ Len(targets') = Len(targets) + 1
<1>1. /\ targets' \in Seq(Pids) /\ Len(targets') = Len(targets) + 1
      /\ \A k \in 1 .. Len(targets) : targets'[k] = targets[k]
      /\ targets'[Len(targets) + 1] = p
  BY AppendProperties DEF ArrayOK
<1>2. \A i, j \in 1 .. Len(targets') : targets'[i] = targets'[j] => i = j
  BY <1>1 DEF ArrayOK, Tracked
<1> QED
  BY <1>1, <1>2 DEF ArrayOK

----------------------------------------------------------------------------
(* The inductive invariant *)

\* The manager starts without targets and without a thread.
LEMMA SchedInvInit == Init => SchedInv
<1> SUFFICES ASSUME Init PROVE SchedInv
  BY Zenon
<1>1. targets = << >> /\ Len(targets) = 0 /\ current_index = 0 /\ target_capacity = 0
  BY Zenon DEF Init
<1>2. targets \in Seq(Pids) /\ running \in Seq(Pids) /\ todo \in Seq(ProperCalls)
      /\ todo \in Seq([op : Ops, pid : Pids \cup {NoPid}])
  BY DEF Init
<1>3. TypeOK
  BY <1>2, ZenonT(60) DEF Init, TypeOK
<1> QED
  BY <1>1, <1>2, <1>3 DEF Init, SchedInv, TargetsWellFormed, SignalsDiffer

\* The index stays in range when n targets are left.
LEMMA WrappedInRange ==
    ASSUME current_index \in Nat, NEW n \in Nat
    PROVE  Wrapped(n) \in Nat /\ (Wrapped(n) = 0 \/ Wrapped(n) < n)
  BY DEF Wrapped

\* The steps of the scheduler thread preserve the invariant: in the critical
\* section it prunes, rotates and picks two different targets; its two signals
\* change processes only.
LEMMA ThreadKeeps == SchedInv /\ Thread => SchedInv'
<1> SUFFICES ASSUME SchedInv, Thread PROVE SchedInv'
  BY Zenon
<1>1. CASE ThreadRound
  <2> DEFINE Picks(n) ==
               IF Nothing(n)
               THEN current_index' = Wrapped(n) /\ UNCHANGED thread
               ELSE /\ current_index' = Rotated(n)
                    /\ current' = targets'[Wrapped(n) + 1]
                    /\ next' = targets'[current_index' + 1]
                    /\ tpc' = "kill_stop"
  <2>0. PICK n \in 0 .. Len(targets) :
          \E f \in [1 .. n -> 1 .. Len(targets)] : prune_dead_locked(n, f) /\ Picks(n)
    BY <1>1, Zenon DEF ThreadRound
  <2>1. PICK f \in [1 .. n -> 1 .. Len(targets)] : prune_dead_locked(n, f) /\ Picks(n)
    BY <2>0, Zenon
  <2>2. /\ n \in Nat /\ Wrapped(n) \in Nat
        /\ Wrapped(n) = 0 \/ Wrapped(n) < n
    BY WrappedInRange DEF SchedInv, TypeOK
  <2>3. UNCHANGED <<enabled, target_capacity, flags, main, st>>
    BY <1>1, Zenon DEF ThreadRound
  <2>4. ArrayOK' /\ Len(targets') = n
    BY <2>1, <2>3, PruneKeeps, ZenonT(60) DEF SchedInv, TypeOK, TargetsWellFormed, ArrayOK
  <2>5. CASE Nothing(n)
    BY <2>1, <2>2, <2>3, <2>4, <2>5
    DEF SchedInv, TypeOK, TargetsWellFormed, SignalsDiffer, ArrayOK, thread, flags, main
  <2>6. CASE ~Nothing(n)
    <3>1. n >= 2 /\ Wrapped(n) \in 0 .. n - 1
      BY <2>2, <2>6 DEF Nothing
    <3>2. current_index' \in 0 .. n - 1 /\ current_index' # Wrapped(n)
      BY <2>1, <2>2, <2>6, <3>1, RotationMoves, ZenonT(60) DEF Rotated
    <3>3. /\ current' \in Pids /\ next' \in Pids
          /\ current' # next'
      <4>0. \A x \in 0 .. n - 1 : x + 1 \in 1 .. n
        BY <2>2
      <4>1. Wrapped(n) + 1 \in 1 .. n /\ current_index' + 1 \in 1 .. n
        BY <3>1, <3>2, <4>0, ZenonT(60)
      <4>2. \A i \in 1 .. n : targets'[i] \in Pids
        BY <2>4, ElementOfSeq, Zenon DEF ArrayOK
      <4>3. \A i, j \in 1 .. n : targets'[i] = targets'[j] => i = j
        BY <2>4, Zenon DEF ArrayOK
      <4> QED
        BY <2>1, <2>2, <2>6, <3>1, <3>2, <4>1, <4>2, <4>3, SMTT(60)
    <3>4. current_index' \in Nat /\ current_index' < n
      BY <2>2, <3>2
    <3>5. tpc' = "kill_stop"
      BY <2>1, <2>6, Zenon
    <3>6. TypeOK'
      BY <2>3, <2>4, <3>3, <3>4, <3>5, Zenon DEF SchedInv, TypeOK, ArrayOK, flags, main
    <3> QED
      BY <2>3, <2>4, <3>3, <3>4, <3>6, Zenon
      DEF SchedInv, TargetsWellFormed, SignalsDiffer, ArrayOK, main
  <2> QED
    BY <2>5, <2>6, Zenon
<1>2. CASE ThreadExit
  BY <1>2, Zenon DEF ThreadExit, SchedInv, TypeOK, TargetsWellFormed, SignalsDiffer, array, flags, main
<1>3. CASE ThreadStops
  <2>1. st' \in [Pids -> {"free", "run", "stop", "zombie"}]
    BY <1>3, ZenonT(60) DEF ThreadStops, Paused, SchedInv, TypeOK
  <2> QED
    BY <1>3, <2>1, Zenon DEF ThreadStops, SchedInv, TypeOK, TargetsWellFormed, SignalsDiffer, array, flags, main
<1>4. CASE ThreadConts
  <2>1. st' \in [Pids -> {"free", "run", "stop", "zombie"}]
    BY <1>4, ZenonT(60) DEF ThreadConts, Resumed, SchedInv, TypeOK
  <2> QED
    BY <1>4, <2>1, Zenon DEF ThreadConts, SchedInv, TypeOK, TargetsWellFormed, SignalsDiffer, array, flags, main
<1> QED
  BY <1>1, <1>2, <1>3, <1>4, Zenon DEF Thread

\* What the calls of the main thread leave alone: the invariant splits into the
\* array with its index, the thread's picks, and the rest.
LEMMA SchedInvParts ==
    ASSUME ArrayOK', current_index' \in Nat,
           current_index' = 0 \/ current_index' < Len(targets'),
           todo' \in Seq(ProperCalls), running' \in Seq(Pids),
           st' \in [Pids -> {"free", "run", "stop", "zombie"}],
           enabled' \in BOOLEAN, thread_started' \in BOOLEAN, stop_requested' \in BOOLEAN,
           tpc' \in {"none", "lock", "kill_stop", "kill_cont", "exited"},
           current' \in Pids \cup {NoPid}, next' \in Pids \cup {NoPid}, SignalsDiffer'
    PROVE  SchedInv'
<1>1. todo' \in Seq([op : Ops, pid : Pids \cup {NoPid}])
  <2>1. ProperCalls \subseteq [op : Ops, pid : Pids \cup {NoPid}]
    BY Zenon DEF ProperCalls
  <2> QED
    BY <2>1, SeqMonotonic, ZenonT(60)
<1> QED
  BY <1>1, Zenon DEF SchedInv, TypeOK, TargetsWellFormed, ArrayOK

\* The functions of scheduler.c that the main thread calls preserve the
\* invariant, whatever the thread has picked meanwhile.
LEMMA ArrayCallsKeep ==
    SchedInv /\ (scheduler_start \/ scheduler_set_enabled \/ scheduler_clear_targets
                 \/ scheduler_add_target \/ scheduler_remove_target \/ End) => SchedInv'
<1> SUFFICES ASSUME SchedInv, (scheduler_start \/ scheduler_set_enabled \/ scheduler_clear_targets
                 \/ scheduler_add_target \/ scheduler_remove_target \/ End) PROVE SchedInv'
  BY Zenon
<1>1. ArrayOK /\ current_index \in Nat
  BY Zenon DEF SchedInv, TypeOK, TargetsWellFormed, ArrayOK
<1>2. todo # << >>
  BY Zenon DEF scheduler_start, scheduler_set_enabled, scheduler_clear_targets,
         scheduler_add_target, scheduler_remove_target, End, Doing
<1>3. Head(todo) \in ProperCalls /\ Tail(todo) \in Seq(ProperCalls)
  BY <1>2, TodoFacts, Zenon DEF SchedInv
<1>4. << >> \in Seq(ProperCalls) /\ << >> \in Seq(Pids) /\ Len(<< >>) = 0
  OBVIOUS
<1>5. CASE scheduler_start
  <2>1. todo' \in Seq(ProperCalls)
    BY <1>3, <1>4, <1>5, ZenonT(60) DEF scheduler_start, Return
  <2>2. /\ thread_started' \in BOOLEAN /\ stop_requested' \in BOOLEAN
        /\ tpc' \in {tpc, "lock"} /\ UNCHANGED <<current, next>>
    BY <1>5, ZenonT(60) DEF scheduler_start, SchedInv, TypeOK, flags, thread
  <2>3. UNCHANGED <<enabled, array, running, st>>
    BY <1>5, Zenon DEF scheduler_start
  <2> QED
    BY <1>1, <2>1, <2>2, <2>3, SchedInvParts, Zenon
    DEF SchedInv, TypeOK, TargetsWellFormed, SignalsDiffer, ArrayOK, array
<1>6. CASE scheduler_set_enabled
  <2>1. enabled' \in BOOLEAN
    BY <1>6, Zenon DEF scheduler_set_enabled, Doing
  <2>2. todo' \in Seq(ProperCalls) /\ UNCHANGED <<array, flags, thread, running, st>>
    BY <1>3, <1>6, Zenon DEF scheduler_set_enabled, Return
  <2> QED
    BY <1>1, <2>1, <2>2, SchedInvParts
    DEF SchedInv, TypeOK, TargetsWellFormed, SignalsDiffer, ArrayOK, array, flags, thread
<1>7. CASE scheduler_clear_targets \/ End
  <2>0. enabled' \in BOOLEAN /\ target_capacity' \in Nat
    <3>1. CASE scheduler_clear_targets
      BY <3>1, Zenon DEF scheduler_clear_targets, SchedInv, TypeOK
    <3>2. CASE End
      <4>1. enabled' \in BOOLEAN
        BY <3>2, Zenon DEF End
      <4> QED
        BY <3>2, <4>1, Zenon DEF End
    <3> QED
      BY <1>7, <3>1, <3>2, Zenon
  <2>1. /\ targets' = << >> /\ current_index' = 0
        /\ target_capacity' \in Nat
        /\ todo' \in Seq(ProperCalls) /\ UNCHANGED <<flags, thread, running, st>>
    BY <1>3, <1>7, <2>0, ZenonT(60) DEF scheduler_clear_targets, End, Return, SchedInv, TypeOK
  <2>2. ArrayOK'
    BY <1>4, <2>1 DEF ArrayOK
  <2> QED
    BY <2>0, <2>1, <2>2, SchedInvParts, Zenon DEF SchedInv, TypeOK, SignalsDiffer, flags, thread
<1>8. CASE scheduler_add_target
  <2>1. Arg \in Pids
    BY <1>3, <1>8, Zenon DEF scheduler_add_target, Doing, Arg, ProperCalls
  <2>2. ArrayOK' /\ Len(targets') >= Len(targets)
    <3>1. CASE UNCHANGED <<targets, target_capacity>>
      BY <1>1, <3>1 DEF ArrayOK
    <3>2. CASE ~UNCHANGED <<targets, target_capacity>>
      <4>1. ~Tracked(Arg) /\ targets' = Append(targets, Arg)
        BY <1>8, <3>2, Zenon DEF scheduler_add_target
      <4>2. target_capacity' \in Nat /\ Len(targets) < target_capacity'
        BY <1>1, <1>8, <3>2, ConstantsAssumption DEF scheduler_add_target, Grown, ArrayOK
      <4> QED
        BY <1>1, <2>1, <4>1, <4>2, AppendKeeps DEF ArrayOK
    <3> QED
      BY <3>1, <3>2, Zenon
  <2>3. todo' \in Seq(ProperCalls) /\ UNCHANGED <<enabled, current_index, flags, thread, running, st>>
    BY <1>3, <1>8, Zenon DEF scheduler_add_target, Return
  <2>4. current_index' = 0 \/ current_index' < Len(targets')
    BY <1>1, <2>2, <2>3 DEF SchedInv, TargetsWellFormed, ArrayOK
  <2> QED
    BY <1>1, <2>2, <2>3, <2>4, SchedInvParts, Zenon DEF SchedInv, TypeOK, SignalsDiffer, flags, thread
<1>9. CASE scheduler_remove_target
  <2>1. todo' \in Seq(ProperCalls) /\ UNCHANGED <<enabled, target_capacity, flags, thread, running, st>>
    BY <1>3, <1>9, Zenon DEF scheduler_remove_target, Return
  <2>2. ArrayOK' /\ current_index' = Wrapped(Len(targets'))
    <3>1. CASE UNCHANGED targets /\ current_index' = Wrapped(Len(targets))
      BY <1>1, <2>1, <3>1, Zenon DEF ArrayOK
    <3>2. CASE ~(UNCHANGED targets /\ current_index' = Wrapped(Len(targets)))
      <4>1. PICK i \in 1 .. Len(targets) :
              targets' = [j \in 1 .. Len(targets) - 1 |->
                            IF j = i THEN targets[Len(targets)] ELSE targets[j]]
        BY <1>9, <3>2, Zenon DEF scheduler_remove_target
      <4>2. ArrayOK' /\ Len(targets') = Len(targets) - 1
        BY <1>1, <2>1, <4>1, RemoveKeeps, Zenon
      <4>3. current_index' = Wrapped(Len(targets) - 1)
        BY <1>9, <3>2, Zenon DEF scheduler_remove_target
      <4> QED
        BY <4>2, <4>3, Zenon
    <3> QED
      BY <3>1, <3>2, Zenon
  <2>3. current_index' \in Nat /\ (current_index' = 0 \/ current_index' < Len(targets'))
    <3>1. Len(targets') \in Nat
      BY <2>2 DEF ArrayOK
    <3> QED
      BY <1>1, <2>2, <3>1, WrappedInRange, Zenon
  <2> QED
    BY <2>1, <2>2, <2>3, SchedInvParts, Zenon DEF SchedInv, TypeOK, SignalsDiffer, flags, thread
<1> QED
  BY <1>5, <1>6, <1>7, <1>8, <1>9, Zenon

\* A process that is stopped, continued, killed or reaped stays in one of the
\* four states.
LEMMA ProcessKeeps ==
    ASSUME SchedInv, UNCHANGED <<enabled, array, flags, thread>>,
           todo' \in Seq(ProperCalls), running' \in Seq(Pids),
           st' \in [Pids -> {"free", "run", "stop", "zombie"}]
    PROVE  SchedInv'
<1>1. ArrayOK'
  BY Zenon DEF SchedInv, TypeOK, TargetsWellFormed, ArrayOK, array
<1> QED
  BY <1>1, SchedInvParts
  DEF SchedInv, TypeOK, TargetsWellFormed, SignalsDiffer, array, flags, thread

\* The other calls of the main thread, which change containers, not targets.
LEMMA ContainerCallsKeep ==
    SchedInv /\ (Signal \/ Sync \/ Spawn \/ Kill \/ Wait \/ StopThread \/ Join) => SchedInv'
<1> SUFFICES ASSUME SchedInv, Signal \/ Sync \/ Spawn \/ Kill \/ Wait \/ StopThread \/ Join
             PROVE  SchedInv'
  BY Zenon
<1>1. todo # << >>
  BY Zenon DEF Signal, Sync, Spawn, Kill, Wait, StopThread, Join, Doing
<1>2. /\ Head(todo) \in ProperCalls /\ Tail(todo) \in Seq(ProperCalls)
      /\ \A calls \in Seq(ProperCalls) : calls \o Tail(todo) \in Seq(ProperCalls)
  BY <1>1, TodoFacts, Zenon DEF SchedInv
<1>3. /\ running \in Seq(Pids)
      /\ st \in [Pids -> {"free", "run", "stop", "zombie"}]
  BY Zenon DEF SchedInv, TypeOK
<1>4. ASSUME NEW p \in Pids, NEW op \in {"wait", "add", "remove"}
      PROVE  Call(op, p) \in ProperCalls /\ <<Call(op, p)>> \in Seq(ProperCalls)
  BY DEF Call, ProperCalls, Ops
<1>5. ASSUME NEW p \in Pids, Reap(p)
      PROVE  running' \in Seq(Pids) /\ st' \in [Pids -> {"free", "run", "stop", "zombie"}]
  BY <1>3, <1>5, ListTypes, Zenon DEF Reap
<1>6. CASE Signal
  <2>1. st' \in [Pids -> {"free", "run", "stop", "zombie"}]
    BY <1>3, <1>6, Zenon DEF Signal, Paused, Resumed
  <2> QED
    BY <1>2, <1>3, <1>6, <2>1, ProcessKeeps, Zenon DEF Signal, Return
<1>7. CASE Sync
  <2>1. Arg \in Pids
    BY <1>2, <1>7, Zenon DEF Sync, Doing, Arg, ProperCalls
  <2>2. UNCHANGED <<enabled, array, flags, thread>>
    BY <1>7, Zenon DEF Sync
  <2>3. CASE Reap(Arg) /\ Goto(DropTarget(Arg))
    <3>1. todo' \in Seq(ProperCalls)
      BY <1>2, <1>4, <2>1, <2>3, Zenon DEF Goto, DropTarget
    <3> QED
      BY <1>5, <2>1, <2>2, <2>3, <3>1, ProcessKeeps, Zenon
  <2>4. CASE Return /\ UNCHANGED <<running, st>>
    BY <1>2, <1>3, <2>2, <2>4, ProcessKeeps, Zenon DEF Return
  <2> QED
    BY <1>7, <2>3, <2>4, Zenon DEF Sync
<1>8. CASE Spawn
  <2>1. UNCHANGED <<enabled, array, flags, thread>>
    BY <1>8, Zenon DEF Spawn
  <2>2. CASE Return /\ UNCHANGED <<running, st>>
    BY <1>2, <1>3, <2>1, <2>2, ProcessKeeps DEF Return
  <2>3. ASSUME NEW p \in Pids, NEW k \in 1 .. Len(running) + 1,
               st' = [st EXCEPT ![p] = "run"], running' = InsertAt(running, k, p),
               Goto(<<Call(IF Doing("spawn_fg") THEN "wait" ELSE "add", p)>>)
        PROVE  SchedInv'
    <3>1. running' \in Seq(Pids)
      BY <1>3, <2>3, ListTypes, Zenon
    <3>2. todo' \in Seq(ProperCalls)
      BY <1>2, <1>4, <2>3, Zenon DEF Goto
    <3>3. st' \in [Pids -> {"free", "run", "stop", "zombie"}]
      BY <1>3, <2>3, Zenon
    <3> QED
      BY <2>1, <3>1, <3>2, <3>3, ProcessKeeps, Zenon
  <2> QED
    BY <1>8, <2>2, <2>3, ZenonT(60) DEF Spawn
<1>9. CASE Kill
  <2>1. Arg \in Pids
    BY <1>2, <1>9, Zenon DEF Kill, Doing, Arg, ProperCalls
  <2>2. st' \in [Pids -> {"free", "run", "stop", "zombie"}]
    BY <1>3, <1>9, Zenon DEF Kill
  <2>3. <<Call("wait", Arg), Call("remove", Arg)>> \in Seq(ProperCalls)
    BY <1>4, <2>1
  <2>4. todo' \in Seq(ProperCalls)
    BY <1>2, <1>9, <2>3, ZenonT(60) DEF Kill, Goto, Return
  <2> QED
    BY <1>3, <1>9, <2>2, <2>4, ProcessKeeps, Zenon DEF Kill
<1>10. CASE Wait
  <2>1. Arg \in Pids
    BY <1>2, <1>10, Zenon DEF Wait, Doing, Arg, ProperCalls
  <2> QED
    BY <1>2, <1>5, <1>10, <2>1, ProcessKeeps, Zenon DEF Wait, Return
<1>11. CASE StopThread \/ Join
  <2>1. todo' \in Seq(ProperCalls)
    <3>1. Call("join", NoPid) \in ProperCalls
      BY PlainCallType, Zenon
    <3>2. <<Call("join", NoPid)>> \in Seq(ProperCalls)
      BY <3>1
    <3>3. todo' = Tail(todo) \/ todo' = <<Call("join", NoPid)>> \o Tail(todo)
      BY <1>11, Zenon DEF StopThread, Join, Goto, Return
    <3> QED
      BY <1>2, <3>2, <3>3, ZenonT(60)
  <2>2. /\ thread_started' \in BOOLEAN /\ stop_requested' \in BOOLEAN
    <3>1. CASE StopThread
      <4>1. stop_requested' \in BOOLEAN
        BY <3>1, Zenon DEF StopThread, Told
      <4> QED
        BY <3>1, <4>1, Zenon DEF StopThread, SchedInv, TypeOK
    <3>2. CASE Join
      BY <3>2, Zenon DEF Join
    <3> QED
      BY <1>11, <3>1, <3>2, Zenon
  <2>3. /\ UNCHANGED <<enabled, array, current, next, running, st>>
        /\ tpc' \in {tpc, "none"}
    BY <1>11, Zenon DEF StopThread, Join, thread
  <2>4. ArrayOK' /\ SignalsDiffer'
    BY <2>3, Zenon DEF SchedInv, TypeOK, TargetsWellFormed, SignalsDiffer, ArrayOK, array
  <2> QED
    BY <2>1, <2>2, <2>3, <2>4, SchedInvParts, Zenon DEF SchedInv, TypeOK, TargetsWellFormed, array
<1> QED
  BY <1>6, <1>7, <1>8, <1>9, <1>10, <1>11, Zenon

\* Every step of either thread, every command and every death preserves the
\* invariant.
LEMMA SchedInvNext == SchedInv /\ [Next]_vars => SchedInv'
<1> SUFFICES ASSUME SchedInv, [Next]_vars PROVE SchedInv'
  BY Zenon
<1>1. CASE Main
  BY <1>1, ArrayCallsKeep, ContainerCallsKeep, Zenon DEF Main
<1>2. CASE Command
  <2>1. running \in Seq(Pids)
    BY Zenon DEF SchedInv, TypeOK
  <2>2. /\ SchedOn \in Seq(ProperCalls) /\ SchedOff \in Seq(ProperCalls)
        /\ poll_states \in Seq(ProperCalls) /\ Exit \in Seq(ProperCalls)
    BY <2>1, CommandCalls, Zenon
  <2>3. \A op \in {"spawn_fg", "spawn_bg"} : Append(poll_states, Call(op, NoPid)) \in Seq(ProperCalls)
    BY <2>2, PlainCallType, AppendProperties, Zenon
  <2>4. \A i \in 1 .. Len(running) : Append(poll_states, Call("kill", running[i])) \in Seq(ProperCalls)
    <3>1. \A i \in 1 .. Len(running) : Call("kill", running[i]) \in ProperCalls
      BY <2>1, ElementOfSeq, Zenon DEF Call, ProperCalls, Ops
    <3> QED
      BY <2>2, <3>1, AppendProperties, Zenon
  <2>5. todo' \in Seq(ProperCalls)
    BY <1>2, <2>2, <2>3, <2>4, ZenonT(60) DEF Command
  <2> QED
    BY <1>2, <2>1, <2>5, ProcessKeeps, Zenon DEF Command, SchedInv, TypeOK
<1>3. ASSUME NEW p \in Pids, Dies(p) PROVE SchedInv'
  <2>1. st' \in [Pids -> {"free", "run", "stop", "zombie"}]
    BY <1>3, Zenon DEF Dies, SchedInv, TypeOK
  <2> QED
    BY <1>3, <2>1, ProcessKeeps, Zenon DEF Dies, main, SchedInv, TypeOK
<1>4. CASE UNCHANGED vars
  BY <1>4, ProcessKeeps, Zenon DEF vars, main, SchedInv, TypeOK
<1> QED
  BY <1>1, <1>2, <1>3, <1>4, ThreadKeeps, Zenon DEF Next

\* Add, remove, clear, a failed realloc and the thread's pruning, in any order
\* and for any number of containers, never list a pid twice, never overrun the
\* array, and never leave the round-robin index past its end.
THEOREM TargetsSound == Spec => []TargetsWellFormed
<1>1. SchedInv => TargetsWellFormed
  BY Zenon DEF SchedInv
<1> QED
  BY <1>1, SchedInvInit, SchedInvNext, PTL DEF Spec

\* The process that a round of the scheduler thread stops is never the one that
\* it continues.
THEOREM RoundsSwitch == Spec => []SignalsDiffer
<1>1. SchedInv => SignalsDiffer
  BY Zenon DEF SchedInv
<1> QED
  BY <1>1, SchedInvInit, SchedInvNext, PTL DEF Spec

----------------------------------------------------------------------------
(* What a command has yet to do *)

\* A pid of the list of RUNNING records or of the array of targets.
In(s, p) == \E i \in 1 .. Len(s) : s[i] = p

Pending(op, p) == \E i \in 1 .. Len(todo) : todo[i].op = op /\ todo[i].pid = p

\* Calls that reap or drop a container, calls of a refresh, last calls.
Reaping == {"sync", "kill", "wait", "remove", "stop_thread"}
Refreshing == {"start", "disable", "add"}
Closing == {"spawn_fg", "spawn_bg", "end"}

\* No command both reaps and refreshes; a new container and the end of the
\* process come last, disable comes first.
WellOrdered ==
    /\ \A i, j \in 1 .. Len(todo) : ~(todo[i].op \in Reaping /\ todo[j].op \in Refreshing)
    /\ \A i \in 1 .. Len(todo) : todo[i].op \in Closing => i = Len(todo)
    /\ \A i \in 1 .. Len(todo) : todo[i].op = "disable" => i = 1

\* A target without a RUNNING record is about to be removed, also when its
\* record changes only in a waitpid that is still to come.
Following ==
    /\ \A i \in 1 .. Len(targets) : In(running, targets[i]) \/ Pending("remove", targets[i])
    /\ \A i \in 1 .. Len(todo) : todo[i].op = "add" => In(running, todo[i].pid)
    /\ \A i \in 1 .. Len(todo) : todo[i].op = "wait" =>
         \/ ~In(targets, todo[i].pid)
         \/ \E j \in i + 1 .. Len(todo) : todo[j].op = "remove" /\ todo[j].pid = todo[i].pid

\* sched off resumes, and exit kills, every container that lives; a refresh
\* stops containers only when scheduling is on.
Pausing ==
    /\ \A p \in Pids : Living(p) => In(running, p)
    /\ \A i \in 1 .. Len(todo) : todo[i].op = "disable" =>
         /\ \A j \in 1 .. Len(todo) : todo[j].op # "start"
         /\ \A p \in Pids : Living(p) => Pending("cont", p)
    /\ \A i \in 1 .. Len(todo) : todo[i].op = "end" =>
         \A p \in Pids : Living(p) => Pending("kill", p)
    /\ \A i \in 1 .. Len(todo) : todo[i].op = "stop" =>
         /\ \A j \in 1 .. Len(todo) : todo[j].op \notin {"disable", "end"}
         /\ enabled \/ \E j \in 1 .. i - 1 : todo[j].op = "enable"

Resuming(p) == Pending("cont", p) /\ \A i \in 1 .. Len(todo) : todo[i].op # "start"

\* While scheduling is off, one process at most is, or can become, paused and
\* is not about to be resumed: the one the thread picked before.
OnePaused(x) ==
    /\ \A p \in Pids : st[p] = "stop" /\ p # x => Resuming(p)
    /\ tpc = "kill_stop" => current = x

CommandInv ==
    /\ WellOrdered
    /\ Following
    /\ Pausing
    /\ enabled \/ \E x \in Pids \cup {NoPid} : OnePaused(x)

\* The calls left after the first one, behind the calls pre that it puts in its
\* place.
Shifted(pre) ==
    /\ Len(todo) \in Nat \ {0} /\ Len(pre) \in Nat
    /\ Head(todo) = todo[1]
    /\ Len(todo') = Len(pre) + Len(todo) - 1
    /\ \A i \in 1 .. Len(pre) : todo'[i] = pre[i]
    /\ \A i \in 2 .. Len(todo) : todo'[i - 1 + Len(pre)] = todo[i]

\* Return and Goto shift the calls.
LEMMA TodoShift ==
    ASSUME todo \in Seq(ProperCalls), todo # << >>
    PROVE  /\ \A pre \in Seq(ProperCalls) : Goto(pre) => Shifted(pre)
           /\ Return => Shifted(<< >>)
<1>1. /\ Tail(todo) \in Seq(ProperCalls) /\ Len(Tail(todo)) = Len(todo) - 1
      /\ Head(todo) = todo[1]
      /\ \A i \in 1 .. Len(todo) - 1 : Tail(todo)[i] = todo[i + 1]
  BY HeadTailProperties
<1>2. Len(todo) \in Nat \ {0}
  BY EmptySeq, LenProperties, Zenon
<1>3. ASSUME NEW pre \in Seq(ProperCalls), Goto(pre) PROVE Shifted(pre)
  <2>1. Len(pre) \in Nat
    BY LenProperties, Zenon
  <2>2. /\ Len(todo') = Len(pre) + Len(Tail(todo))
        /\ \A i \in 1 .. Len(pre) + Len(Tail(todo)) :
             todo'[i] = IF i <= Len(pre) THEN pre[i] ELSE Tail(todo)[i - Len(pre)]
    BY <1>1, <1>3, ConcatProperties, Zenon DEF Goto
  <2>3. ASSUME NEW i \in 2 .. Len(todo) PROVE todo'[i - 1 + Len(pre)] = todo[i]
    BY <1>1, <1>2, <2>1, <2>2
  <2>4. \A i \in 1 .. Len(pre) : todo'[i] = pre[i]
    BY <1>1, <1>2, <2>1, <2>2
  <2> QED
    BY <1>1, <1>2, <2>1, <2>2, <2>3, <2>4, Zenon DEF Shifted
<1>4. ASSUME Return PROVE Shifted(<< >>)
  <2>1. \A i \in 2 .. Len(todo) : Tail(todo)[i - 1 + 0] = todo[i]
    BY <1>1, <1>2
  <2> QED
    BY <1>1, <1>2, <1>4, <2>1 DEF Return, Shifted
<1> QED
  BY <1>3, <1>4, Zenon

\* Every call is one of pre or was waiting behind the first, and the calls that
\* were waiting still are.
LEMMA ShiftFacts ==
    ASSUME NEW pre, Shifted(pre)
    PROVE  /\ \A i \in 1 .. Len(todo') :
                \/ i \in 1 .. Len(pre) /\ todo'[i] = pre[i]
                \/ \E j \in 2 .. Len(todo) : i = j - 1 + Len(pre) /\ todo'[i] = todo[j]
           /\ \A j \in 2 .. Len(todo) :
                j - 1 + Len(pre) \in 1 .. Len(todo') /\ todo'[j - 1 + Len(pre)] = todo[j]
           /\ \A i \in 1 .. Len(pre) : i \in 1 .. Len(todo') /\ todo'[i] = pre[i]
           /\ \A op, p : Pending(op, p) /\ ~(Head(todo).op = op /\ Head(todo).pid = p)
                => Pending(op, p)'
<1>1. ASSUME NEW i \in 1 .. Len(todo'), i \notin 1 .. Len(pre)
      PROVE  \E j \in 2 .. Len(todo) : i = j - 1 + Len(pre) /\ todo'[i] = todo[j]
  <2>1. /\ i + 1 - Len(pre) \in 2 .. Len(todo)
        /\ i = (i + 1 - Len(pre)) - 1 + Len(pre)
    BY <1>1 DEF Shifted
  <2> QED
    BY <2>1, ZenonT(60) DEF Shifted
<1>2. \A j \in 2 .. Len(todo) :
        j - 1 + Len(pre) \in 1 .. Len(todo') /\ todo'[j - 1 + Len(pre)] = todo[j]
  BY DEF Shifted
<1>3. \A i \in 1 .. Len(pre) : i \in 1 .. Len(todo') /\ todo'[i] = pre[i]
  BY DEF Shifted
<1>4. ASSUME NEW op, NEW p, Pending(op, p), ~(Head(todo).op = op /\ Head(todo).pid = p)
      PROVE  Pending(op, p)'
  <2>1. PICK j \in 1 .. Len(todo) : todo[j].op = op /\ todo[j].pid = p
    BY <1>4, Zenon DEF Pending
  <2>2. j \in 2 .. Len(todo)
    BY <1>4, <2>1 DEF Shifted
  <2> QED
    BY <1>2, <2>1, <2>2, Zenon DEF Pending
<1> QED
  BY <1>1, <1>2, <1>3, <1>4, Zenon DEF Shifted

\* The calls that a call of the main thread puts in its place.
Replaces(pre) ==
    \/ pre = << >>
    \/ Doing("sync") /\ pre = <<Call("remove", Arg)>>
    \/ /\ Doing("spawn_fg") \/ Doing("spawn_bg")
       /\ \E p \in Pids : pre = <<Call("wait", p)>> \/ pre = <<Call("add", p)>>
    \/ Doing("kill") /\ pre = <<Call("wait", Arg), Call("remove", Arg)>>
    \/ Doing("stop_thread") /\ pre = <<Call("join", NoPid)>>

\* The order of the calls of a command survives each of them.
LEMMA OrderStep ==
    ASSUME WellOrdered, NEW pre, Shifted(pre), Replaces(pre)
    PROVE  WellOrdered'
<1>1. \A k \in 1 .. Len(pre) :
        \/ Head(todo).op \in Reaping /\ pre[k].op \in {"wait", "remove", "join"}
        \/ Head(todo).op \in Closing /\ pre[k].op \in {"wait", "add"} /\ k = 1 /\ Len(pre) = 1
  BY DEF Replaces, Doing, Call, Reaping, Closing
<1>0. \A op : op \in Reaping => op \notin Closing
  BY Zenon DEF Reaping, Closing
<1>5. \A k \in 1 .. Len(pre) : pre[k].op \notin Closing
  BY <1>1, Zenon DEF Closing
<1>2. ASSUME NEW i \in 1 .. Len(todo'), NEW j \in 1 .. Len(todo'),
             todo'[i].op \in Reaping, todo'[j].op \in Refreshing
      PROVE  FALSE
  <2>1. CASE Len(pre) # 0 /\ Head(todo).op \in Closing
    <3>1. Len(todo) = 1
      <4>1. 1 \in 1 .. Len(todo) /\ todo[1].op \in Closing
        BY <2>1 DEF Shifted
      <4>2. \A k \in 1 .. Len(todo) : todo[k].op \in Closing => k = Len(todo)
        BY Zenon DEF WellOrdered
      <4> QED
        BY <4>1, <4>2, ZenonT(60)
    <3>2. 1 \in 1 .. Len(pre)
      BY <2>1 DEF Shifted
    <3>3. Len(pre) = 1
      BY <1>0, <1>1, <2>1, <3>2, Zenon
    <3> QED
      BY <1>1, <1>2, <3>1, <3>3 DEF Shifted, Reaping, Refreshing
  <2>2. CASE Len(pre) = 0 \/ Head(todo).op \notin Closing
    <3>0. ASSUME NEW k \in 1 .. Len(pre)
          PROVE  Head(todo).op \in Reaping /\ pre[k].op \notin Refreshing
      <4>1. Len(pre) # 0
        BY DEF Shifted
      <4> QED
        BY <1>1, <2>2, <4>1, Zenon DEF Refreshing
    <3>1. \E b \in 2 .. Len(todo) : todo'[j] = todo[b]
      <4>1. ~(j \in 1 .. Len(pre) /\ todo'[j] = pre[j])
        BY <1>2, <3>0, ZenonT(60)
      <4> QED
        BY <4>1, ShiftFacts, Zenon
    <3>2. CASE i \in 1 .. Len(pre)
      <4>1. 1 \in 1 .. Len(todo) /\ todo[1].op \in Reaping
        BY <3>0, <3>2 DEF Shifted
      <4> QED
        BY <1>2, <3>1, <4>1, SMTT(60) DEF WellOrdered, Shifted
    <3>3. CASE i \notin 1 .. Len(pre)
      <4>1. \E a \in 2 .. Len(todo) : todo'[i] = todo[a]
        BY <3>3, ShiftFacts, ZenonT(60)
      <4> QED
        BY <1>2, <3>1, <4>1, SMTT(60) DEF WellOrdered, Shifted
    <3> QED
      BY <3>2, <3>3, Zenon
  <2> QED
    BY <2>1, <2>2, Zenon
<1>3. ASSUME NEW i \in 1 .. Len(todo'), todo'[i].op \in Closing PROVE i = Len(todo')
  <2>1. PICK j \in 2 .. Len(todo) : i = j - 1 + Len(pre) /\ todo'[i] = todo[j]
    BY <1>3, <1>5, ShiftFacts, SMTT(60)
  <2> QED
    BY <1>3, <2>1, SMTT(60) DEF WellOrdered, Shifted
<1>4. ASSUME NEW i \in 1 .. Len(todo'), todo'[i].op = "disable" PROVE i = 1
  <2>1. PICK j \in 2 .. Len(todo) : todo'[i] = todo[j]
    BY <1>1, <1>4, ShiftFacts, SMTT(60)
  <2> QED
    BY <1>4, <2>1, SMTT(60) DEF WellOrdered, Shifted
<1> QED
  BY <1>2, <1>3, <1>4, Zenon DEF WellOrdered

\* What keeps the targets and the RUNNING records together when a call is made:
\* the targets it leaves are accounted for, it adds running containers only, and
\* makes no container a target that is waited for.
LEMMA FollowShift ==
    ASSUME Following, NEW pre, Shifted(pre),
           \A i \in 1 .. Len(targets') : In(running, targets[i])' \/ Pending("remove", targets[i])',
           \A k \in 1 .. Len(pre) : pre[k].op = "add" => In(running', pre[k].pid),
           \A j \in 2 .. Len(todo) : todo[j].op = "add" => In(running', todo[j].pid),
           \A k \in 1 .. Len(pre) : pre[k].op = "wait" =>
             \/ ~In(targets', pre[k].pid)
             \/ k + 1 \in 1 .. Len(pre) /\ pre[k + 1].op = "remove" /\ pre[k + 1].pid = pre[k].pid,
           \A j \in 2 .. Len(todo) : todo[j].op = "wait" =>
             (In(targets', todo[j].pid) => In(targets, todo[j].pid))
    PROVE  Following'
<1>1. ASSUME NEW i \in 1 .. Len(todo'), todo'[i].op = "add" PROVE In(running', todo'[i].pid)
  BY <1>1, ShiftFacts, SMTT(60)
<1>2. ASSUME NEW i \in 1 .. Len(todo'), todo'[i].op = "wait", In(targets', todo'[i].pid)
      PROVE  \E j \in i + 1 .. Len(todo') :
               todo'[j].op = "remove" /\ todo'[j].pid = todo'[i].pid
  <2>1. CASE i \in 1 .. Len(pre) /\ todo'[i] = pre[i]
    <3>1. i + 1 \in 1 .. Len(pre) /\ pre[i + 1].op = "remove" /\ pre[i + 1].pid = pre[i].pid
      BY <1>2, <2>1, ZenonT(60)
    <3>2. i + 1 \in i + 1 .. Len(todo') /\ todo'[i + 1] = pre[i + 1]
      BY <3>1, ShiftFacts, SMTT(60) DEF Shifted
    <3> QED
      BY <2>1, <3>1, <3>2, ZenonT(60)
  <2>2. CASE \E j \in 2 .. Len(todo) : i = j - 1 + Len(pre) /\ todo'[i] = todo[j]
    <3>1. PICK j \in 2 .. Len(todo) : i = j - 1 + Len(pre) /\ todo'[i] = todo[j]
      BY <2>2, ZenonT(60)
    <3>2. In(targets, todo[j].pid)
      BY <1>2, <3>1, ZenonT(60)
    <3>3. PICK k \in j + 1 .. Len(todo) : todo[k].op = "remove" /\ todo[k].pid = todo[j].pid
      BY <1>2, <3>1, <3>2, SMTT(60) DEF Following, Shifted
    <3>4. /\ k - 1 + Len(pre) \in i + 1 .. Len(todo')
          /\ todo'[k - 1 + Len(pre)] = todo[k]
      BY <3>1, SMTT(60) DEF Shifted
    <3> QED
      BY <3>1, <3>3, <3>4, SMTT(60)
  <2> QED
    BY <2>1, <2>2, ShiftFacts, SMTT(60)
<1> QED
  BY <1>1, <1>2, ZenonT(60) DEF Following

\* The list of RUNNING records after a record is inserted and after one is removed.
LEMMA RunsFacts ==
    ASSUME running \in Seq(Pids), NEW p \in Pids
    PROVE  /\ \A k \in 1 .. Len(running) + 1 :
                running' = InsertAt(running, k, p) =>
                  In(running', p) /\ \A q : In(running, q) => In(running', q)
           /\ Reap(p) => \A q : In(running, q) /\ q # p => In(running', q)
<1>0. Len(running) \in Nat
  BY LenProperties, Zenon
<1>1. ASSUME NEW k \in 1 .. Len(running) + 1, running' = InsertAt(running, k, p)
      PROVE  In(running', p) /\ \A q : In(running, q) => In(running', q)
  <2>1. /\ Len(running') = Len(running) + 1
        /\ \A i \in 1 .. Len(running) + 1 :
             running'[i] = IF i < k THEN running[i] ELSE IF i = k THEN p ELSE running[i - 1]
    <3> DEFINE a == SubSeq(running, 1, k - 1)
               b == SubSeq(running, k, Len(running))
               one == <<p>>
               ap == a \o one
    <3>1. /\ a \in Seq(Pids) /\ Len(a) = k - 1
          /\ \A i \in 1 .. k - 1 : a[i] = running[i]
      BY <1>0, SubSeqProperties, ElementOfSeq, IsASeq, SMTT(60)
    <3>2. /\ b \in Seq(Pids) /\ Len(b) = Len(running) - k + 1
          /\ \A i \in 1 .. Len(running) - k + 1 : b[i] = running[k + i - 1]
      BY <1>0, SubSeqProperties, ElementOfSeq, IsASeq, SMTT(60)
    <3>3. one \in Seq(Pids) /\ Len(one) = 1 /\ one[1] = p
      OBVIOUS
    <3>4. running' = ap \o b
      BY <1>1, Zenon DEF InsertAt
    <3> HIDE DEF a, b, one
    <3>5. /\ ap \in Seq(Pids) /\ Len(ap) = k
          /\ \A i \in 1 .. k : ap[i] = IF i < k THEN running[i] ELSE p
      <4>1. /\ ap \in Seq(Pids) /\ Len(ap) = Len(a) + Len(one)
            /\ \A i \in 1 .. Len(a) + Len(one) :
                 ap[i] = IF i <= Len(a) THEN a[i] ELSE one[i - Len(a)]
        BY <3>1, <3>3, ConcatProperties, ZenonT(60)
      <4> HIDE DEF ap
      <4> QED
        BY <1>0, <3>1, <3>3, <4>1, SMTT(60)
    <3> HIDE DEF ap
    <3>6. /\ Len(ap \o b) = Len(ap) + Len(b)
          /\ \A i \in 1 .. Len(ap) + Len(b) :
               (ap \o b)[i] = IF i <= Len(ap) THEN ap[i] ELSE b[i - Len(ap)]
      BY <3>2, <3>5, ConcatProperties, ZenonT(60)
    <3> QED
      BY <1>0, <3>2, <3>4, <3>5, <3>6, SMTT(60)
  <2>2. In(running', p)
    BY <1>0, <2>1 DEF In
  <2>3. ASSUME NEW q, In(running, q) PROVE In(running', q)
    <3>1. PICK i \in 1 .. Len(running) : running[i] = q
      BY <2>3, Zenon DEF In
    <3>2. CASE i < k
      BY <1>0, <2>1, <3>1, <3>2, SMTT(60) DEF In
    <3>3. CASE i >= k
      <4>1. i + 1 \in 1 .. Len(running') /\ running'[i + 1] = q
        BY <1>0, <2>1, <3>1, <3>3, SMTT(60)
      <4> QED
        BY <4>1, Zenon DEF In
    <3> QED
      BY <1>0, <3>2, <3>3, SMTT(60)
  <2> QED
    BY <2>2, <2>3, Zenon
<1>2. ASSUME Reap(p), NEW q, In(running, q), q # p PROVE In(running', q)
  <2>1. PICK k \in 1 .. Len(running) : running[k] = p /\ running' = RemoveAt(running, k)
    BY <1>2, Zenon DEF Reap
  <2>2. /\ Len(running') = Len(running) - 1
        /\ \A i \in 1 .. Len(running) - 1 :
             running'[i] = IF i < k THEN running[i] ELSE running[i + 1]
    <3> DEFINE a == SubSeq(running, 1, k - 1)
               b == SubSeq(running, k + 1, Len(running))
    <3>1. /\ a \in Seq(Pids) /\ Len(a) = k - 1
          /\ \A i \in 1 .. k - 1 : a[i] = running[i]
      BY <1>0, <2>1, SMTT(60)
    <3>2. /\ b \in Seq(Pids) /\ Len(b) = Len(running) - k
          /\ \A i \in 1 .. Len(running) - k : b[i] = running[i + k]
      BY <1>0, <2>1, SMTT(60)
    <3>3. running' = a \o b
      BY <2>1, Zenon DEF RemoveAt
    <3> HIDE DEF a, b
    <3>4. /\ Len(a \o b) = Len(a) + Len(b)
          /\ \A i \in 1 .. Len(a) + Len(b) :
               (a \o b)[i] = IF i <= Len(a) THEN a[i] ELSE b[i - Len(a)]
      BY <3>1, <3>2, ConcatProperties, Zenon
    <3> QED
      BY <1>0, <3>1, <3>2, <3>3, <3>4, SMTT(60)
  <2>3. PICK i \in 1 .. Len(running) : running[i] = q
    BY <1>2, Zenon DEF In
  <2>4. CASE i < k
    BY <1>0, <2>2, <2>3, <2>4 DEF In
  <2>5. CASE i > k
    <3>1. i - 1 \in 1 .. Len(running') /\ running'[i - 1] = q
      BY <1>0, <2>2, <2>3, <2>5
    <3> QED
      BY <3>1, Zenon DEF In
  <2> QED
    BY <1>0, <1>2, <2>1, <2>3, <2>4, <2>5, SMTT(60)
<1> QED
  BY <1>1, <1>2, Zenon

\* The members of the array after scheduler_add_target and
\* scheduler_remove_target.
LEMMA TargetMembers ==
    ASSUME ArrayOK, NEW p \in Pids
    PROVE  /\ targets' = Append(targets, p) =>
                \A q : In(targets', q) => In(targets, q) \/ q = p
           /\ \A i \in 1 .. Len(targets) :
                /\ targets[i] = p
                /\ targets' = [j \in 1 .. Len(targets) - 1 |->
                                 IF j = i THEN targets[Len(targets)] ELSE targets[j]]
                => \A q : In(targets', q) => In(targets, q) /\ q # p
<1>0. Len(targets) \in Nat /\ targets \in Seq(Pids)
  BY LenProperties, Zenon DEF ArrayOK
<1>1. ASSUME targets' = Append(targets, p), NEW q, In(targets', q), q # p
      PROVE  In(targets, q)
  <2>1. /\ Len(targets') = Len(targets) + 1
        /\ \A k \in 1 .. Len(targets) : targets'[k] = targets[k]
        /\ targets'[Len(targets) + 1] = p
    BY <1>0, <1>1, AppendProperties, SMTT(60)
  <2>2. PICK k \in 1 .. Len(targets') : targets'[k] = q
    BY <1>1, Zenon DEF In
  <2>3. k \in 1 .. Len(targets)
    BY <1>0, <1>1, <2>1, <2>2
  <2> QED
    BY <2>1, <2>2, <2>3, Zenon DEF In
<1>2. ASSUME NEW i \in 1 .. Len(targets), targets[i] = p,
             targets' = [j \in 1 .. Len(targets) - 1 |->
                           IF j = i THEN targets[Len(targets)] ELSE targets[j]],
             NEW q, In(targets', q)
      PROVE  In(targets, q) /\ q # p
  <2>1. Len(targets') = Len(targets) - 1
    BY <1>0, <1>2, SMTT(60)
  <2>2. PICK k \in 1 .. Len(targets) - 1 : targets'[k] = q
    BY <1>2, <2>1, Zenon DEF In
  <2>3. PICK m \in 1 .. Len(targets) : targets[m] = q /\ m # i
    BY <1>0, <1>2, <2>2, SMTT(60)
  <2> QED
    BY <1>2, <2>3, Zenon DEF In, ArrayOK
<1> QED
  BY <1>1, <1>2, Zenon

\* prune_dead_locked adds no target.
LEMMA PruneMembers ==
    ASSUME targets \in Seq(Pids), NEW n \in 0 .. Len(targets),
           NEW f \in [1 .. n -> 1 .. Len(targets)], prune_dead_locked(n, f),
           NEW q, In(targets', q)
    PROVE  In(targets, q)
<1>1. targets' = [k \in 1 .. n |-> targets[f[k]]] /\ Len(targets) \in Nat
  BY LenProperties, Zenon DEF prune_dead_locked
<1>2. Len(targets') = n
  BY <1>1
<1> QED
  BY <1>1, <1>2, Zenon DEF In

\* The calls of a command keep the targets and the RUNNING records together.
LEMMA FollowingMain ==
    ASSUME SchedInv, WellOrdered, Following, Main
    PROVE  Following'
<1>0. todo \in Seq(ProperCalls) /\ running \in Seq(Pids) /\ ArrayOK
  BY Zenon DEF SchedInv, TypeOK, TargetsWellFormed, ArrayOK
<1>1. todo # << >>
  BY ZenonT(60) DEF Main, scheduler_start, scheduler_set_enabled, scheduler_clear_targets,
         scheduler_add_target, scheduler_remove_target, Signal, Sync, Spawn, Kill,
         Wait, StopThread, Join, End, Doing
<1>2. /\ \A pre \in Seq(ProperCalls) : Goto(pre) => Shifted(pre)
      /\ Return => Shifted(<< >>)
      /\ Len(<< >>) = 0
  BY <1>0, <1>1, TodoShift, Zenon
<1>3. Head(todo) \in ProperCalls /\ Head(todo) = todo[1] /\ 1 \in 1 .. Len(todo)
  BY <1>0, <1>1, HeadTailProperties, EmptySeq, SMTT(60)
<1>4. ASSUME Head(todo).op \in Reaping, NEW i \in 1 .. Len(todo) PROVE todo[i].op # "add"
  BY <1>3, <1>4, Zenon DEF WellOrdered, Refreshing
<1>5. ASSUME NEW pre, Shifted(pre), \A k \in 1 .. Len(pre) : pre[k].op \notin {"add", "wait"},
             \A q : In(running, q) => In(running', q),
             \A q : In(targets', q) =>
               In(targets, q) /\ ~(Head(todo).op = "remove" /\ Head(todo).pid = q)
      PROVE  Following'
  <2>1. ASSUME NEW i \in 1 .. Len(targets')
        PROVE  In(running, targets[i])' \/ Pending("remove", targets[i])'
    <3>1. PICK j \in 1 .. Len(targets) : targets[j] = targets'[i]
      BY <1>5, ZenonT(60) DEF In
    <3>2. CASE In(running, targets[j])
      BY <1>5, <3>1, <3>2, Zenon
    <3>3. CASE Pending("remove", targets[j])
      <4>1. ~(Head(todo).op = "remove" /\ Head(todo).pid = targets[j])
        BY <1>5, <3>1, Zenon DEF In
      <4>2. ASSUME NEW q, q = targets[j] PROVE Pending("remove", q)'
        BY <1>5, <3>3, <4>1, <4>2, ShiftFacts, ZenonT(60)
      <4> QED
        BY <3>1, <4>2, Zenon DEF Pending
    <3> QED
      BY <3>2, <3>3, Zenon DEF Following
  <2>2. \A j \in 2 .. Len(todo) : todo[j].op = "add" => In(running', todo[j].pid)
    BY <1>5, SMTT(60) DEF Following, Shifted
  <2> QED
    BY <1>5, <2>1, <2>2, FollowShift, ZenonT(60)
<1>6. CASE scheduler_start /\ todo' = << >>
  <2>1. \A i \in 1 .. Len(todo) : todo[i].op # "remove"
    BY <1>3, <1>6, Zenon DEF scheduler_start, Doing, WellOrdered, Reaping, Refreshing
  <2>2. UNCHANGED <<targets, running>> /\ Len(todo') = 0
    BY <1>6, Zenon DEF scheduler_start, array
  <2>3. \A i \in 1 .. Len(targets) : In(running, targets[i])
    BY <2>1, Zenon DEF Following, Pending
  <2> QED
    BY <2>2, <2>3, SMTT(60) DEF Following, In
<1>7. CASE \/ scheduler_start /\ Return
           \/ scheduler_set_enabled \/ scheduler_clear_targets \/ Signal \/ Join \/ End
  <2>1. Return /\ UNCHANGED running /\ Head(todo).op # "remove"
    BY <1>7, ZenonT(60) DEF scheduler_start, scheduler_set_enabled, scheduler_clear_targets, Signal, Join,
                End, Doing
  <2>2. UNCHANGED targets \/ targets' = << >>
    BY <1>7, ZenonT(60) DEF scheduler_start, scheduler_set_enabled, scheduler_clear_targets, Signal, Join,
                End, array
  <2>3. \A q : In(targets', q) => In(targets, q)
    BY <2>2, SMTT(60) DEF In
  <2> QED
    BY <1>2, <1>5, <2>1, <2>3, SMTT(60)
<1>8. CASE scheduler_add_target
  <2>1. Return /\ UNCHANGED running /\ Head(todo).op = "add"
    BY <1>8, Zenon DEF scheduler_add_target, Doing
  <2>2. Arg \in Pids /\ In(running, Arg)
    BY <1>3, <2>1, ZenonT(60) DEF Arg, ProperCalls, Following
  <2>3. \A q : In(targets', q) => In(targets, q) \/ q = Arg
    BY <1>0, <1>8, <2>2, TargetMembers, ZenonT(60) DEF scheduler_add_target
  <2>4. \A j \in 1 .. Len(todo) : todo[j].op \notin {"wait", "remove"}
    BY <1>3, <2>1, Zenon DEF WellOrdered, Reaping, Refreshing
  <2>5. ASSUME NEW i \in 1 .. Len(targets') PROVE In(running, targets[i])'
    <3>1. In(targets', targets'[i])
      BY Zenon DEF In
    <3>2. CASE targets'[i] = Arg
      BY <2>1, <2>2, <3>2, Zenon
    <3>3. CASE In(targets, targets'[i])
      BY <2>1, <2>4, <3>3, SMTT(60) DEF Following, In, Pending
    <3> QED
      BY <2>3, <3>1, <3>2, <3>3, Zenon
  <2>6. \A j \in 2 .. Len(todo) : todo[j].op = "add" => In(running', todo[j].pid)
    BY <1>3, <2>1, SMTT(60) DEF Following
  <2> QED
    BY <1>2, <2>1, <2>4, <2>5, <2>6, FollowShift, SMTT(60)
<1>9. CASE scheduler_remove_target
  <2>1. Return /\ UNCHANGED running /\ Head(todo).op = "remove"
    BY <1>9, Zenon DEF scheduler_remove_target, Doing
  <2>2. Arg \in Pids
    BY <1>3, <2>1, Zenon DEF Arg, ProperCalls
  <2>3. \A q : In(targets', q) => In(targets, q) /\ q # Arg
    <3>1. CASE ~Tracked(Arg) /\ UNCHANGED targets
      BY <3>1, Zenon DEF Tracked, In
    <3>2. ASSUME NEW i \in 1 .. Len(targets), targets[i] = Arg,
                 targets' = [j \in 1 .. Len(targets) - 1 |->
                               IF j = i THEN targets[Len(targets)] ELSE targets[j]]
          PROVE  \A q : In(targets', q) => In(targets, q) /\ q # Arg
      BY <1>0, <2>2, <3>2, TargetMembers, Zenon
    <3> QED
      BY <1>9, <3>1, <3>2, Zenon DEF scheduler_remove_target
  <2> QED
    BY <1>2, <1>5, <2>1, <2>3, SMTT(60) DEF Arg
<1>10. CASE Sync
  <2>1. Arg \in Pids /\ UNCHANGED targets /\ Head(todo).op = "sync"
    BY <1>3, <1>10, Zenon DEF Sync, Doing, Arg, ProperCalls, array
  <2>2. CASE Return /\ UNCHANGED <<running, st>>
    BY <1>2, <1>5, <2>1, <2>2, SMTT(60)
  <2>3. CASE Reap(Arg) /\ Goto(DropTarget(Arg))
    <3> DEFINE pre == <<Call("remove", Arg)>>
    <3>1. /\ pre \in Seq(ProperCalls) /\ Len(pre) = 1
          /\ pre[1].op = "remove" /\ pre[1].pid = Arg
      BY <2>1, SMTT(60) DEF ProperCalls, Call, Ops
    <3>2. Shifted(pre)
      BY <1>2, <2>3, <3>1, ZenonT(60) DEF DropTarget
    <3> HIDE DEF pre
    <3>3. \A q : In(running, q) /\ q # Arg => In(running', q)
      BY <1>0, <2>1, <2>3, RunsFacts, Zenon
    <3>4. ASSUME NEW i \in 1 .. Len(targets')
          PROVE  In(running, targets[i])' \/ Pending("remove", targets[i])'
      <4>1. CASE targets[i] = Arg
        <5>1. 1 \in 1 .. Len(todo') /\ todo'[1] = pre[1]
          BY <3>1, <3>2, ShiftFacts, SMTT(60)
        <5> QED
          BY <2>1, <3>1, <4>1, <5>1, Zenon DEF Pending
      <4>2. CASE targets[i] # Arg
        <5>1. ASSUME NEW q, q = targets[i], Pending("remove", q) PROVE Pending("remove", q)'
          BY <2>1, <3>2, <5>1, ShiftFacts, ZenonT(60)
        <5> QED
          BY <2>1, <3>3, <4>2, <5>1, ZenonT(60) DEF Following, Pending
      <4> QED
        BY <4>1, <4>2, Zenon
    <3>5. Head(todo).op \in Reaping
      BY <2>1, Zenon DEF Reaping
    <3>6. \A j \in 2 .. Len(todo) : todo[j].op # "add"
      BY <1>3, <1>4, <3>5
    <3> QED
      BY <2>1, <3>1, <3>2, <3>4, <3>6, FollowShift, SMTT(60)
  <2> QED
    BY <1>10, <2>2, <2>3, Zenon DEF Sync
<1>11. CASE Spawn
  <2>1. UNCHANGED targets /\ Head(todo).op \in {"spawn_fg", "spawn_bg"}
    BY <1>11, Zenon DEF Spawn, Doing, array
  <2>2. CASE Return /\ UNCHANGED <<running, st>>
    BY <1>2, <1>5, <2>1, <2>2, SMTT(60)
  <2>3. ASSUME NEW p \in Pids, NEW k \in 1 .. Len(running) + 1, Fresh(p),
               running' = InsertAt(running, k, p),
               Goto(<<Call(IF Doing("spawn_fg") THEN "wait" ELSE "add", p)>>)
        PROVE  Following'
    <3> DEFINE pre == <<Call(IF Doing("spawn_fg") THEN "wait" ELSE "add", p)>>
    <3>1. /\ pre \in Seq(ProperCalls) /\ Len(pre) = 1
          /\ pre[1].op \in {"wait", "add"} /\ pre[1].pid = p
      BY SMTT(60) DEF ProperCalls, Call, Ops
    <3>2. Shifted(pre)
      BY <1>2, <2>3, <3>1, ZenonT(60)
    <3> HIDE DEF pre
    <3>3. In(running', p) /\ \A q : In(running, q) => In(running', q)
      BY <1>0, <2>3, RunsFacts, Zenon
    <3>4. ~In(targets', p)
      BY <2>1, <2>3, ZenonT(60) DEF Fresh, Tracked, In
    <3>5. ASSUME NEW i \in 1 .. Len(targets')
          PROVE  In(running, targets[i])' \/ Pending("remove", targets[i])'
      <4>1. ASSUME NEW q, q = targets[i], Pending("remove", q) PROVE Pending("remove", q)'
        BY <2>1, <3>2, <4>1, ShiftFacts, ZenonT(60)
      <4> QED
        BY <2>1, <3>3, <4>1, ZenonT(60) DEF Following, Pending
    <3>6. \A j \in 2 .. Len(todo) : todo[j].op = "add" => In(running', todo[j].pid)
      BY <1>3, <3>2, <3>3, SMTT(60) DEF Following, Shifted
    <3> QED
      BY <2>1, <3>1, <3>2, <3>3, <3>4, <3>5, <3>6, FollowShift, SMTT(60)
  <2> QED
    BY <1>11, <2>2, <2>3, ZenonT(60) DEF Spawn
<1>12. CASE Kill
  <2>1. Arg \in Pids /\ UNCHANGED <<targets, running>> /\ Head(todo).op = "kill"
    BY <1>3, <1>12, ZenonT(60) DEF Kill, Doing, Arg, ProperCalls, array
  <2>2. CASE Return
    BY <1>2, <1>5, <2>1, <2>2, SMTT(60)
  <2>3. CASE Goto(<<Call("wait", Arg), Call("remove", Arg)>>)
    <3> DEFINE pre == <<Call("wait", Arg), Call("remove", Arg)>>
    <3>1. /\ pre \in Seq(ProperCalls) /\ Len(pre) = 2
          /\ pre[1].op = "wait" /\ pre[2].op = "remove"
          /\ pre[1].pid = Arg /\ pre[2].pid = Arg
      BY <2>1, SMTT(60) DEF ProperCalls, Call, Ops
    <3>2. Shifted(pre)
      BY <1>2, <2>3, <3>1, ZenonT(60)
    <3> HIDE DEF pre
    <3>3. ASSUME NEW i \in 1 .. Len(targets')
          PROVE  In(running, targets[i])' \/ Pending("remove", targets[i])'
      <4>1. ASSUME NEW q, q = targets[i], Pending("remove", q) PROVE Pending("remove", q)'
        BY <2>1, <3>2, <4>1, ShiftFacts, ZenonT(60)
      <4> QED
        BY <2>1, <4>1, ZenonT(60) DEF Following, Pending
    <3>4. \A j \in 2 .. Len(todo) : todo[j].op = "add" => In(running', todo[j].pid)
      BY <1>3, <2>1, <3>2, SMTT(60) DEF Following, Shifted
    <3>5. ASSUME NEW k \in 1 .. Len(pre)
          PROVE  /\ pre[k].op # "add"
                 /\ pre[k].op = "wait" =>
                      /\ k + 1 \in 1 .. Len(pre)
                      /\ pre[k + 1].op = "remove" /\ pre[k + 1].pid = pre[k].pid
      <4>1. k = 1 \/ k = 2
        BY <3>1, SMTT(60)
      <4> QED
        BY <3>1, <4>1
    <3> QED
      BY <2>1, <3>2, <3>3, <3>4, <3>5, FollowShift, ZenonT(60)
  <2> QED
    BY <1>12, <2>2, <2>3, ZenonT(60) DEF Kill
<1>13. CASE Wait
  <2>1. /\ Arg \in Pids /\ UNCHANGED targets /\ Head(todo).op = "wait"
        /\ Reap(Arg) /\ Shifted(<< >>)
    BY <1>2, <1>3, <1>13, ZenonT(60) DEF Wait, Doing, Arg, ProperCalls, array
  <2>2. \A q : In(running, q) /\ q # Arg => In(running', q)
    BY <1>0, <2>1, RunsFacts, Zenon
  <2>3. ASSUME NEW i \in 1 .. Len(targets')
        PROVE  In(running, targets[i])' \/ Pending("remove", targets[i])'
    <3>1. CASE targets[i] = Arg
      <4>1. In(targets, Arg)
        BY <2>1, <3>1, Zenon DEF In
      <4>2. PICK j \in 2 .. Len(todo) : todo[j].op = "remove" /\ todo[j].pid = Arg
        BY <1>3, <2>1, <4>1, SMTT(60) DEF Following, Arg
      <4>3. j - 1 + 0 \in 1 .. Len(todo') /\ todo'[j - 1 + 0] = todo[j]
        BY <1>2, <2>1, ShiftFacts, SMTT(60)
      <4> QED
        BY <2>1, <3>1, <4>2, <4>3, ZenonT(60) DEF Pending
    <3>2. CASE targets[i] # Arg
      <4>1. ASSUME NEW q, q = targets[i], Pending("remove", q) PROVE Pending("remove", q)'
        BY <2>1, <4>1, ShiftFacts, ZenonT(60)
      <4> QED
        BY <2>1, <2>2, <3>2, <4>1, ZenonT(60) DEF Following, Pending
    <3> QED
      BY <3>1, <3>2
  <2>4. Head(todo).op \in Reaping
    BY <2>1, Zenon DEF Reaping
  <2>5. \A j \in 2 .. Len(todo) : todo[j].op # "add"
    BY <1>3, <1>4, <2>4
  <2> QED
    BY <1>2, <2>1, <2>3, <2>5, FollowShift, SMTT(60)
<1>14. CASE StopThread
  <2>1. UNCHANGED <<targets, running>> /\ Head(todo).op = "stop_thread"
    BY <1>14, Zenon DEF StopThread, Doing, array
  <2>2. CASE Return
    BY <1>2, <1>5, <2>1, <2>2, SMTT(60)
  <2>3. CASE Goto(<<Call("join", NoPid)>>)
    <3> DEFINE pre == <<Call("join", NoPid)>>
    <3>1. pre \in Seq(ProperCalls) /\ Len(pre) = 1 /\ pre[1].op = "join"
      BY SMTT(60) DEF ProperCalls, Call, Ops
    <3>2. Shifted(pre)
      BY <1>2, <2>3, <3>1, ZenonT(60)
    <3> HIDE DEF pre
    <3> QED
      BY <1>5, <2>1, <3>1, <3>2, SMTT(60)
  <2> QED
    BY <1>14, <2>2, <2>3, Zenon DEF StopThread
<1>15. scheduler_start => Return \/ todo' = << >>
  BY Zenon DEF scheduler_start
<1> QED
  BY <1>6, <1>7, <1>8, <1>9, <1>10, <1>11, <1>12, <1>13, <1>14, <1>15, Zenon DEF Main

\* What a call of the main thread leaves to be done: nothing after a failed
\* pthread_create, otherwise the rest of the command.
LEMMA MainCalls ==
    ASSUME SchedInv, Main
    PROVE  /\ todo # << >>
           /\ \/ scheduler_start /\ todo' = << >> /\ Len(todo') = 0
              \/ \E pre \in Seq(ProperCalls) : Shifted(pre) /\ Replaces(pre)
<1>0. todo \in Seq(ProperCalls)
  BY Zenon DEF SchedInv
<1>1. todo # << >>
  BY ZenonT(60) DEF Main, scheduler_start, scheduler_set_enabled, scheduler_clear_targets,
         scheduler_add_target, scheduler_remove_target, Signal, Sync, Spawn, Kill,
         Wait, StopThread, Join, End, Doing
<1>2. /\ \A pre \in Seq(ProperCalls) : Goto(pre) => Shifted(pre)
      /\ Return => Shifted(<< >>)
      /\ << >> \in Seq(ProperCalls)
  BY <1>0, <1>1, TodoShift, SMTT(60)
<1>3. Head(todo) \in ProperCalls
  BY <1>0, <1>1, HeadTailProperties, Zenon
<1>4. CASE Return
  BY <1>1, <1>2, <1>4, ZenonT(60) DEF Replaces
<1>5. CASE Sync /\ ~Return
  <2>1. Goto(DropTarget(Arg)) /\ Doing("sync")
    BY <1>5, ZenonT(60) DEF Sync
  <2>2. DropTarget(Arg) \in Seq(ProperCalls)
    BY <1>3, <2>1, SMTT(60) DEF Doing, Arg, DropTarget, Call, ProperCalls, Ops
  <2>3. Replaces(DropTarget(Arg))
    BY <2>1, Zenon DEF Replaces, DropTarget
  <2> QED
    BY <1>1, <1>2, <2>1, <2>2, <2>3, Zenon
<1>6. CASE Spawn /\ ~Return
  <2>1. PICK p \in Pids : Goto(<<Call(IF Doing("spawn_fg") THEN "wait" ELSE "add", p)>>)
    BY <1>6, Zenon DEF Spawn
  <2> DEFINE pre == <<Call(IF Doing("spawn_fg") THEN "wait" ELSE "add", p)>>
  <2>2. pre \in Seq(ProperCalls)
    BY DEF Call, ProperCalls, Ops
  <2>3. pre = <<Call("wait", p)>> \/ pre = <<Call("add", p)>>
    BY Zenon
  <2>4. Replaces(pre)
    BY <1>6, <2>3, ZenonT(60) DEF Replaces, Spawn
  <2> QED
    BY <1>1, <1>2, <2>1, <2>2, <2>4, Zenon
<1>7. CASE Kill /\ ~Return
  <2> DEFINE pre == <<Call("wait", Arg), Call("remove", Arg)>>
  <2>1. Goto(pre) /\ Doing("kill")
    BY <1>7, Zenon DEF Kill
  <2>2. pre \in Seq(ProperCalls)
    BY <1>3, <2>1, SMTT(60) DEF Doing, Arg, Call, ProperCalls, Ops
  <2>3. Replaces(pre)
    BY <2>1, Zenon DEF Replaces
  <2> QED
    BY <1>1, <1>2, <2>1, <2>2, <2>3, ZenonT(60)
<1>8. CASE StopThread /\ ~Return
  <2> DEFINE pre == <<Call("join", NoPid)>>
  <2>1. Goto(pre) /\ Doing("stop_thread")
    BY <1>8, Zenon DEF StopThread
  <2>2. pre \in Seq(ProperCalls)
    BY SMTT(60) DEF Call, ProperCalls, Ops
  <2>3. Replaces(pre)
    BY <2>1, Zenon DEF Replaces
  <2> QED
    BY <1>1, <1>2, <2>1, <2>2, <2>3, ZenonT(60)
<1>9. CASE scheduler_start /\ ~Return
  BY <1>1, <1>9, ZenonT(60) DEF scheduler_start
<1> QED
  BY <1>4, <1>5, <1>6, <1>7, <1>8, <1>9, ZenonT(60)
  DEF Main, scheduler_set_enabled, scheduler_clear_targets, scheduler_add_target,
      scheduler_remove_target, Signal, Wait, Join, End

\* A call of the main thread keeps the order of the calls behind it.
LEMMA OrderMain ==
    ASSUME SchedInv, WellOrdered, Main
    PROVE  WellOrdered'
<1>1. CASE Len(todo') = 0
  BY <1>1, SMTT(60) DEF WellOrdered
<1> QED
  BY <1>1, MainCalls, OrderStep, Zenon

\* What a call of the main thread does to the containers, the flag and the
\* thread, as far as the order of the calls matters to it.
Effects ==
    /\ \A q \in Pids : Living(q)' => In(running', q)
    /\ \A q \in Pids : Living(q)' =>
         /\ Living(q) \/ Head(todo).op \in {"spawn_fg", "spawn_bg"}
         /\ ~(Head(todo).op = "kill" /\ Head(todo).pid = q)
    /\ \A q \in Pids : st'[q] = "stop" =>
         /\ st[q] = "stop" \/ Head(todo).op = "stop"
         /\ ~(Head(todo).op = "cont" /\ Head(todo).pid = q)
    /\ enabled /\ ~enabled' => Head(todo).op \in {"disable", "end"}
    /\ Head(todo).op = "enable" => enabled'
    /\ tpc' = "kill_stop" => tpc = "kill_stop" /\ current' = current

\* Every call has these effects, when every living container has a RUNNING
\* record.
LEMMA MainEffects ==
    ASSUME SchedInv, Main, \A q \in Pids : Living(q) => In(running, q)
    PROVE  Effects
<1>0. /\ todo \in Seq(ProperCalls) /\ running \in Seq(Pids)
      /\ st \in [Pids -> {"free", "run", "stop", "zombie"}]
  BY Zenon DEF SchedInv, TypeOK
<1>1. todo # << >>
  BY MainCalls, Zenon
<1>2. Head(todo) \in ProperCalls
  BY <1>0, <1>1, HeadTailProperties, Zenon
<1>3. CASE \/ scheduler_start \/ scheduler_set_enabled \/ scheduler_clear_targets
           \/ scheduler_add_target \/ scheduler_remove_target \/ StopThread \/ Join \/ End
  <2>1. /\ UNCHANGED <<running, st, current>>
        /\ Head(todo).op \in {"start", "enable", "disable", "clear", "add", "remove",
                              "stop_thread", "join", "end"}
        /\ tpc' = "kill_stop" => tpc = "kill_stop"
    BY <1>3, ZenonT(60) DEF scheduler_start, scheduler_set_enabled, scheduler_clear_targets,
                scheduler_add_target, scheduler_remove_target, StopThread, Join, End, Doing, thread
  <2>2. /\ enabled /\ ~enabled' => Head(todo).op \in {"disable", "end"}
        /\ Head(todo).op = "enable" => enabled'
    <3>1. CASE scheduler_set_enabled
      <4>1. enabled' = Doing("enable") /\ (Doing("enable") \/ Doing("disable"))
        BY <3>1, Zenon DEF scheduler_set_enabled
      <4>2. Doing("enable") <=> Head(todo).op = "enable"
        BY <1>1, Zenon DEF Doing
      <4>3. Doing("disable") => Head(todo).op = "disable"
        BY Zenon DEF Doing
      <4> QED
        BY <4>1, <4>2, <4>3, ZenonT(60)
    <3>2. CASE End
      BY <3>2, Zenon DEF End, Doing
    <3>3. CASE UNCHANGED enabled /\ Head(todo).op # "enable"
      BY <3>3, ZenonT(60)
    <3> QED
      BY <1>3, <3>1, <3>2, <3>3, ZenonT(60)
      DEF scheduler_start, scheduler_clear_targets, scheduler_add_target,
          scheduler_remove_target, StopThread, Join, Doing
  <2> QED
    BY <2>1, <2>2, ZenonT(60) DEF Effects, Living
<1>4. CASE Signal
  <2>1. UNCHANGED <<enabled, running, thread>> /\ Head(todo).op \in {"stop", "cont"}
    BY <1>4, Zenon DEF Signal, Doing
  <2>2. ASSUME NEW q \in Pids
        PROVE  /\ Living(q)' => Living(q)
               /\ st'[q] = "stop" =>
                    /\ st[q] = "stop" \/ Head(todo).op = "stop"
                    /\ ~(Head(todo).op = "cont" /\ Head(todo).pid = q)
    BY <1>0, <1>4, ZenonT(60) DEF Signal, Doing, Arg, Paused, Resumed, Living
  <2> QED
    BY <2>1, <2>2, ZenonT(60) DEF Effects, thread
<1>5. CASE Sync \/ Wait
  <2>1. /\ UNCHANGED <<enabled, thread>> /\ Head(todo).op \in {"sync", "wait"}
        /\ Arg \in Pids
    BY <1>2, <1>5, ZenonT(60) DEF Sync, Wait, Doing, Arg, ProperCalls
  <2>2. CASE UNCHANGED <<running, st>>
    BY <2>1, <2>2, Zenon DEF Effects, Living, thread
  <2>3. CASE Reap(Arg)
    <3>1. \A q : In(running, q) /\ q # Arg => In(running', q)
      BY <1>0, <2>1, <2>3, RunsFacts, Zenon
    <3>2. ASSUME NEW q \in Pids
          PROVE  /\ Living(q)' => Living(q) /\ q # Arg
                 /\ st'[q] = "stop" => st[q] = "stop"
      BY <1>0, <2>1, <2>3, Zenon DEF Reap, Living
    <3> QED
      BY <2>1, <3>1, <3>2, ZenonT(60) DEF Effects, thread
  <2> QED
    BY <1>5, <2>2, <2>3, Zenon DEF Sync, Wait
<1>6. CASE Spawn
  <2>1. UNCHANGED <<enabled, thread>> /\ Head(todo).op \in {"spawn_fg", "spawn_bg"}
    BY <1>6, Zenon DEF Spawn, Doing
  <2>2. CASE UNCHANGED <<running, st>>
    BY <2>1, <2>2, Zenon DEF Effects, Living, thread
  <2>3. ASSUME NEW p \in Pids, NEW k \in 1 .. Len(running) + 1,
               st' = [st EXCEPT ![p] = "run"], running' = InsertAt(running, k, p)
        PROVE  Effects
    <3>1. In(running', p) /\ \A q : In(running, q) => In(running', q)
      BY <1>0, <2>3, RunsFacts, Zenon
    <3>2. ASSUME NEW q \in Pids
          PROVE  /\ Living(q)' => Living(q) \/ q = p
                 /\ st'[q] = "stop" => st[q] = "stop"
      BY <1>0, <2>3, Zenon DEF Living
    <3> QED
      BY <2>1, <3>1, <3>2, Zenon DEF Effects, thread
  <2> QED
    BY <1>6, <2>2, <2>3, ZenonT(60) DEF Spawn
<1>7. CASE Kill
  <2>1. /\ UNCHANGED <<enabled, thread, running>> /\ Head(todo).op = "kill" /\ Arg \in Pids
    BY <1>2, <1>7, Zenon DEF Kill, Doing, Arg, ProperCalls
  <2>2. ASSUME NEW q \in Pids
        PROVE  /\ Living(q)' => Living(q) /\ q # Arg
               /\ st'[q] = "stop" => st[q] = "stop"
    BY <1>0, <1>7, <2>1, Zenon DEF Kill, Living, In
  <2> QED
    BY <2>1, <2>2, Zenon DEF Effects, Arg, thread
<1> QED
  BY <1>3, <1>4, <1>5, <1>6, <1>7, Zenon DEF Main

\* The calls of a command keep what they owe the living containers: a kill at
\* exit, a resume after sched off.
LEMMA PausingMain ==
    ASSUME SchedInv, WellOrdered, Pausing, Main
    PROVE  Pausing'
<1>0. Effects
  BY MainEffects, Zenon DEF Pausing
<1>1. CASE Len(todo') = 0
  BY <1>0, <1>1, SMTT(60) DEF Pausing, Effects, In
<1>2. ASSUME NEW pre, Shifted(pre), Replaces(pre) PROVE Pausing'
  <2>1. \A k \in 1 .. Len(pre) : pre[k].op \in {"remove", "wait", "add", "join"}
    BY <1>2, SMTT(60) DEF Replaces, Call
  <2>2. ASSUME NEW i \in 1 .. Len(todo'), todo'[i].op \notin {"remove", "wait", "add", "join"}
        PROVE  \E j \in 2 .. Len(todo) : i = j - 1 + Len(pre) /\ todo'[i] = todo[j]
    BY <1>2, <2>1, <2>2, ShiftFacts, SMTT(60)
  <2>3. /\ Head(todo) = todo[1] /\ 1 \in 1 .. Len(todo) /\ 2 .. Len(todo) \subseteq 1 .. Len(todo)
        /\ Len(todo) \in Nat /\ Len(pre) \in Nat
    BY <1>2 DEF Shifted
  <2>4. ASSUME NEW i \in 1 .. Len(todo') PROVE todo'[i].op # "disable"
    <3>1. SUFFICES ASSUME todo'[i].op = "disable" PROVE FALSE
      BY Zenon
    <3>2. PICK j \in 2 .. Len(todo) : todo'[i] = todo[j]
      BY <2>2, <3>1, Zenon
    <3> QED
      BY <2>3, <3>1, <3>2, SMTT(60) DEF WellOrdered
  <2>5. ASSUME NEW i \in 1 .. Len(todo'), todo'[i].op = "end", NEW p \in Pids, Living(p)'
        PROVE  Pending("kill", p)'
    <3>1. PICK j \in 2 .. Len(todo) : todo'[i] = todo[j]
      BY <2>2, <2>5, Zenon
    <3>2. Head(todo).op \notin {"spawn_fg", "spawn_bg"}
      BY <2>3, <3>1, SMTT(60) DEF WellOrdered, Closing
    <3>3. Living(p) /\ ~(Head(todo).op = "kill" /\ Head(todo).pid = p)
      BY <1>0, <2>5, <3>2, Zenon DEF Effects
    <3>4. Pending("kill", p)
      BY <2>3, <2>5, <3>1, <3>3, ZenonT(60) DEF Pausing
    <3> QED
      BY <1>2, <3>3, <3>4, ShiftFacts, ZenonT(60)
  <2>6. ASSUME NEW i \in 1 .. Len(todo'), todo'[i].op = "stop"
        PROVE  /\ \A j \in 1 .. Len(todo') : todo'[j].op \notin {"disable", "end"}
               /\ enabled' \/ \E j \in 1 .. i - 1 : todo'[j].op = "enable"
    <3>1. PICK j \in 2 .. Len(todo) : i = j - 1 + Len(pre) /\ todo'[i] = todo[j]
      BY <2>2, <2>6, Zenon
    <3>2. /\ \A k \in 1 .. Len(todo) : todo[k].op \notin {"disable", "end"}
          /\ enabled \/ \E k \in 1 .. j - 1 : todo[k].op = "enable"
      BY <2>3, <2>6, <3>1, Zenon DEF Pausing
    <3>3. \A k \in 1 .. Len(todo') : todo'[k].op \notin {"disable", "end"}
      BY <2>2, <2>3, <3>2, ZenonT(60)
    <3>4. CASE enabled
      BY <1>0, <2>3, <3>2, <3>3, <3>4, Zenon DEF Effects
    <3>5. ASSUME NEW k \in 1 .. j - 1, todo[k].op = "enable"
          PROVE  enabled' \/ \E m \in 1 .. i - 1 : todo'[m].op = "enable"
      <4>1. CASE k = 1
        BY <1>0, <2>3, <3>5, <4>1, Zenon DEF Effects
      <4>2. CASE k # 1
        <5>1. k \in 2 .. Len(todo) /\ k - 1 + Len(pre) \in 1 .. i - 1
          BY <2>3, <3>1, <4>2
        <5> QED
          BY <1>2, <3>5, <5>1, ZenonT(60) DEF Shifted
      <4> QED
        BY <4>1, <4>2, Zenon
    <3> QED
      BY <3>2, <3>3, <3>4, <3>5, Zenon
  <2>7. \A p \in Pids : Living(p)' => In(running, p)'
    BY <1>0, Zenon DEF Effects, In
  <2> QED
    BY <2>4, <2>5, <2>6, <2>7, ZenonT(60) DEF Pausing
<1> QED
  BY <1>1, <1>2, MainCalls, Zenon

\* The calls of a command leave at most one container that is paused, or about
\* to be paused by the thread, and not about to be resumed, once scheduling is
\* off.
LEMMA OnePausedMain ==
    ASSUME SchedInv, WellOrdered, Pausing, Main,
           enabled \/ \E x \in Pids \cup {NoPid} : OnePaused(x)
    PROVE  (enabled \/ \E x \in Pids \cup {NoPid} : OnePaused(x))'
<1>0. Effects /\ todo # << >> /\ todo \in Seq(ProperCalls)
  BY MainEffects, MainCalls, Zenon DEF Pausing, SchedInv
<1>1. SUFFICES ASSUME ~enabled' PROVE \E x \in Pids \cup {NoPid} : OnePaused(x)'
  BY Zenon
<1>2. Head(todo) = todo[1] /\ 1 \in 1 .. Len(todo)
  BY <1>0, HeadTailProperties, EmptySeq, SMTT(60)
<1>3. ASSUME NEW p \in Pids, Resuming(p), ~(Head(todo).op = "cont" /\ Head(todo).pid = p)
      PROVE  Resuming(p)'
  <2>1. Head(todo).op # "start"
    BY <1>2, <1>3, Zenon DEF Resuming
  <2>2. PICK pre \in Seq(ProperCalls) : Shifted(pre) /\ Replaces(pre)
    BY <2>1, MainCalls, ZenonT(60) DEF scheduler_start, Doing
  <2>3. Pending("cont", p)'
    <3>1. Pending("cont", p)
      BY <1>3, Zenon DEF Resuming
    <3> QED
      BY <1>3, <2>2, <3>1, ShiftFacts, Zenon
  <2>4. \A k \in 1 .. Len(pre) : pre[k].op # "start"
    BY <2>2 DEF Replaces, Call
  <2>5. ASSUME NEW i \in 1 .. Len(todo') PROVE todo'[i].op # "start"
    <3>1. CASE i \in 1 .. Len(pre) /\ todo'[i] = pre[i]
      BY <2>4, <3>1, Zenon
    <3>2. CASE \E j \in 2 .. Len(todo) : todo'[i] = todo[j]
      BY <1>3, <2>2, <3>2 DEF Resuming, Shifted
    <3> QED
      BY <2>2, <3>1, <3>2, ShiftFacts, Zenon
  <2> QED
    BY <2>3, <2>5, Zenon DEF Resuming
<1>4. CASE ~enabled
  <2>1. PICK x \in Pids \cup {NoPid} : OnePaused(x)
    BY <1>4, Zenon
  <2>2. Head(todo).op # "stop"
    BY <1>2, <1>4 DEF Pausing
  <2>3. OnePaused(x)'
    BY <1>0, <1>3, <2>1, <2>2, Zenon DEF OnePaused, Effects
  <2> QED
    BY <2>3, Zenon
<1>5. CASE enabled
  <2>1. PICK x \in Pids \cup {NoPid} : tpc = "kill_stop" => current = x
    BY Zenon DEF SchedInv, TypeOK
  <2>2. ASSUME NEW p \in Pids, st'[p] = "stop" PROVE Resuming(p)'
    <3>1. Head(todo).op \in {"disable", "end"}
      BY <1>0, <1>1, <1>5, Zenon DEF Effects
    <3>2. Living(p)
      BY <1>0, <2>2, <3>1, Zenon DEF Effects, Living
    <3>3. CASE Head(todo).op = "disable"
      <4>1. Resuming(p)
        BY <1>2, <3>2, <3>3, Zenon DEF Pausing, Resuming
      <4> QED
        BY <1>3, <3>3, <4>1, Zenon
    <3>4. CASE Head(todo).op = "end"
      <4>1. Pending("kill", p) /\ Len(todo) = 1
        BY <1>2, <3>2, <3>4, ZenonT(60) DEF Pausing, WellOrdered, Closing
      <4> QED
        BY <1>2, <3>4, <4>1 DEF Pending
    <3> QED
      BY <3>1, <3>3, <3>4, Zenon
  <2>3. tpc' = "kill_stop" => current' = x
    BY <1>0, <2>1, Zenon DEF Effects
  <2>4. OnePaused(x)'
    BY <2>2, <2>3, Zenon DEF OnePaused
  <2> QED
    BY <2>4
<1> QED
  BY <1>4, <1>5, Zenon

----------------------------------------------------------------------------
(* The other steps *)

\* The calls t of a whole command are well ordered, add RUNNING containers only,
\* and reach all of them: sched off resumes every one, exit kills every one.
Complete(t) ==
    /\ \A i, j \in 1 .. Len(t) : ~(t[i].op \in Reaping /\ t[j].op \in Refreshing)
    /\ \A i \in 1 .. Len(t) : t[i].op \in Closing => i = Len(t)
    /\ \A i \in 1 .. Len(t) : t[i].op # "wait"
    /\ \A i \in 1 .. Len(t) : t[i].op = "add" => In(running, t[i].pid)
    /\ \A i \in 1 .. Len(t) : t[i].op = "disable" =>
         /\ i = 1
         /\ \A j \in 1 .. Len(t) : t[j].op # "start"
         /\ \A k \in 1 .. Len(running) : \E j \in 1 .. Len(t) :
              t[j].op = "cont" /\ t[j].pid = running[k]
    /\ \A i \in 1 .. Len(t) : t[i].op = "end" =>
         \A k \in 1 .. Len(running) : \E j \in 1 .. Len(t) :
           t[j].op = "kill" /\ t[j].pid = running[k]
    /\ \A i \in 1 .. Len(t) : t[i].op = "stop" =>
         /\ \A j \in 1 .. Len(t) : t[j].op \notin {"disable", "end"}
         /\ \E j \in 1 .. i - 1 : t[j].op = "enable"

\* One call for each pid, in order.
LEMMA CallsFacts ==
    ASSUME NEW s \in Seq(Pids), NEW op \in Ops
    PROVE  /\ Calls(op, s) \in Seq(ProperCalls) /\ Len(Calls(op, s)) = Len(s)
           /\ \A i \in 1 .. Len(s) : Calls(op, s)[i].op = op /\ Calls(op, s)[i].pid = s[i]
<1>1. Len(s) \in Nat
  BY LenProperties, Zenon
<1>2. Len(Calls(op, s)) = Len(s)
  BY <1>1 DEF Calls
<1>3. \A i \in 1 .. Len(s) : Calls(op, s)[i].op = op /\ Calls(op, s)[i].pid = s[i]
  BY Zenon DEF Calls, Call
<1> QED
  BY <1>2, <1>3, CallsType, Zenon

\* The calls of two parts of a command.
LEMMA JoinFacts ==
    ASSUME NEW a \in Seq(ProperCalls), NEW b \in Seq(ProperCalls)
    PROVE  /\ a \o b \in Seq(ProperCalls)
           /\ Len(a) \in Nat /\ Len(b) \in Nat /\ Len(a \o b) = Len(a) + Len(b)
           /\ \A i \in 1 .. Len(a) : i \in 1 .. Len(a \o b) /\ (a \o b)[i] = a[i]
           /\ \A i \in 1 .. Len(b) :
                Len(a) + i \in 1 .. Len(a \o b) /\ (a \o b)[Len(a) + i] = b[i]
           /\ \A i \in 1 .. Len(a \o b) :
                \/ i \in 1 .. Len(a) /\ (a \o b)[i] = a[i]
                \/ \E j \in 1 .. Len(b) : i = Len(a) + j /\ (a \o b)[i] = b[j]
<1> DEFINE t == a \o b
<1>1. Len(a) \in Nat /\ Len(b) \in Nat
  BY LenProperties, Zenon
<1>2. /\ t \in Seq(ProperCalls) /\ Len(t) = Len(a) + Len(b)
      /\ \A i \in 1 .. Len(a) + Len(b) : t[i] = IF i <= Len(a) THEN a[i] ELSE b[i - Len(a)]
  BY ConcatProperties, Zenon
<1> HIDE DEF t
<1>3. \A i \in 1 .. Len(a) : i \in 1 .. Len(t) /\ t[i] = a[i]
  BY <1>1, <1>2
<1>4. ASSUME NEW i \in 1 .. Len(b)
      PROVE  Len(a) + i \in 1 .. Len(t) /\ t[Len(a) + i] = b[i]
  <2>1. /\ Len(a) + i \in 1 .. Len(a) + Len(b)
        /\ ~(Len(a) + i <= Len(a)) /\ (Len(a) + i) - Len(a) = i
    BY <1>1
  <2> QED
    BY <1>2, <2>1, Zenon
<1>5. ASSUME NEW i \in 1 .. Len(t), i \notin 1 .. Len(a)
      PROVE  \E j \in 1 .. Len(b) : i = Len(a) + j /\ t[i] = b[j]
  <2>1. i - Len(a) \in 1 .. Len(b) /\ i = Len(a) + (i - Len(a))
    BY <1>1, <1>2, <1>5
  <2> QED
    BY <1>4, <2>1, ZenonT(60)
<1>6. /\ t \in Seq(ProperCalls) /\ Len(t) = Len(a) + Len(b)
      /\ \A i \in 1 .. Len(t) : \/ i \in 1 .. Len(a) /\ t[i] = a[i]
                                \/ \E j \in 1 .. Len(b) : i = Len(a) + j /\ t[i] = b[j]
  BY <1>2, <1>3, <1>5, Zenon
<1> QED
  BY <1>1, <1>3, <1>4, <1>6, Zenon DEF t

\* poll_states, alone and before the call of run, runbg, start, stop or delete.
LEMMA CompletePoll ==
    ASSUME running \in Seq(Pids)
    PROVE  /\ Complete(poll_states)
           /\ \A op \in {"spawn_fg", "spawn_bg"} :
                Complete(Append(poll_states, Call(op, NoPid)))
           /\ \A p \in Pids : Complete(Append(poll_states, Call("kill", p)))
<1>1. /\ poll_states \in Seq(ProperCalls) /\ Len(poll_states) \in Nat
      /\ \A i \in 1 .. Len(poll_states) : poll_states[i].op = "sync"
  BY CallsFacts, LenProperties DEF poll_states, Ops
<1>2. Complete(poll_states)
  BY <1>1, Zenon DEF Complete, Reaping, Refreshing, Closing
<1>3. ASSUME NEW c \in ProperCalls, c.op \in {"spawn_fg", "spawn_bg", "kill"}
      PROVE  Complete(Append(poll_states, c))
  <2> DEFINE t == Append(poll_states, c)
  <2>1. /\ Len(t) = Len(poll_states) + 1
        /\ \A i \in 1 .. Len(poll_states) : t[i] = poll_states[i]
        /\ t[Len(poll_states) + 1] = c
    BY <1>1, AppendProperties
  <2> HIDE DEF t
  <2>2. ASSUME NEW i \in 1 .. Len(t)
        PROVE  \/ t[i].op = "sync"
               \/ i = Len(t) /\ t[i].op \in {"spawn_fg", "spawn_bg", "kill"}
    <3>1. CASE i \in 1 .. Len(poll_states)
      BY <1>1, <2>1, <3>1, Zenon
    <3>2. CASE i = Len(poll_states) + 1
      BY <1>3, <2>1, <3>2, Zenon
    <3> QED
      BY <1>1, <2>1, <3>1, <3>2
  <2>3. Complete(t)
    BY <2>2, Zenon DEF Complete, Reaping, Refreshing, Closing
  <2> QED
    BY <2>3, Zenon DEF t
<1>4. \A op \in {"spawn_fg", "spawn_bg"} :
        Call(op, NoPid) \in ProperCalls /\ Call(op, NoPid).op = op
  BY Zenon DEF Call, ProperCalls, Ops
<1>5. \A p \in Pids : Call("kill", p) \in ProperCalls /\ Call("kill", p).op = "kill"
  BY Zenon DEF Call, ProperCalls, Ops
<1> QED
  BY <1>2, <1>3, <1>4, <1>5, Zenon

\* sched off.
LEMMA CompleteOff ==
    ASSUME running \in Seq(Pids)
    PROVE  Complete(SchedOff)
<1> DEFINE a == <<Call("disable", NoPid), Call("clear", NoPid)>>
           b == Calls("add", running)
           c == Calls("cont", running)
           ab == a \o b
           t == ab \o c
<1>1. a \in Seq(ProperCalls) /\ Len(a) = 2 /\ a[1].op = "disable" /\ a[2].op = "clear"
  BY DEF Call, ProperCalls, Ops
<1>2. /\ b \in Seq(ProperCalls) /\ Len(b) = Len(running)
      /\ \A i \in 1 .. Len(running) : b[i].op = "add" /\ b[i].pid = running[i]
  BY CallsFacts DEF Ops
<1>3. /\ c \in Seq(ProperCalls) /\ Len(c) = Len(running)
      /\ \A i \in 1 .. Len(running) : c[i].op = "cont" /\ c[i].pid = running[i]
  BY CallsFacts DEF Ops
<1>4. t = SchedOff
  BY Zenon DEF SchedOff
<1> HIDE DEF a, b, c
<1>5. /\ ab \in Seq(ProperCalls)
      /\ \A i \in 1 .. Len(ab) : \/ i \in 1 .. Len(a) /\ ab[i] = a[i]
                                 \/ \E j \in 1 .. Len(b) : i = Len(a) + j /\ ab[i] = b[j]
  BY <1>1, <1>2, JoinFacts, ZenonT(60)
<1> HIDE DEF ab
<1>6. ASSUME NEW i \in 1 .. Len(ab)
      PROVE  \/ i = 1 /\ ab[i].op = "disable"
             \/ ab[i].op = "clear"
             \/ ab[i].op = "add" /\ In(running, ab[i].pid)
  <2>1. CASE i \in 1 .. Len(a) /\ ab[i] = a[i]
    <3>1. i = 1 \/ i = 2
      BY <1>1, <2>1
    <3> QED
      BY <1>1, <2>1, <3>1, Zenon
  <2>2. CASE \E j \in 1 .. Len(b) : ab[i] = b[j]
    BY <1>2, <2>2, Zenon DEF In
  <2> QED
    BY <1>5, <2>1, <2>2, Zenon
<1>7. /\ \A i \in 1 .. Len(t) : \/ i \in 1 .. Len(ab) /\ t[i] = ab[i]
                                \/ \E j \in 1 .. Len(c) : i = Len(ab) + j /\ t[i] = c[j]
      /\ \A i \in 1 .. Len(c) : Len(ab) + i \in 1 .. Len(t) /\ t[Len(ab) + i] = c[i]
  BY <1>3, <1>5, JoinFacts, ZenonT(60)
<1> HIDE DEF t
<1>8. ASSUME NEW i \in 1 .. Len(t)
      PROVE  \/ i = 1 /\ t[i].op = "disable"
             \/ t[i].op = "clear" \/ t[i].op = "cont"
             \/ t[i].op = "add" /\ In(running, t[i].pid)
  <2>1. CASE i \in 1 .. Len(ab) /\ t[i] = ab[i]
    BY <1>6, <2>1, Zenon
  <2>2. CASE \E j \in 1 .. Len(c) : t[i] = c[j]
    BY <1>3, <2>2, Zenon
  <2> QED
    BY <1>7, <2>1, <2>2, Zenon
<1>9. ASSUME NEW k \in 1 .. Len(running)
      PROVE  \E j \in 1 .. Len(t) : t[j].op = "cont" /\ t[j].pid = running[k]
  <2>1. Len(ab) + k \in 1 .. Len(t) /\ t[Len(ab) + k] = c[k]
    BY <1>3, <1>7, Zenon
  <2> QED
    BY <1>3, <2>1, Zenon
<1>10. Complete(t)
  BY <1>8, <1>9, ZenonT(60) DEF Complete, Reaping, Refreshing, Closing
<1> QED
  BY <1>4, <1>10, Zenon

\* exit.
LEMMA CompleteExit ==
    ASSUME running \in Seq(Pids)
    PROVE  Complete(Exit)
<1> DEFINE a == poll_states
           b == Calls("kill", running)
           c == <<Call("stop_thread", NoPid), Call("end", NoPid)>>
           ab == a \o b
           t == ab \o c
<1>1. a \in Seq(ProperCalls) /\ \A i \in 1 .. Len(a) : a[i].op = "sync"
  BY CallsFacts DEF poll_states, Ops
<1>2. /\ b \in Seq(ProperCalls) /\ Len(b) = Len(running)
      /\ \A i \in 1 .. Len(running) : b[i].op = "kill" /\ b[i].pid = running[i]
  BY CallsFacts DEF Ops
<1>3. c \in Seq(ProperCalls) /\ Len(c) = 2 /\ c[1].op = "stop_thread" /\ c[2].op = "end"
  BY DEF Call, ProperCalls, Ops
<1>4. t = Exit
  BY Zenon DEF Exit
<1> HIDE DEF a, b, c
<1>5. /\ ab \in Seq(ProperCalls)
      /\ \A i \in 1 .. Len(ab) : \/ i \in 1 .. Len(a) /\ ab[i] = a[i]
                                 \/ \E j \in 1 .. Len(b) : i = Len(a) + j /\ ab[i] = b[j]
      /\ \A i \in 1 .. Len(b) : Len(a) + i \in 1 .. Len(ab) /\ ab[Len(a) + i] = b[i]
  BY <1>1, <1>2, JoinFacts, Zenon
<1> HIDE DEF ab
<1>6. \A i \in 1 .. Len(ab) : ab[i].op \in {"sync", "kill"}
  <2> SUFFICES ASSUME NEW i \in 1 .. Len(ab) PROVE ab[i].op \in {"sync", "kill"}
    BY Zenon
  <2>1. CASE i \in 1 .. Len(a) /\ ab[i] = a[i]
    BY <1>1, <2>1, Zenon
  <2>2. CASE \E j \in 1 .. Len(b) : ab[i] = b[j]
    BY <1>2, <2>2, Zenon
  <2> QED
    BY <1>5, <2>1, <2>2, Zenon
<1>7. /\ \A i \in 1 .. Len(t) : \/ i \in 1 .. Len(ab) /\ t[i] = ab[i]
                                \/ \E j \in 1 .. Len(c) : i = Len(ab) + j /\ t[i] = c[j]
      /\ Len(t) = Len(ab) + Len(c) /\ Len(ab) \in Nat
      /\ \A i \in 1 .. Len(ab) : i \in 1 .. Len(t) /\ t[i] = ab[i]
  BY <1>3, <1>5, JoinFacts, ZenonT(60)
<1> HIDE DEF t
<1>8. ASSUME NEW i \in 1 .. Len(t)
      PROVE  \/ t[i].op \in {"sync", "kill", "stop_thread"}
             \/ i = Len(t) /\ t[i].op = "end"
  <2>1. CASE i \in 1 .. Len(ab) /\ t[i] = ab[i]
    BY <1>6, <2>1, Zenon
  <2>2. ASSUME NEW j \in 1 .. Len(c), i = Len(ab) + j, t[i] = c[j]
        PROVE  \/ t[i].op \in {"sync", "kill", "stop_thread"}
               \/ i = Len(t) /\ t[i].op = "end"
    <3>1. j = 1 \/ j = 2
      BY <1>3
    <3>2. i = Len(t) \/ j = 1
      BY <1>3, <1>7, <2>2, <3>1, Zenon
    <3> QED
      BY <1>3, <2>2, <3>1, <3>2, Zenon
  <2> QED
    BY <1>7, <2>1, <2>2, ZenonT(60)
<1>9. ASSUME NEW k \in 1 .. Len(running)
      PROVE  \E j \in 1 .. Len(t) : t[j].op = "kill" /\ t[j].pid = running[k]
  <2>1. Len(a) + k \in 1 .. Len(t) /\ t[Len(a) + k] = b[k]
    BY <1>2, <1>5, <1>7, Zenon
  <2> QED
    BY <1>2, <2>1, Zenon
<1>10. Complete(t)
  BY <1>8, <1>9, ZenonT(60) DEF Complete, Reaping, Refreshing, Closing
<1> QED
  BY <1>4, <1>10

\* sched on.
LEMMA CompleteOn ==
    ASSUME running \in Seq(Pids)
    PROVE  Complete(SchedOn)
<1> DEFINE a == <<Call("start", NoPid), Call("enable", NoPid), Call("clear", NoPid)>>
           b == Calls("add", running)
           c == IF running = << >> THEN << >>
                ELSE Append(Calls("stop", Tail(running)), Call("cont", Head(running)))
           ab == a \o b
           t == ab \o c
<1>1. /\ a \in Seq(ProperCalls) /\ Len(a) = 3
      /\ a[1].op = "start" /\ a[2].op = "enable" /\ a[3].op = "clear"
  BY DEF Call, ProperCalls, Ops
<1>2. /\ b \in Seq(ProperCalls) /\ Len(b) = Len(running)
      /\ \A i \in 1 .. Len(running) : b[i].op = "add" /\ b[i].pid = running[i]
  BY CallsFacts DEF Ops
<1>3. c \in Seq(ProperCalls) /\ \A i \in 1 .. Len(c) : c[i].op \in {"stop", "cont"}
  <2>1. CASE running = << >>
    BY <2>1
  <2>2. CASE running # << >>
    <3> DEFINE u == Calls("stop", Tail(running))
               v == Call("cont", Head(running))
    <3>1. Head(running) \in Pids /\ Tail(running) \in Seq(Pids)
      BY <2>2, HeadTailProperties
    <3>2. "stop" \in Ops
      BY Zenon DEF Ops
    <3>3. u \in Seq(ProperCalls) /\ Len(u) = Len(Tail(running))
          /\ \A i \in 1 .. Len(Tail(running)) : u[i].op = "stop"
      BY <3>1, <3>2, CallsFacts, ZenonT(60)
    <3>4. v \in ProperCalls /\ v.op = "cont"
      BY <3>1, Zenon DEF Call, ProperCalls, Ops
    <3>5. c = Append(u, v)
      BY <2>2, Zenon
    <3> HIDE DEF u, v, c
    <3>6. /\ c \in Seq(ProperCalls) /\ Len(c) = Len(u) + 1 /\ c[Len(u) + 1] = v
          /\ \A i \in 1 .. Len(u) : c[i] = u[i]
      BY <3>3, <3>4, <3>5, AppendProperties
    <3>7. ASSUME NEW i \in 1 .. Len(c) PROVE c[i].op \in {"stop", "cont"}
      <4>1. i \in 1 .. Len(u) \/ i = Len(u) + 1
        BY <3>3, <3>6, LenProperties
      <4> QED
        BY <3>3, <3>4, <3>6, <4>1, Zenon
    <3> QED
      BY <3>6, <3>7, Zenon
  <2> QED
    BY <2>1, <2>2, Zenon
<1>4. t = SchedOn
  BY Zenon DEF SchedOn
<1> HIDE DEF a, b, c
<1>5. /\ ab \in Seq(ProperCalls) /\ Len(ab) = Len(a) + Len(b) /\ Len(b) \in Nat
      /\ \A i \in 1 .. Len(ab) : \/ i \in 1 .. Len(a) /\ ab[i] = a[i]
                                 \/ \E j \in 1 .. Len(b) : i = Len(a) + j /\ ab[i] = b[j]
      /\ \A i \in 1 .. Len(a) : i \in 1 .. Len(ab) /\ ab[i] = a[i]
  BY <1>1, <1>2, JoinFacts, ZenonT(60)
<1> HIDE DEF ab
<1>6. ASSUME NEW i \in 1 .. Len(ab)
      PROVE  \/ ab[i].op \in {"start", "enable", "clear"}
             \/ ab[i].op = "add" /\ In(running, ab[i].pid)
  <2>1. CASE i \in 1 .. Len(a) /\ ab[i] = a[i]
    <3>1. i = 1 \/ i = 2 \/ i = 3
      BY <1>1, <2>1
    <3> QED
      BY <1>1, <2>1, <3>1, Zenon
  <2>2. CASE \E j \in 1 .. Len(b) : ab[i] = b[j]
    BY <1>2, <2>2, Zenon DEF In
  <2> QED
    BY <1>5, <2>1, <2>2, Zenon
<1>7. /\ \A i \in 1 .. Len(t) : \/ i \in 1 .. Len(ab) /\ t[i] = ab[i]
                                \/ \E j \in 1 .. Len(c) : i = Len(ab) + j /\ t[i] = c[j]
      /\ \A i \in 1 .. Len(ab) : i \in 1 .. Len(t) /\ t[i] = ab[i]
      /\ Len(ab) \in Nat
  BY <1>3, <1>5, JoinFacts, ZenonT(60)
<1> HIDE DEF t
<1>8. ASSUME NEW i \in 1 .. Len(t)
      PROVE  \/ t[i].op \in {"start", "enable", "clear", "cont"}
             \/ t[i].op = "add" /\ In(running, t[i].pid)
             \/ t[i].op = "stop" /\ i > Len(ab)
  <2>1. CASE i \in 1 .. Len(ab) /\ t[i] = ab[i]
    BY <1>6, <2>1, Zenon
  <2>2. ASSUME NEW j \in 1 .. Len(c), i = Len(ab) + j, t[i] = c[j]
        PROVE  i > Len(ab) /\ t[i].op \in {"stop", "cont"}
    <3>1. i > Len(ab)
      BY <1>7, <2>2
    <3> QED
      BY <1>3, <2>2, <3>1, Zenon
  <2> QED
    BY <1>7, <2>1, <2>2, ZenonT(60)
<1>9. Len(ab) >= 3 /\ t[2].op = "enable"
  <2>1. 2 \in 1 .. Len(a)
    BY <1>1
  <2>2. t[2] = a[2]
    BY <1>5, <1>7, <2>1
  <2> QED
    BY <1>1, <1>5, <2>2
<1>10. ASSUME NEW i \in 1 .. Len(t), t[i].op = "stop"
       PROVE  \E j \in 1 .. i - 1 : t[j].op = "enable"
  <2>1. 2 \in 1 .. i - 1
    BY <1>7, <1>8, <1>9, <1>10
  <2> QED
    BY <1>9, <2>1, Zenon
<1>11. Complete(t)
  BY <1>8, <1>10, ZenonT(60) DEF Complete, Reaping, Refreshing, Closing
<1> QED
  BY <1>4, <1>11

\* The invariant after a command has been typed.
LEMMA CommandBegins ==
    ASSUME SchedInv, CommandInv, Command
    PROVE  CommandInv'
<1>0. running \in Seq(Pids) /\ \A i \in 1 .. Len(running) : running[i] \in Pids
  BY ElementOfSeq, Zenon DEF SchedInv, TypeOK
<1>1. Complete(todo')
  BY <1>0, CompletePoll, CompleteOff, CompleteExit, CompleteOn, Zenon DEF Command
<1>2. Len(todo) = 0 /\ UNCHANGED <<enabled, targets, tpc, current, running, st>>
  BY Zenon DEF Command, array, thread
<1>3. WellOrdered'
  BY <1>1, Zenon DEF Complete, WellOrdered
<1>4. Following'
  <2>1. \A i \in 1 .. Len(targets) : In(running, targets[i])
    BY <1>2 DEF CommandInv, Following, Pending
  <2> QED
    BY <1>1, <1>2, <2>1, SMTT(60) DEF Complete, Following, In
<1>5. Pausing'
  <2>1. \A p \in Pids : Living(p)' => In(running, p)
    BY <1>2, Zenon DEF CommandInv, Pausing, Living
  <2>2. \A p \in Pids : Living(p)' => In(running, p)'
    BY <1>2, <2>1, Zenon DEF In
  <2>3. ASSUME NEW i \in 1 .. Len(todo'), todo'[i].op = "disable"
        PROVE  /\ \A j \in 1 .. Len(todo') : todo'[j].op # "start"
               /\ \A p \in Pids : Living(p)' => Pending("cont", p)'
    <3>1. \A k \in 1 .. Len(running) : \E j \in 1 .. Len(todo') :
            todo'[j].op = "cont" /\ todo'[j].pid = running[k]
      BY <1>1, <2>3, Zenon DEF Complete
    <3>2. \A j \in 1 .. Len(todo') : todo'[j].op # "start"
      BY <1>1, <2>3, Zenon DEF Complete
    <3> QED
      BY <2>1, <3>1, <3>2, ZenonT(60) DEF In, Pending
  <2>4. ASSUME NEW i \in 1 .. Len(todo'), todo'[i].op = "end", NEW p \in Pids, Living(p)'
        PROVE  Pending("kill", p)'
    <3>1. \A k \in 1 .. Len(running) : \E j \in 1 .. Len(todo') :
            todo'[j].op = "kill" /\ todo'[j].pid = running[k]
      BY <1>1, <2>4, Zenon DEF Complete
    <3> QED
      BY <2>1, <2>4, <3>1, SMTT(60) DEF In, Pending
  <2>5. ASSUME NEW i \in 1 .. Len(todo'), todo'[i].op = "stop"
        PROVE  /\ \A j \in 1 .. Len(todo') : todo'[j].op \notin {"disable", "end"}
               /\ enabled' \/ \E j \in 1 .. i - 1 : todo'[j].op = "enable"
    BY <1>1, <2>5, Zenon DEF Complete
  <2> QED
    BY <2>2, <2>3, <2>4, <2>5, Zenon DEF Pausing
<1>6. (enabled \/ \E x \in Pids \cup {NoPid} : OnePaused(x))'
  <2>1. CASE enabled
    BY <1>2, <2>1, Zenon
  <2>2. CASE ~enabled
    <3>1. PICK x \in Pids \cup {NoPid} : OnePaused(x)
      BY <2>2, Zenon DEF CommandInv
    <3>2. \A p \in Pids : st[p] = "stop" => p = x
      BY <1>2, <3>1 DEF OnePaused, Resuming, Pending
    <3>3. OnePaused(x)'
      BY <1>2, <3>1, <3>2, Zenon DEF OnePaused
    <3> QED
      BY <3>3, Zenon
  <2> QED
    BY <2>1, <2>2, Zenon
<1> QED
  BY <1>3, <1>4, <1>5, <1>6, Zenon DEF CommandInv

\* A step outside the main thread may take targets out, pause, resume and end
\* processes; the command goes on as before.
LEMMA OutsideStep ==
    ASSUME CommandInv, UNCHANGED <<enabled, running, todo>>,
           \A q : In(targets', q) => In(targets, q),
           \A q \in Pids : Living(q)' => Living(q),
           \A x \in Pids \cup {NoPid} : ~enabled /\ OnePaused(x) => OnePaused(x)'
    PROVE  CommandInv'
<1>1. WellOrdered'
  BY Zenon DEF CommandInv, WellOrdered
<1>2. Following'
  <2>1. ASSUME NEW i \in 1 .. Len(targets')
        PROVE  In(running, targets[i])' \/ Pending("remove", targets[i])'
    <3>1. PICK j \in 1 .. Len(targets) : targets[j] = targets'[i]
      BY Zenon DEF In
    <3> QED
      BY <3>1, Zenon DEF CommandInv, Following, Pending
  <2>2. ASSUME NEW i \in 1 .. Len(todo), todo[i].op = "wait"
        PROVE  \/ ~In(targets', todo[i].pid)
               \/ \E j \in i + 1 .. Len(todo) : todo[j].op = "remove" /\ todo[j].pid = todo[i].pid
    BY <2>2, Zenon DEF CommandInv, Following
  <2>3. \A i \in 1 .. Len(todo) : todo[i].op = "add" => In(running', todo[i].pid)
    BY Zenon DEF CommandInv, Following
  <2> QED
    BY <2>1, <2>2, <2>3 DEF Following
<1>3. Pausing'
  BY DEF CommandInv, Pausing, Pending, In
<1>4. (enabled \/ \E x \in Pids \cup {NoPid} : OnePaused(x))'
  <2>1. CASE enabled
    BY <2>1, Zenon
  <2>2. CASE ~enabled
    <3>1. PICK x \in Pids \cup {NoPid} : OnePaused(x)
      BY <2>2, Zenon DEF CommandInv
    <3>2. OnePaused(x)'
      BY <2>2, <3>1, Zenon
    <3> QED
      BY <3>2, Zenon
  <2> QED
    BY <2>1, <2>2, Zenon
<1> QED
  BY <1>1, <1>2, <1>3, <1>4, Zenon DEF CommandInv

\* The scheduler thread: a round picks nobody while scheduling is off, and the
\* one it had picked before is the one that may stay paused.
LEMMA ThreadFollows ==
    ASSUME SchedInv, CommandInv, Thread
    PROVE  CommandInv'
<1>0. /\ ArrayOK /\ st \in [Pids -> {"free", "run", "stop", "zombie"}]
      /\ current \in Pids \cup {NoPid} /\ next \in Pids \cup {NoPid}
  BY Zenon DEF SchedInv, TypeOK, TargetsWellFormed, ArrayOK
<1>1. CASE ThreadRound
  <2>1. UNCHANGED <<enabled, running, todo, st>>
    BY <1>1, Zenon DEF ThreadRound, main
  <2>2. PICK n \in 0 .. Len(targets) : \E f \in [1 .. n -> 1 .. Len(targets)] :
          prune_dead_locked(n, f) /\ (Nothing(n) => UNCHANGED thread)
    BY <1>1, Zenon DEF ThreadRound
  <2>3. \A q : In(targets', q) => In(targets, q)
    BY <1>0, <2>2, PruneMembers, Zenon DEF ArrayOK
  <2>4. ASSUME ~enabled, NEW x, OnePaused(x) PROVE OnePaused(x)'
    <3>1. UNCHANGED thread
      BY <2>2, <2>4, Zenon DEF Nothing
    <3> QED
      BY <2>1, <2>4, <3>1, Zenon DEF OnePaused, Resuming, Pending, thread
  <2> QED
    BY <2>1, <2>3, <2>4, OutsideStep, Zenon DEF Living
<1>2. CASE ThreadExit
  <2>1. UNCHANGED <<enabled, running, todo, targets, st, current>> /\ tpc' = "exited"
    BY <1>2, Zenon DEF ThreadExit, main, array
  <2>2. ASSUME NEW x, OnePaused(x) PROVE OnePaused(x)'
    BY <2>1, <2>2, Zenon DEF OnePaused, Resuming, Pending
  <2> QED
    BY <2>1, <2>2, OutsideStep, Zenon DEF Living
<1>3. CASE ThreadStops
  <2>1. /\ UNCHANGED <<enabled, running, todo, targets, current>>
        /\ tpc = "kill_stop" /\ tpc' = "kill_cont" /\ st' = Paused(current)
    BY <1>3, Zenon DEF ThreadStops, main, array
  <2>2. ASSUME NEW q \in Pids
        PROVE  /\ Living(q)' => Living(q)
               /\ st'[q] = "stop" => st[q] = "stop" \/ q = current
    BY <1>0, <2>1, Zenon DEF Paused, Living
  <2>3. ASSUME NEW x, OnePaused(x) PROVE OnePaused(x)'
    BY <2>1, <2>2, <2>3, Zenon DEF OnePaused, Resuming, Pending
  <2> QED
    BY <2>1, <2>2, <2>3, OutsideStep, Zenon
<1>4. CASE ThreadConts
  <2>1. /\ UNCHANGED <<enabled, running, todo, targets>>
        /\ tpc' = "lock" /\ st' = Resumed(next)
    BY <1>4, Zenon DEF ThreadConts, main, array
  <2>2. ASSUME NEW q \in Pids
        PROVE  /\ Living(q)' => Living(q)
               /\ st'[q] = "stop" => st[q] = "stop"
    BY <1>0, <2>1, Zenon DEF Resumed, Living
  <2>3. ASSUME NEW x, OnePaused(x) PROVE OnePaused(x)'
    BY <2>1, <2>2, <2>3, Zenon DEF OnePaused, Resuming, Pending
  <2> QED
    BY <2>1, <2>2, <2>3, OutsideStep, Zenon
<1> QED
  BY <1>1, <1>2, <1>3, <1>4, Zenon DEF Thread

\* Between commands nothing is owed, and the manager starts that way.
LEMMA CommandInvInit == Init => CommandInv
<1> SUFFICES ASSUME Init PROVE CommandInv
  OBVIOUS
<1>1. /\ Len(todo) = 0 /\ Len(targets) = 0 /\ tpc = "none" /\ st = [p \in Pids |-> "free"]
  BY Zenon DEF Init
<1>2. WellOrdered /\ Following /\ Pausing
  BY <1>1 DEF WellOrdered, Following, Pausing, Living
<1>3. OnePaused(NoPid)
  BY <1>1, Zenon DEF OnePaused
<1> QED
  BY <1>2, <1>3, Zenon DEF CommandInv

\* Every step of either thread, every command and every death preserves it.
LEMMA CommandInvNext == SchedInv /\ CommandInv /\ [Next]_vars => CommandInv'
<1> SUFFICES ASSUME SchedInv, CommandInv, [Next]_vars PROVE CommandInv'
  BY Zenon
<1>1. CASE Main
  BY <1>1, OrderMain, FollowingMain, PausingMain, OnePausedMain, Zenon DEF CommandInv
<1>2. ASSUME NEW p \in Pids, Dies(p) PROVE CommandInv'
  <2>1. UNCHANGED <<enabled, running, todo, targets, tpc, current>>
    BY <1>2, Zenon DEF Dies, main, array, thread
  <2>2. ASSUME NEW q \in Pids
        PROVE  /\ Living(q)' => Living(q)
               /\ st'[q] = "stop" => st[q] = "stop"
    BY <1>2, Zenon DEF Dies, Living, SchedInv, TypeOK
  <2>3. ASSUME NEW x, OnePaused(x) PROVE OnePaused(x)'
    BY <2>1, <2>2, <2>3, Zenon DEF OnePaused, Resuming, Pending
  <2> QED
    BY <2>1, <2>2, <2>3, OutsideStep, Zenon
<1>3. CASE UNCHANGED vars
  <2>1. UNCHANGED <<enabled, running, todo, targets, tpc, current, st>>
    BY <1>3, Zenon DEF vars, main, array, thread
  <2>2. ASSUME NEW x, OnePaused(x) PROVE OnePaused(x)'
    BY <2>1, <2>2, Zenon DEF OnePaused, Resuming, Pending
  <2> QED
    BY <2>1, <2>2, OutsideStep, Zenon DEF Living
<1> QED
  BY <1>1, <1>2, <1>3, CommandBegins, ThreadFollows, Zenon DEF Next

\* Between commands every target is the process of a RUNNING record, however the
\* commands, the deaths of containers and the rounds of the thread interleave:
\* stop, poll and exit remove what they reap, and a refresh adds what runs.
THEOREM TargetsAreListed == Spec => []TargetsFollowList
<1>1. CommandInv => TargetsFollowList
  <2> SUFFICES ASSUME CommandInv, Idle, NEW i \in 1 .. Len(targets)
               PROVE  \E j \in 1 .. Len(running) : running[j] = targets[i]
    BY Zenon DEF TargetsFollowList
  <2>1. Len(todo) = 0
    BY Zenon DEF Idle
  <2> QED
    BY <2>1 DEF CommandInv, Following, Pending, In
<1> QED
  BY <1>1, SchedInvInit, SchedInvNext, CommandInvInit, CommandInvNext, PTL DEF Spec

\* After sched off at most one container is left paused, for any number of
\* containers: container_scheduler_refresh_targets resumes every RUNNING one, and
\* only the one that the thread had picked before can be stopped after that.
THEOREM SchedOffResumes == Spec => []AtMostOnePausedWhenOff
<1>1. CommandInv => AtMostOnePausedWhenOff
  <2> SUFFICES ASSUME CommandInv, ~enabled, Idle,
                      NEW p \in Pids, NEW q \in Pids, st[p] = "stop", st[q] = "stop"
               PROVE  p = q
    BY Zenon DEF AtMostOnePausedWhenOff
  <2>1. Len(todo) = 0
    BY Zenon DEF Idle
  <2>2. PICK x \in Pids \cup {NoPid} : OnePaused(x)
    BY Zenon DEF CommandInv
  <2> QED
    BY <2>1, <2>2 DEF OnePaused, Resuming, Pending
<1> QED
  BY <1>1, SchedInvInit, SchedInvNext, CommandInvInit, CommandInvNext, PTL DEF Spec
=============================================================================
