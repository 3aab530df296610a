------------------------------- MODULE Watch -------------------------------
(***************************************************************************)
(* poll_states and stats --watch of container.c with monitor_read: between *)
(* two refreshes a watch keeps CPU samples, which it finds by pid.         *)
(*                                                                         *)
(* Containers are children of this manager, or were restored from an       *)
(* earlier one; the pid of such a record may pass to another process.      *)
(* born tells the processes with one pid apart.                            *)
(***************************************************************************)
EXTENDS Logger

CONSTANTS
    Pids,
    MaxBorn   \* bound: processes

ASSUME WatchAssumption == None \notin Pids /\ MaxBorn \in Nat

VARIABLES
    rec,      \* Ids -> the pid of the RUNNING record, or None
    proc,     \* Pids -> the process: born (0 if none), child of ours, zombie
    born,     \* how many processes there have been
    watched,  \* the container of stats --watch, or None for all of them
    prev,     \* the samples: Pids -> born, 0 if none
    pct       \* history: who was compared with whom for the percentages shown

wvars == <<rec, proc, born, watched, prev, pct>>

NoProc == [born |-> 0, child |-> FALSE, zombie |-> FALSE]
NoSamples == [p \in Pids |-> 0]

\* waitpid returns the child, or says ECHILD and kill(pid, 0) finds nothing.
\* (A zombie that is no child of ours is gone in no time: init reaps it.)
Ended(id) == rec[id] # None /\ (proc[rec[id]].zombie \/ proc[rec[id]].born = 0)

Stopped(id) == Line("CONTAINER_STOPPED", id, None, None, {id})

\* poll_states: every record whose process has ended, in the order of the list.
poll_states ==
    LET ended == {id \in Ids : Ended(id)}
        n     == Cardinality(ended)
    IN  /\ rec' = [id \in Ids |-> IF Ended(id) THEN None ELSE rec[id]]
        /\ proc' = [p \in Pids |-> IF proc[p].zombie THEN NoProc ELSE proc[p]]
        /\ \E order \in [1 .. n -> ended] :
             /\ \A j, k \in 1 .. n : j < k => order[j] < order[k]
             /\ log' = Appended([k \in 1 .. n |-> Stopped(order[k])])

----------------------------------------------------------------------------
(* container_stats_watch and container_stats_all_watch *)

WatchPoll ==
    /\ at = "watch_poll"
    /\ poll_states
    /\ at' = "watch_read"
    /\ UNCHANGED <<interrupt, view, born, watched, prev, pct>>

\* find_sample.  Faulty: the first one of the array.
AnySample(p) == Max({prev[q] : q \in Pids})
find_sample(p) == prev[p]

\* The record is RUNNING and monitor_read finds its pid in /proc.
Readable(id) == rec[id] # None /\ proc[rec[id]].born # 0

\* The samples of the containers read, and the comparisons.  A smaller CPU time
\* than before is not shown, which only another process has.
Refresh(read) ==
    LET Old(id) == find_sample(rec[id])
        now(id) == proc[rec[id]].born
    IN  /\ prev' = [p \in Pids |-> IF \E id \in read : rec[id] = p THEN proc[p].born ELSE prev[p]]
        /\ \E shown \in SUBSET {id \in read : Old(id) # 0} :
             /\ \A id \in read : Old(id) = now(id) => id \in shown
             /\ pct' = {[id |-> id, from |-> Old(id), to |-> now(id)] : id \in shown}

\* monitor_read may fail for any of them.  A watch of one container is over when
\* it is gone, not running, or not read; a watch of all skips that container, and
\* is over when there is no memory for the samples.
WatchRefresh ==
    /\ at = "watch_read"
    /\ \/ \E read \in SUBSET {id \in Ids : Readable(id)} :
            /\ watched # None => read = {watched}
            /\ Refresh(read)
            /\ at' = "watch_sleep"
       \/ at' = "watch_end" /\ UNCHANGED <<prev, pct>>
    /\ UNCHANGED <<interrupt, lvars, rec, proc, born, watched>>

WatchReturn ==
    /\ at = "watch_end"
    /\ at' = "prompt"
    /\ watched' = None /\ prev' = NoSamples /\ pct' = {}
    /\ UNCHANGED <<interrupt, lvars, rec, proc, born>>

\* poll_states in the loop of logs -f.
FollowPoll ==
    /\ at = "poll"
    /\ poll_states
    /\ at' = "stat"
    /\ UNCHANGED <<interrupt, view, born, watched, prev, pct>>

----------------------------------------------------------------------------
(* Processes *)

Dies(p) ==
    /\ proc[p].born # 0 /\ ~proc[p].zombie
    /\ proc' = [proc EXCEPT ![p] = IF @.child THEN [@ EXCEPT !.zombie = TRUE] ELSE NoProc]
    /\ UNCHANGED <<at, interrupt, lvars, rec, born, watched, prev, pct>>

\* Somebody else's process gets a free pid.
Appears(p) ==
    /\ proc[p].born = 0 /\ born < MaxBorn
    /\ born' = born + 1
    /\ proc' = [proc EXCEPT ![p] = [born |-> born', child |-> FALSE, zombie |-> FALSE]]
    /\ UNCHANGED <<at, interrupt, lvars, rec, watched, prev, pct>>

\* When the command loop comes to a logs or a stats, a container may have been
\* started by this manager, restored from an earlier one, or not be running.
WatchInit ==
    /\ \E child \in [Ids -> BOOLEAN], runs \in SUBSET Ids, pid \in [Ids -> Pids] :
         /\ IsInjective(pid)
         /\ rec = [id \in Ids |-> IF id \in runs THEN pid[id] ELSE None]
         /\ proc = [p \in Pids |->
                      IF \E id \in runs : rec[id] = p
                      THEN LET id == CHOOSE i \in runs : rec[i] = p
                           IN  [born |-> id, child |-> child[id], zombie |-> FALSE]
                      ELSE NoProc]
    /\ born = Cardinality(Ids)
    /\ watched = None /\ prev = NoSamples /\ pct = {}

----------------------------------------------------------------------------
\* A CPU percentage compares two samples of one process when the container is a
\* child of this manager: its pid is not free before poll_states has reaped it,
\* and then the record is not RUNNING.  A restored record may name a pid that
\* has passed to another process in between.
SameProcess == \A c \in pct : rec[c.id] # None /\ proc[rec[c.id]].child => c.from = c.to
=============================================================================
