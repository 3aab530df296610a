---------------------------- MODULE MCScheduler ----------------------------
(* Instances of Scheduler for TLC. *)
EXTENDS Scheduler

\* Liveness cannot be checked under SYMMETRY.  Instead, a new process gets the
\* lowest pid nothing names (such pids are interchangeable) and belongs to a
\* new container, at the tail of the list; the list still gets every order.
Canonical == \A p \in Pids : st[p] = "free" /\ st'[p] = "run" =>
               /\ \A q \in Pids : Fresh(q) => p <= q
               /\ running' = Append(running, p)

LiveSpec == Init /\ [][Next /\ Canonical]_vars /\ WF_vars(Thread) /\ WF_vars(Main)
=============================================================================
