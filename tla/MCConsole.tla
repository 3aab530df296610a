----------------------------- MODULE MCConsole -----------------------------
(* An instance of Console for TLC. *)
EXTENDS Console

\* Container 1 is started, with a command that has name=a and the id of container
\* 2 in its text; a line is about no container.  Polls log the containers' ends.
SomeLines ==
    {Line("CONTAINER_STARTED", 1, "a", 1, {1, 2}),
     Line("SIMULATOR_STARTED", None, None, None, {})}

SomeQueries ==
    {[filter |-> None, tail |-> 0, follow |-> TRUE],
     [filter |-> 2, tail |-> 1, follow |-> TRUE],
     [filter |-> 1, tail |-> 1, follow |-> FALSE]}

\* A write to the log, a death, a birth or a Ctrl+C commutes with the steps of
\* the main thread that do not look at the log, at processes or at the flag: it
\* is let happen only just before one that does, or that it wakes.
Observed ==
    at' = at =>
      /\ log' # log => at \in {"logs", "seek", "stat", "read"}
      /\ proc' # proc => at \in {"poll", "watch_poll", "watch_read"}
      /\ born' # born => at = "watch_read"
      /\ interrupt' # interrupt => at \in {"fgets", "follow", "watch"}

\* Both containers run, the second is a child of this manager.
MCInit == ConsoleInit /\ rec = [id \in Ids |-> id] /\ proc[2].child

MCSpec == MCInit /\ [][ConsoleNext /\ Observed]_cvars /\ Fairness
=============================================================================
