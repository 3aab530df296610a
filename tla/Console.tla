------------------------------ MODULE Console ------------------------------
(***************************************************************************)
(* The command loop of main.c with the commands that do not return by      *)
(* themselves, logs -f (Logger) and stats --watch (Watch), and Ctrl+C.     *)
(*                                                                         *)
(* signal() installs on_sigint with SA_RESTART: a read goes on after it, a *)
(* nanosleep ends with EINTR.  errno is the value a failed call has left;  *)
(* no call that succeeds, and no end of file, changes it.                  *)
(***************************************************************************)
EXTENDS Watch

CONSTANT Queries   \* the arguments of logs: filter, tail, follow

ASSUME QueriesAssumption == \A q \in Queries : q.tail \in Int

VARIABLES
    errno,  \* EINTR or something else
    input   \* stdin is open or closed

cvars == <<at, interrupt, lvars, wvars, errno, input>>

----------------------------------------------------------------------------
(* The loop of main *)

Prompt ==
    /\ at = "prompt"
    /\ at' = "fgets"
    /\ UNCHANGED <<interrupt, lvars, wvars, errno, input>>

Errno == errno' \in {errno, "other"}

\* A line arrives; the commands not modelled here may fail some call.
Type ==
    /\ at = "fgets" /\ input = "open"
    /\ \/ \E q \in Queries :
            /\ query' = q
            /\ at' = "logs"
            /\ UNCHANGED <<log, seen, first, offset, catalog, rows, base, whole, wvars, errno>>
       \/ \E id \in Ids \cup {None} :
            /\ watched' = id
            /\ at' = "watch"
            /\ UNCHANGED <<lvars, rec, proc, born, prev, pct, errno>>
       \/ at' \in {"prompt", "stopped"} /\ Errno /\ UNCHANGED <<lvars, wvars>>
    /\ UNCHANGED <<interrupt, input>>

\* fgets returned NULL: was it interrupted?
Interrupted == errno = "EINTR" \/ interrupt

EndOfFile ==
    /\ at = "fgets" /\ input = "closed"
    /\ interrupt' = (interrupt /\ errno = "EINTR")
    /\ at' = IF Interrupted THEN "prompt" ELSE "stopped"
    /\ UNCHANGED <<lvars, wvars, errno, input>>

----------------------------------------------------------------------------
(* The loops of logs -f and stats --watch *)

\* container_consume_interrupt.  Faulty: the flag is not looked at in the loop.
NeverSeen == FALSE
Requested == interrupt

LoopTop ==
    /\ at \in {"follow", "watch"}
    /\ IF Requested
       THEN /\ interrupt' = FALSE
            /\ at' = IF at = "follow" THEN "free" ELSE "watch_end"
       ELSE /\ at' = IF at = "follow" THEN "poll" ELSE "watch_poll"
            /\ UNCHANGED interrupt
    /\ UNCHANGED <<lvars, wvars, errno, input>>

Top == IF at = "follow_sleep" THEN "follow" ELSE "watch"

SleepEnds ==
    /\ at \in {"follow_sleep", "watch_sleep"}
    /\ at' = Top
    /\ UNCHANGED <<interrupt, lvars, wvars, errno, input>>

on_sigint ==
    /\ at # "stopped"
    /\ interrupt' = TRUE
    /\ IF at \in {"follow_sleep", "watch_sleep"}
       THEN at' = Top /\ errno' = "EINTR"
       ELSE UNCHANGED <<at, errno>>
    /\ UNCHANGED <<lvars, wvars, input>>

\* It matters when the next line is read.
CloseInput ==
    /\ at = "fgets" /\ input = "open"
    /\ input' = "closed"
    /\ UNCHANGED <<at, interrupt, lvars, wvars, errno>>

----------------------------------------------------------------------------
ConsoleInit ==
    /\ at = "prompt" /\ interrupt = FALSE /\ errno = "other" /\ input = "open"
    /\ LoggerInit
    /\ WatchInit

\* The steps of the main thread that wait for nobody.
Steps ==
    \/ Prompt \/ EndOfFile \/ LoopTop \/ SleepEnds
    \/ /\ FollowSeek \/ LogsRender \/ FollowStat \/ LogsReturn
       /\ UNCHANGED <<wvars, errno, input>>
    \/ (LogsRead \/ FollowRead) /\ Errno /\ UNCHANGED <<wvars, input>>
    \/ (WatchPoll \/ WatchRefresh \/ FollowPoll) /\ Errno /\ UNCHANGED input
    \/ WatchReturn /\ UNCHANGED <<errno, input>>

World ==
    \/ (OtherAppends \/ Truncate) /\ UNCHANGED <<wvars, errno, input>>
    \/ (\E p \in Pids : Dies(p) \/ Appears(p)) /\ UNCHANGED <<errno, input>>

ConsoleNext == Steps \/ Type \/ on_sigint \/ CloseInput \/ World

\* The main thread is scheduled, and opening the log does not fail every time;
\* nobody has to type, to write or to die.
Fairness == WF_cvars(Steps) /\ SF_cvars(Steps /\ at = "read" /\ offset' > offset)

ConsoleSpec == ConsoleInit /\ [][ConsoleNext]_cvars /\ Fairness

----------------------------------------------------------------------------
AtPrompt == at \in {"prompt", "fgets"}

\* Ctrl+C always ends a running stats --watch or logs -f, at whichever step of
\* its loop it is typed, and the prompt comes back.
InterruptHeeded == interrupt /\ at \notin {"prompt", "fgets", "stopped"} ~> AtPrompt

\* logs -f catches up: whatever has been appended is read in the end, also from a
\* file that was truncated or replaced by a shorter one, unless Ctrl+C comes
\* first or the file is empty by then.
FollowCatchesUp == Following ~> ~Following \/ log = << >> \/ offset = Len(log)

\* When the input is closed the CLI stops, once it is back at the prompt and
\* unless Ctrl+C is typed.  A Ctrl+C that ended a stats --watch or a logs -f in
\* its sleep has left EINTR in errno, which no end of file changes: the loop
\* prints prompts for ever.
InputClosedStops == input = "closed" /\ AtPrompt ~> at = "stopped" \/ interrupt
=============================================================================
