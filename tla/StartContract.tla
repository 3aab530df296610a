--------------------------- MODULE StartContract ---------------------------
(***************************************************************************)
(* What namespace_start_container promises its caller, without pipes: a    *)
(* start that succeeds returns a child that executed the command (or died  *)
(* on the way and waits to be reaped); one that fails leaves no child.     *)
(***************************************************************************)
VARIABLES
    result,  \* "none" while starting, then "ok" or "fail"; "gone": no caller
    proc     \* the child: "none", "setup", "exec" or "dead" (not yet reaped)

svars == <<result, proc>>

SInit == result = "none" /\ proc = "none"

Clone == result = "none" /\ proc = "none" /\ proc' = "setup" /\ UNCHANGED result

Exec == proc = "setup" /\ proc' = "exec" /\ UNCHANGED result

Die == proc \in {"setup", "exec"} /\ proc' = "dead" /\ UNCHANGED result

Succeed == result = "none" /\ proc \in {"exec", "dead"} /\ result' = "ok" /\ UNCHANGED proc

\* The child, if there is one, is dead, and reaped together with the failure.
Fail == result = "none" /\ proc \in {"none", "dead"} /\ result' = "fail" /\ proc' = "none"

CallerDies == result = "none" /\ result' = "gone" /\ UNCHANGED proc

SNext == Clone \/ Exec \/ Die \/ Succeed \/ Fail \/ CallerDies

SSpec == SInit /\ [][SNext]_svars
=============================================================================
