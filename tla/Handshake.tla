----------------------------- MODULE Handshake -----------------------------
(***************************************************************************)
(* The start of one container in namespace.c: namespace_start_container in *)
(* the manager (the parent) and namespace_child in the process it clones.  *)
(* The two synchronise over three pipes.                                   *)
(*   continue_pipe  the parent lets the child go on, after writing uid_map *)
(*   status_pipe    the child reports "ready" or the step that failed      *)
(*   exec_pipe      the child reports a failed execvp; its write end is    *)
(*                  close-on-exec, so end-of-file means that execvp worked *)
(* clone() copies the descriptor table: each side holds its own copies of  *)
(* all six ends until it closes them, executes or dies, and a read sees    *)
(* end-of-file only when no process holds the write end any more.          *)
(***************************************************************************)
EXTENDS Integers, Sequences

VARIABLES
    ppc,        \* parent: where it is in namespace_start_container
    pfds,       \* parent: pipe ends it holds
    reason,     \* parent: the errno it returns, as the step it stands for
    cpc,        \* child
    cstep,      \* child: position in Setup
    cfds,       \* child: pipe ends it holds
    failed_at,  \* child: the step that failed, "none" so far
    configured, \* kernel: uid_map and gid_map of the child are written
    cont_buf, status_buf, exec_buf,  \* kernel: contents of the pipes
    killed      \* history: somebody else killed the child

parent == <<ppc, pfds, reason>>
child == <<cpc, cstep, cfds, failed_at>>
pipes == <<cont_buf, status_buf, exec_buf>>
vars == <<parent, child, configured, pipes, killed>>

----------------------------------------------------------------------------
Ends == {"cont_r", "cont_w", "status_r", "status_w", "exec_r", "exec_w"}

Open(end) == end \in pfds \cup cfds

\* The steps of namespace_child between the release and "ready", in order.
Setup == <<"setid", "sethostname", "isolate_rootfs", "remount_proc",
           "loopback", "argv", "limits", "setpgid">>

\* The child is gone, and its descriptors with it.
ChildEnds == cpc' = "zombie" /\ cfds' = {}

KilledByParent == IF cpc = "zombie" THEN UNCHANGED <<cpc, cfds>> ELSE ChildEnds

----------------------------------------------------------------------------
(* The parent *)

\* pipe(), fcntl() or clone() failed: whatever was opened is closed again.
BeginFails ==
    /\ ppc = "begin"
    /\ ppc' = "failed"
    /\ reason' = "begin"
    /\ UNCHANGED <<pfds, child, configured, pipes, killed>>

\* What each side holds once the parent has closed the child's ends.
\* Faulty: the parent keeps a write end; an end is closed before the clone;
\* the child does not wait.
KeepsEnds == {"cont_w", "status_r", "exec_r", "exec_w"}
ParentEnds == {"cont_w", "status_r", "exec_r"}
LosesEnd == Ends \ {"cont_r"}
ChildFds == Ends
NoWait == "setup"
FirstStop == "wait"

\* The pipes exist, the child is cloned, the parent closed the child's ends.
Clone ==
    /\ ppc = "begin"
    /\ ppc' = "configure"
    /\ pfds' = ParentEnds
    /\ cpc' = FirstStop
    /\ cfds' = ChildFds
    /\ UNCHANGED <<reason, cstep, failed_at, configured, pipes, killed>>

\* The three error paths that close everything, kill and wait.
\* Faulty: without the waitpid.
AbortUnreaped(why) ==
    /\ pfds' = {}
    /\ reason' = why
    /\ KilledByParent
    /\ ppc' = "failed"
    /\ UNCHANGED <<cstep, failed_at>>
Abort(why) ==
    /\ pfds' = {}
    /\ reason' = why
    /\ KilledByParent
    /\ ppc' = "reap"
    /\ UNCHANGED <<cstep, failed_at>>

configure_user_namespace ==
    /\ ppc = "configure"
    /\ \/ /\ configured' = TRUE
          /\ ppc' = "release"
          /\ UNCHANGED <<pfds, reason, child>>
       \/ /\ Abort("map")
          /\ UNCHANGED configured
    /\ UNCHANGED <<pipes, killed>>

\* The byte in continue_pipe.  Faulty: it is not written.
NoToken == UNCHANGED cont_buf
Token == cont_buf' = TRUE

Release ==
    /\ ppc = "release"
    /\ Open("cont_r")
    /\ Token
    /\ pfds' = pfds \ {"cont_w"}
    /\ ppc' = "read_status"
    /\ UNCHANGED <<reason, child, configured, status_buf, exec_buf, killed>>

\* write() without a reader: SIGPIPE ends the manager, unless it was launched
\* with that signal ignored.
ReleaseFails ==
    /\ ppc = "release"
    /\ ~Open("cont_r")
    /\ \/ /\ ppc' = "dead"
          /\ pfds' = {}
          /\ UNCHANGED <<reason, child>>
       \/ Abort("write")
    /\ UNCHANGED <<configured, pipes, killed>>

\* The errno of a status that is not "ready".  Faulty: always EPROTO.
AlwaysEproto == "EPROTO"
StatusErrno == IF status_buf = "empty" THEN "EPROTO" ELSE status_buf

\* read_status; on an error the child is not killed, it exits by itself.
ReadStatus ==
    /\ ppc = "read_status"
    /\ status_buf # "empty" \/ ~Open("status_w")
    /\ IF status_buf = "ready"
       THEN ppc' = "read_exec" /\ pfds' = pfds \ {"status_r"} /\ UNCHANGED reason
       ELSE /\ ppc' = "reap"
            /\ pfds' = {}
            /\ reason' = StatusErrno
    /\ status_buf' = "empty"
    /\ UNCHANGED <<child, configured, cont_buf, exec_buf, killed>>

\* read_exec_status: end-of-file is success.
ReadExec ==
    /\ ppc = "read_exec"
    /\ exec_buf \/ ~Open("exec_w")
    /\ exec_buf' = FALSE
    /\ IF exec_buf
       THEN Abort("exec")
       ELSE ppc' = "started" /\ pfds' = {} /\ UNCHANGED <<reason, child>>
    /\ UNCHANGED <<configured, cont_buf, status_buf, killed>>

\* The blocking waitpid of every error path.
Reap ==
    /\ ppc = "reap"
    /\ cpc = "zombie"
    /\ cpc' = "none"
    /\ ppc' = "failed"
    /\ UNCHANGED <<pfds, reason, cstep, cfds, failed_at, configured, pipes, killed>>

----------------------------------------------------------------------------
(* The child *)

\* wait_for_parent_ready: the token, or end-of-file (EPROTO).
ChildReleased ==
    /\ cpc = "wait"
    /\ cont_buf \/ ~Open("cont_w")
    /\ cont_buf' = FALSE
    /\ IF cont_buf
       THEN /\ cpc' = "setup"
            /\ cfds' = cfds \ {"cont_r"}
            /\ UNCHANGED <<failed_at, status_buf>>
       ELSE ChildEnds /\ failed_at' = "wait" /\ status_buf' = "wait"
    /\ UNCHANGED <<parent, cstep, configured, exec_buf, killed>>

SetupStep ==
    /\ cpc = "setup"
    /\ cstep <= Len(Setup)
    /\ cstep' = cstep + 1
    /\ UNCHANGED <<parent, cpc, cfds, failed_at, configured, pipes, killed>>

\* A step fails: its errno goes to the parent and the child returns 1.
SetupFails ==
    /\ cpc = "setup"
    /\ cstep <= Len(Setup)
    /\ status_buf' = Setup[cstep]
    /\ failed_at' = Setup[cstep]
    /\ ChildEnds
    /\ UNCHANGED <<parent, cstep, configured, cont_buf, exec_buf, killed>>

Ready ==
    /\ cpc = "setup"
    /\ cstep > Len(Setup)
    /\ status_buf' = "ready"
    /\ cfds' = cfds \ {"status_w"}
    /\ cpc' = "exec"
    /\ UNCHANGED <<parent, cstep, failed_at, configured, cont_buf, exec_buf, killed>>

Exec ==
    /\ cpc = "exec"
    /\ cpc' = "running"
    /\ cfds' = cfds \ {"exec_w"}
    /\ UNCHANGED <<parent, cstep, failed_at, configured, pipes, killed>>

\* The errno in exec_pipe.  Faulty: it is not written.
ExecUnreported == UNCHANGED exec_buf
ExecReported == exec_buf' = TRUE

ExecFails ==
    /\ cpc = "exec"
    /\ ExecReported
    /\ failed_at' = "exec"
    /\ ChildEnds
    /\ UNCHANGED <<parent, cstep, configured, cont_buf, status_buf, killed>>

\* The command ends.
Finish ==
    /\ cpc = "running"
    /\ ChildEnds
    /\ UNCHANGED <<parent, cstep, failed_at, configured, pipes, killed>>

----------------------------------------------------------------------------
(* Somebody kills the child, or the parent, at any moment *)

ChildKilled ==
    /\ cpc \in {"wait", "setup", "exec", "running"}
    /\ ChildEnds
    /\ killed' = TRUE
    /\ UNCHANGED <<parent, cstep, failed_at, configured, pipes>>

ParentKilled ==
    /\ ppc \notin {"started", "failed", "dead"}
    /\ ppc' = "dead"
    /\ pfds' = {}
    /\ UNCHANGED <<reason, child, configured, pipes, killed>>

----------------------------------------------------------------------------
Init ==
    /\ ppc = "begin" /\ pfds = {} /\ reason = "none"
    /\ cpc = "none" /\ cstep = 1 /\ cfds = {} /\ failed_at = "none"
    /\ configured = FALSE
    /\ cont_buf = FALSE /\ status_buf = "empty" /\ exec_buf = FALSE
    /\ killed = FALSE

Parent == \/ BeginFails \/ Clone \/ configure_user_namespace \/ Release
          \/ ReleaseFails \/ ReadStatus \/ ReadExec \/ Reap

Child == ChildReleased \/ SetupStep \/ SetupFails \/ Ready \/ Exec \/ ExecFails

Next == Parent \/ Child \/ Finish \/ ChildKilled \/ ParentKilled

Spec == Init /\ [][Next]_vars

----------------------------------------------------------------------------
(* Properties *)

Failures == {Setup[i] : i \in 1 .. Len(Setup)} \cup {"wait"}

TypeOK ==
    /\ ppc \in {"begin", "configure", "release", "read_status", "read_exec",
               "reap", "started", "failed", "dead"}
    /\ pfds \subseteq Ends /\ cfds \subseteq Ends
    /\ reason \in {"none", "begin", "map", "write", "EPROTO", "exec"} \cup Failures
    /\ cpc \in {"none", "wait", "setup", "exec", "running", "zombie"}
    /\ cstep \in 1 .. Len(Setup) + 1
    /\ failed_at \in {"none", "exec"} \cup Failures
    /\ configured \in BOOLEAN /\ killed \in BOOLEAN
    /\ cont_buf \in BOOLEAN /\ exec_buf \in BOOLEAN
    /\ status_buf \in {"empty", "ready"} \cup Failures

\* The child changes its ids, mounts and limits, and executes, only after the
\* parent has written its uid and gid maps.
SetupAfterMapping == cpc \in {"setup", "exec", "running"} => configured

\* A start reported as successful went through every setup step, and no failed
\* execvp is mistaken for the end-of-file of a successful one.  One reported as
\* failed leaves nothing: the child is reaped.  Either way the parent has closed
\* every pipe end.
OutcomeTrue ==
    /\ ppc = "started" =>
         /\ cstep = Len(Setup) + 1
         /\ cpc \in {"running", "zombie"}
         /\ failed_at = "none"
    /\ ppc = "failed" => cpc = "none"
    /\ ppc \in {"failed", "started"} => pfds = {}

\* The errno the caller reports is the one of the step that failed in the child.
ReasonIsTheChilds ==
    ppc = "failed" /\ failed_at # "none" => reason = failed_at

\* Nothing the child does by itself kills the manager: SIGPIPE or a failed
\* write at the release takes an outsider that killed the child before.
ReleaseSafe == ppc = "release" /\ ~Open("cont_r") => killed

\* namespace_start_container returns (or its process dies): no pipe end that
\* stays open keeps a read, and no survivor keeps the waitpid, from returning.
StartReturns == ppc # "begin" ~> ppc \in {"started", "failed", "dead"}

\* The child never stays half set up, unless the parent died before the
\* release: the child holds the write end of continue_pipe itself, so it waits
\* for ever for an end-of-file.
ChildSettles ==
    <>[](cpc \in {"none", "running", "zombie"} \/ (cpc = "wait" /\ ppc = "dead"))

\* The handshake implements the contract of a start.
Contract == INSTANCE StartContract WITH
    result <- CASE ppc = "started" -> "ok"
                [] ppc = "failed" -> "fail"
                [] ppc = "dead" -> "gone"
                [] OTHER -> "none",
    proc <- CASE cpc \in {"wait", "setup", "exec"} -> "setup"
              [] cpc = "running" -> "exec"
              [] cpc = "zombie" -> "dead"
              [] cpc = "none" -> "none"

ImplementsContract == Contract!SSpec
=============================================================================
