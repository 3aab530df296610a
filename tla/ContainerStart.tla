--------------------------- MODULE ContainerStart ---------------------------
(***************************************************************************)
(* The life of a container up to its command, composed of its parts:       *)
(* container_create prepares the rootfs (Rootfs); namespace_start_container *)
(* clones the child (Handshake), the child isolates itself in that rootfs  *)
(* (Isolation) and executes a tool it finds there.  While it runs, another *)
(* container may be created on the same rootfs.                            *)
(***************************************************************************)
EXTENDS Handshake, Rootfs, Isolation

CONSTANT Command   \* path of the program the container executes

VARIABLE created   \* container_create has succeeded

allvars == <<vars, rvars, ivars, created>>

Isolating == cpc = "setup" /\ cstep <= Len(Setup) /\ Setup[cstep] = "isolate_rootfs"

\* execvp finds the program and its loader the libraries, complete, from the
\* child's root.  Another rootfs nested in this one may hold anything.
Executable ==
    LET found(path) == LET p == InRootfs(fs, path) IN Is(fs, p, "file") /\ fs[p].whole
        file        == InRootfs(fs, Command)
    IN  root = "top" => found(Command) /\ \A d \in Range(Needs[fs[file].prog]) : found(d)

\* The manager is one thread: it prepares a rootfs before or after a start.
Creates ==
    /\ ppc \in {"begin", "started", "failed"}
    /\ Prepare
    /\ created' = (created \/ prep' = "ok")
    /\ UNCHANGED <<vars, ivars>>

\* The child inside filesystem_isolate_rootfs.
Isolates ==
    /\ Isolating
    /\ IsolationNext
    /\ UNCHANGED <<vars, rvars, created>>

\* What the other parts say to a step of the handshake.
Coupled ==
    /\ ppc = "begin" /\ ppc' # "begin" => created /\ prep \notin {"busy", "overflow"}
    /\ Isolating /\ cstep' # cstep => ipc = "done"
    /\ Isolating /\ failed_at' = "isolate_rootfs" => ipc = "failed"
    /\ cpc = "exec" /\ cpc' = "running" => Executable
    /\ executing' = IF cpc' = "running" /\ root = "top" THEN {InRootfs(fs, Command)} ELSE {}
    /\ UNCHANGED <<fs, jobs, prep, why, ldd, prepares, ivars, created>>

StartInit == Init /\ RootfsInit /\ IsolationInit /\ created = FALSE

StartNext == Creates \/ Isolates \/ (Next /\ Coupled)

StartSpec == StartInit /\ [][StartNext]_allvars

\* Both processes run; a command need not end, nobody need be killed and no
\* second container need be created.
FairStart ==
    /\ StartSpec
    /\ WF_allvars(Parent /\ Coupled)
    /\ WF_allvars((Child /\ Coupled) \/ Isolates)

----------------------------------------------------------------------------
\* No command is executed, and none is about to be, outside the container's
\* rootfs: the status the parent reads as "ready" covers what the isolation
\* did, also after failed calls and the chroot fallback.
CommandConfined ==
    cpc \in {"exec", "running"} => ipc = "done" /\ Isolated

\* Two containers can run on one rootfs (tests/test_scheduler.sh runs two that
\* way).  They cannot when the first executes one of the tools: the second
\* container_create opens that file for writing.
SharedRootfs == why # "ETXTBSY"
=============================================================================
