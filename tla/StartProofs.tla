---------------------------- MODULE StartProofs ----------------------------
(***************************************************************************)
(* The start of a container as a whole: the isolation of the child is      *)
(* sound by itself, the composition of rootfs, handshake and isolation is  *)
(* a handshake and an isolation, and what is proved of those holds of it.  *)
(***************************************************************************)
EXTENDS ContainerStart, HandshakeProofs

----------------------------------------------------------------------------
(* The isolation *)

\* Before pivot_root the child has the host's root, after it the rootfs; the
\* fallback may begin in either.  A chroot of the fallback from inside the rootfs
\* goes to the inner place, which exists then.
RootKnown ==
    /\ ipc \in {"private", "bind", "mkdir_old", "chdir"} => root = "host" /\ cwd = "host" /\ ~old
    /\ ipc = "pivot" => root = "host" /\ cwd = "top" /\ ~old
    /\ ipc \in {"slash", "umount"} => root = "top" /\ cwd = "top"
    /\ ipc = "rmdir" => root = "top" /\ cwd = "top" /\ ~old
    /\ ipc = "chdir_rootfs" => \/ root = "host" /\ ~old
                               \/ root = "top"
    /\ ipc = "chroot" => \/ root = "host" /\ cwd = "top" /\ ~old
                         \/ cwd = "inner"
    /\ ipc = "chroot_slash" => \/ root = "top" /\ cwd = "top" /\ ~old
                               \/ root = "inner"
    /\ ipc = "proc" => cwd = root /\ (root = "inner" \/ (root = "top" /\ ~old))

IsolationInv == IsolationTypeOK /\ RootKnown /\ Isolated

\* The invariant holds when filesystem_isolate_rootfs is called.
LEMMA IsolationInvInit == IsolationInit => IsolationInv
  BY ZenonT(60) DEF IsolationInit, IsolationInv, IsolationTypeOK, RootKnown, Isolated,
         Places, NestedKinds, PivotCalls

\* Every system call preserves it, whether it succeeds or fails.
LEMMA IsolationInvNext == IsolationInv /\ [IsolationNext]_ivars => IsolationInv'
<1> SUFFICES ASSUME IsolationInv, [IsolationNext]_ivars PROVE IsolationInv'
  OBVIOUS
<1> USE DEF IsolationInv, IsolationTypeOK, RootKnown, Isolated, Places, NestedKinds,
            PivotCalls, Goto
<1>1. CASE MakePrivate
  BY <1>1 DEF MakePrivate
<1>2. CASE Bind \/ MkdirOld \/ ChdirRootfs
  BY <1>2 DEF Bind, MkdirOld, ChdirRootfs
<1>3. CASE PivotRoot \/ ChdirSlash
  BY <1>3, ZenonT(60) DEF PivotRoot, ChdirSlash
<1>4. CASE UmountOld \/ RmdirOld
  <2>1. CASE UmountOld
    <3>1. ~old' /\ old' \in BOOLEAN
      BY <2>1, ZenonT(60) DEF UmountOld
    <3> QED
      BY <2>1, <3>1 DEF UmountOld
  <2>2. CASE RmdirOld
    BY <2>2 DEF RmdirOld
  <2> QED
    BY <1>4, <2>1, <2>2, SMTT(60)
<1>5. CASE PivotCallFails
  <2>1. ipc' \in {"chdir_rootfs", "failed"}
    BY <1>5 DEF PivotCallFails, PivotFailed
  <2> QED
    BY <1>5, <2>1 DEF PivotCallFails
<1>6. CASE FallbackChdir
  BY <1>6 DEF FallbackChdir
<1>7. CASE Chroot
  BY <1>7 DEF Chroot
<1>8. CASE ChrootSlash \/ FallbackFails
  BY <1>8 DEF ChrootSlash, FallbackFails
<1>9. CASE MountProc
  BY <1>9, SMTT(60) DEF MountProc, HasProc
<1>10. CASE UNCHANGED ivars
  BY <1>10 DEF ivars
<1> QED
  BY <1>1, <1>2, <1>3, <1>4, <1>5, <1>6, <1>7, <1>8, <1>9, <1>10, ZenonT(60) DEF IsolationNext

\* However the calls of filesystem_isolate_rootfs fail, before or after
\* pivot_root, success means that the child is in the rootfs, or in another one
\* nested in it at the same path, and never on the host.
THEOREM IsolationSound == IsolationSpec => []Isolated
<1>1. IsolationInv => Isolated
  BY DEF IsolationInv
<1> QED
  BY <1>1, IsolationInvInit, IsolationInvNext, PTL DEF IsolationSpec

----------------------------------------------------------------------------
(* The composition *)

\* A step of the start is one of the handshake or leaves its variables alone.
LEMMA HandshakePart == [StartNext]_allvars => [Next]_vars
  BY DEF StartNext, allvars, Creates, Isolates

\* A step of the start is one of the isolation or leaves its variables alone.
LEMMA IsolationPart == [StartNext]_allvars => [IsolationNext]_ivars
  BY DEF StartNext, allvars, Creates, Isolates, Coupled

\* The position of a step in namespace_child.
LEMMA IsolatingAt == TypeOK => (Isolating <=> cpc = "setup" /\ cstep = 3)
  BY DEF TypeOK, Isolating, Setup

\* The child goes on to the steps after filesystem_isolate_rootfs only when that
\* has succeeded, and the isolation takes no step after that.
Passed == cstep > 3 => ipc = "done"

\* Nothing makes the child pass the isolation before it is done.
LEMMA PassedNext == HandshakeInv /\ Passed /\ [StartNext]_allvars => Passed'
<1> SUFFICES ASSUME HandshakeInv, Passed, [StartNext]_allvars PROVE Passed'
  OBVIOUS
<1>0. TypeOK /\ cstep \in Int
  BY DEF HandshakeInv, TypeOK
<1>1. ipc = "done" => ~IsolationNext
  BY DEF IsolationNext, MakePrivate, Bind, MkdirOld, ChdirRootfs, PivotRoot, ChdirSlash,
         UmountOld, RmdirOld, PivotCallFails, FallbackChdir, Chroot, ChrootSlash,
         FallbackFails, MountProc, Goto, PivotCalls
<1>2. CASE Creates \/ UNCHANGED allvars
  BY <1>2, SMTT(60) DEF Creates, allvars, vars, ivars, child, Passed
<1>3. CASE Isolates
  BY <1>1, <1>3, SMTT(60) DEF Isolates, vars, child, Passed
<1>4. CASE Next /\ Coupled
  <2>1. UNCHANGED ipc
    BY <1>4 DEF Coupled, ivars
  <2>2. CASE UNCHANGED cstep
    BY <2>1, <2>2, SMTT(60) DEF Passed
  <2>3. CASE cstep' # cstep
    <3>1. cpc = "setup" /\ cstep' = cstep + 1
      BY <1>4, <2>3, ZenonT(60) DEF Next, Parent, Child, BeginFails, Clone, configure_user_namespace,
         Abort, Release, ReleaseFails, ReadStatus, ReadExec, Reap, ChildReleased, SetupStep,
         SetupFails, Ready, Exec, ExecFails, Finish, ChildKilled, ParentKilled, child
    <3>2. cstep = 3 => ipc = "done"
      BY <1>0, <1>4, <2>3, <3>1, IsolatingAt, SMTT(60) DEF Coupled
    <3> QED
      BY <1>0, <2>1, <3>1, <3>2, SMTT(60) DEF Passed
  <2> QED
    BY <2>2, <2>3, SMTT(60)
<1> QED
  BY <1>2, <1>3, <1>4, SMTT(60) DEF StartNext

\* The whole start, with the rootfs prepared before it and the isolation inside
\* it, goes through the states of the handshake alone: the other parts delay its
\* steps and choose which of them fail, and change none.
THEOREM StartIsHandshake == StartSpec => Spec
<1>1. StartInit => Init
  BY SMTT(60) DEF StartInit
<1> QED
  BY <1>1, HandshakePart, PTL DEF StartSpec, Spec

\* In the same way, the child's system calls are those of the isolation alone.
THEOREM StartIsIsolation == StartSpec => IsolationSpec
<1>1. StartInit => IsolationInit
  BY DEF StartInit
<1> QED
  BY <1>1, IsolationPart, PTL DEF StartSpec, IsolationSpec

\* A start through namespace_start_container keeps the contract its caller,
\* start_container_by_id, relies on, also while the rootfs is prepared again.
THEOREM StartImplementsContract == StartSpec => ImplementsContract
  BY StartIsHandshake, HandshakeImplementsContract, PTL

\* Whenever namespace_start_container returns, its outcome is the true one: a
\* child that went through all of namespace_child, or none that is left.
THEOREM StartOutcome == StartSpec => []OutcomeTrue
  BY StartIsHandshake, HandshakeCorrect, PTL

\* The child changes ids, mounts and limits, and executes, only after the parent
\* wrote its uid and gid maps.
THEOREM StartMapped == StartSpec => []SetupAfterMapping
  BY StartIsHandshake, HandshakeCorrect, PTL

\* The errno of a failed start is that of the step of namespace_child that
\* failed.
THEOREM StartReason == StartSpec => []ReasonIsTheChilds
  BY StartIsHandshake, HandshakeCorrect, PTL

\* The release of the child fails, and SIGPIPE ends the manager, only when
\* somebody else killed the child.
THEOREM StartReleaseSafe == StartSpec => []ReleaseSafe
  BY StartIsHandshake, HandshakeCorrect, PTL

\* No command is executed, or about to be, outside the container's rootfs,
\* whatever files the host has, whatever calls failed and whoever was killed.
THEOREM ConfinedCommands == StartSpec => []CommandConfined
<1>1. StartInit => HandshakeInv /\ IsolationInv /\ Passed
  BY HandshakeInit, IsolationInvInit, SMTT(60) DEF StartInit, Init, Passed
<1>2. HandshakeInv /\ IsolationInv /\ Passed /\ [StartNext]_allvars
        => HandshakeInv' /\ IsolationInv' /\ Passed'
  BY HandshakePart, HandshakeStep, IsolationPart, IsolationInvNext, PassedNext, SMTT(60)
<1>3. HandshakeInv /\ IsolationInv /\ Passed => CommandConfined
  <2>1. HandshakeInv => (cpc \in {"exec", "running"} => cstep = 9)
    BY DEF HandshakeInv, Reports, Steps
  <2> QED
    BY <2>1, SMTT(60) DEF IsolationInv, Passed, CommandConfined
<1> QED
  BY <1>1, <1>2, <1>3, PTL DEF StartSpec
=============================================================================
