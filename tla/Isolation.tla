----------------------------- MODULE Isolation -----------------------------
(***************************************************************************)
(* filesystem_isolate_rootfs in filesystem.c: the system calls by which    *)
(* the child makes the container's rootfs its root directory, through      *)
(* pivot_root or, where the host denies that, through chroot.  Any call    *)
(* may fail; what happens then depends on the errno alone, not on how far  *)
(* the child had come.                                                     *)
(***************************************************************************)
EXTENDS Integers

VARIABLES
    ipc,     \* the next system call; "done" or "failed" in the end
    root,    \* the child's root directory: see Places
    cwd,     \* its working directory
    old,     \* the host's tree is mounted on .old_root below the rootfs
    nested   \* what the rootfs's own path leads to inside the rootfs

ivars == <<ipc, root, cwd, old, nested>>

\* The host's root, the rootfs, and what its path leads to inside the rootfs.
Places == {"host", "top", "inner"}

\* Nothing, a directory of create_layout (as for /tmp), another rootfs.
NestedKinds == {"none", "dir", "rootfs"}

\* The errnos the code tells apart.
Errnos == {"EPERM", "EINVAL", "other"}

\* Moves on to the next call when the current one succeeds.
Goto(from, to) == ipc = from /\ ipc' = to

\* enter_root_with_pivot_root returned -1.
PivotFailed(e) == IF e \in {"EPERM", "EINVAL"} THEN "chdir_rootfs" ELSE "failed"

PivotCalls == {"bind", "mkdir_old", "chdir", "pivot", "slash", "umount", "rmdir"}

\* MS_PRIVATE on the whole tree: EPERM is ignored.
MakePrivate ==
    /\ ipc = "private"
    /\ ipc' \in {"bind", "failed"}
    /\ UNCHANGED <<root, cwd, old, nested>>

\* The calls of enter_root_with_pivot_root, in order.
Bind == Goto("bind", "mkdir_old") /\ UNCHANGED <<root, cwd, old, nested>>

MkdirOld == Goto("mkdir_old", "chdir") /\ UNCHANGED <<root, cwd, old, nested>>

ChdirRootfs == Goto("chdir", "pivot") /\ cwd' = "top" /\ UNCHANGED <<root, old, nested>>

PivotRoot ==
    /\ Goto("pivot", "slash")
    /\ root' = cwd
    /\ old' = TRUE
    /\ UNCHANGED <<cwd, nested>>

ChdirSlash == Goto("slash", "umount") /\ cwd' = root /\ UNCHANGED <<root, old, nested>>

\* umount2 with MNT_DETACH.
UmountOld == Goto("umount", "rmdir") /\ old' = FALSE /\ UNCHANGED <<root, cwd, nested>>

RmdirOld == Goto("rmdir", "proc") /\ UNCHANGED <<root, cwd, old, nested>>

PivotCallFails ==
    /\ ipc \in PivotCalls
    /\ \E e \in Errnos : ipc' = PivotFailed(e)
    /\ UNCHANGED <<root, cwd, old, nested>>

\* enter_root_with_chroot: chdir looks the path up from whatever root the child
\* has by now.
FallbackChdir ==
    /\ Goto("chdir_rootfs", "chroot")
    /\ root = "host" \/ nested # "none"
    /\ cwd' = IF root = "host" THEN "top" ELSE "inner"
    /\ UNCHANGED <<root, old, nested>>

Chroot == Goto("chroot", "chroot_slash") /\ root' = cwd /\ UNCHANGED <<cwd, old, nested>>

ChrootSlash == Goto("chroot_slash", "proc") /\ cwd' = root /\ UNCHANGED <<root, old, nested>>

FallbackFails ==
    /\ ipc \in {"chdir_rootfs", "chroot", "chroot_slash"}
    /\ ipc' = "failed"
    /\ UNCHANGED <<root, cwd, old, nested>>

\* The proc mount: EPERM is ignored, a missing /proc (ENOENT) is not.
\* Faulty: every error is ignored.
ProcIgnored == TRUE
HasProc == root = "inner" => nested = "rootfs"

MountProc ==
    /\ ipc = "proc"
    /\ \/ HasProc /\ ipc' = "done"
       \/ ipc' = "failed"
    /\ UNCHANGED <<root, cwd, old, nested>>

----------------------------------------------------------------------------
IsolationInit ==
    /\ ipc = "private"
    /\ root = "host" /\ cwd = "host" /\ old = FALSE
    /\ nested \in NestedKinds

IsolationNext ==
    \/ MakePrivate \/ Bind \/ MkdirOld \/ ChdirRootfs \/ PivotRoot \/ ChdirSlash
    \/ UmountOld \/ RmdirOld \/ PivotCallFails
    \/ FallbackChdir \/ Chroot \/ ChrootSlash \/ FallbackFails \/ MountProc

IsolationSpec == IsolationInit /\ [][IsolationNext]_ivars

----------------------------------------------------------------------------
IsolationTypeOK ==
    /\ ipc \in PivotCalls \cup {"private", "chdir_rootfs", "chroot", "chroot_slash",
                               "proc", "done", "failed"}
    /\ root \in Places /\ cwd \in Places
    /\ old \in BOOLEAN
    /\ nested \in NestedKinds

\* However many calls failed on the way, an isolation reported as successful
\* leaves the child in the container's rootfs, with its working directory there
\* and without the host's tree below it.  A fallback taken after pivot_root has
\* succeeded looks the rootfs's path up inside the rootfs: it fails, unless
\* another rootfs is found there.
Isolated ==
    ipc = "done" =>
      /\ cwd = root
      /\ \/ root = "top" /\ ~old
         \/ root = "inner" /\ nested = "rootfs"
=============================================================================
