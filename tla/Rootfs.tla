------------------------------- MODULE Rootfs -------------------------------
(***************************************************************************)
(* filesystem_prepare_rootfs in filesystem.c: container_create fills the   *)
(* rootfs with a few tools of the host, the files their symbolic links     *)
(* lead to and the shared libraries ldd lists.                             *)
(*                                                                         *)
(* A path is the sequence of its names.  fs is the whole file system of    *)
(* the host, the rootfs in it: from paths without links and ".." to nodes. *)
(* The code joins and cuts paths as text; the kernel walks them.           *)
(***************************************************************************)
EXTENDS Integers, SequencesExt

CONSTANTS
    rootfs,      \* the absolute path of the rootfs
    Layout,      \* the directories of create_layout
    Tools,       \* bootstrap_binaries, in order
    Workloads,   \* bootstrap_workloads: <<path on the host, path inside>>
    Needs,       \* what ldd prints for a program: paths, or NotFound
    NotFound,
    Hosts,       \* the file systems a manager may find, leftovers included
    MaxPrepares  \* bound: calls of filesystem_prepare_rootfs

VARIABLES
    fs,
    jobs,      \* what is still to be copied
    prep,      \* "none", "busy", "ok", "failed"; "overflow": the manager died
    why,       \* the errno of the last failure the model tells apart
    ldd,       \* history: every ldd of the last call ran
    prepares,  \* calls so far
    executing  \* kernel: the files that running containers execute

rvars == <<fs, jobs, prep, why, ldd, prepares, executing>>

Dir == [kind |-> "dir"]
Link(abs, to) == [kind |-> "link", abs |-> abs, to |-> to]
File(prog, whole) == [kind |-> "file", prog |-> prog, whole |-> whole]

Is(f, p, kind) == p \in DOMAIN f /\ f[p].kind = kind

Put(f, p, node) == [q \in DOMAIN f \cup {p} |-> IF q = p THEN node ELSE f[q]]

Nowhere == <<"?">>

\* Links the kernel follows along one path before it gives up (ELOOP).
MaxLinks == 40

\* The kernel's walk along path, from the directory at of a process whose root
\* is top.  The last name need not exist; if it is a link, follow decides.
Walk(f, top, at, path, follow) ==
    LET walk[links \in 0 .. MaxLinks, dir \in Seq(STRING), names \in Seq(STRING)] ==
          IF names = << >> THEN dir
          ELSE LET here == Append(dir, Head(names))
                   rest == Tail(names)
               IN  CASE Head(names) = ".." ->
                          walk[links, IF dir = top THEN dir ELSE Front(dir), rest]
                     [] Is(f, here, "link") /\ (rest # << >> \/ follow) ->
                          IF links = 0 THEN Nowhere
                          ELSE walk[links - 1, IF f[here].abs THEN top ELSE dir,
                                    f[here].to \o rest]
                     [] Is(f, here, "dir") -> walk[links, here, rest]
                     [] OTHER -> IF rest = << >> THEN here ELSE Nowhere
    IN  walk[MaxLinks, at, path]

OnHost(f, path, follow) == Walk(f, << >>, << >>, path, follow)
InRootfs(f, path) == Walk(f, rootfs, rootfs, path, TRUE)

----------------------------------------------------------------------------
(* mkdir_p *)

\* stat() finds nothing, mkdir() finds a name: a link that leads nowhere.
Dangling(f, path) ==
    /\ Is(f, OnHost(f, path, FALSE), "link")
    /\ OnHost(f, path, TRUE) \notin DOMAIN f

\* What mkdir_p leaves: each prefix is a directory, becomes one, or ends it.
MadeDirs(f, path) ==
    FoldLeft(LAMBDA g, n :
               LET p == OnHost(g, SubSeq(path, 1, n), TRUE)
               IN  IF p \in DOMAIN g \cup {<< >>, Nowhere} \/ Dangling(g, SubSeq(path, 1, n))
                   THEN g ELSE Put(g, p, Dir),
             f, [n \in 1 .. Len(path) |-> n])

IsDir(f, path) == LET p == OnHost(f, path, TRUE) IN p = << >> \/ Is(f, p, "dir")

\* ensure_directory calls itself again on EEXIST: for ever, if the name dangles,
\* until the stack of the manager is used up.
Overflows(f, path) ==
    LET g == MadeDirs(f, path)
    IN  \E n \in 1 .. Len(path) : /\ Dangling(g, SubSeq(path, 1, n))
                                  /\ \A m \in 1 .. n - 1 : IsDir(g, SubSeq(path, 1, m))

\* The paths in order, up to the first that cannot be made a directory.
MadeAll(f, paths) ==
    FoldLeft(LAMBDA acc, path :
               IF acc.ok THEN LET g == MadeDirs(acc.fs, path)
                              IN  [fs |-> g, ok |-> IsDir(g, path)]
                         ELSE acc,
             [fs |-> f, ok |-> TRUE], paths)

\* A path of the container, as the manager writes it.
Destination(path) == rootfs \o path

----------------------------------------------------------------------------
(* filesystem_prepare_rootfs *)

CopyPath(path) == [op |-> "path", from |-> path, to |-> path]
CopyTo(from, to) == [op |-> "to", from |-> from, to |-> to]
Ldd(path) == [op |-> "ldd", from |-> path, to |-> path]

\* Faulty: the libraries of the tools are forgotten.
NoLibraries == FoldLeft(LAMBDA s, t : s \o <<CopyPath(t)>>, << >>, Tools)
bootstrap_rootfs_tools == FoldLeft(LAMBDA s, t : s \o <<CopyPath(t), Ldd(t)>>, << >>, Tools)

\* What has not been built is skipped.
bootstrap_rootfs_workloads ==
    FoldLeft(LAMBDA s, w : IF OnHost(fs, w[1], TRUE) \in DOMAIN fs
                           THEN s \o <<CopyTo(w[1], w[2]), Ldd(w[1])>> ELSE s,
             << >>, Workloads)

\* mkdir_p and realpath of the rootfs, then create_layout.
PrepareBegin ==
    /\ prep \in {"none", "ok", "failed"} /\ prepares < MaxPrepares
    /\ prepares' = prepares + 1
    /\ LET dirs == <<rootfs>> \o [i \in 1 .. Len(Layout) |-> Destination(Layout[i])]
           made == MadeAll(fs, dirs)
       IN  /\ fs' = made.fs
           /\ prep' = IF made.ok THEN "busy"
                      ELSE IF \E d \in Range(dirs) : Overflows(fs, d) THEN "overflow"
                      ELSE "failed"
           /\ jobs' = IF made.ok THEN bootstrap_rootfs_tools \o bootstrap_rootfs_workloads ELSE << >>
    /\ why' = "none"
    /\ ldd' = TRUE
    /\ UNCHANGED executing

\* What is done stays done.
PrepareFails(errno) ==
    /\ prep' = "failed"
    /\ why' = errno
    /\ jobs' = << >>

PrepareEnds ==
    /\ prep = "busy" /\ jobs = << >>
    /\ prep' = "ok"
    /\ UNCHANGED <<fs, jobs, why, ldd, prepares, executing>>

\* The directory a copy goes to, and the file system once mkdir_p has made it.
CopyDir(job) == Destination(Front(job.to))
WithDir(job) == MadeDirs(fs, CopyDir(job))

\* Any call may fail, or the manager be killed, before or after mkdir_p.
PrepareStops ==
    /\ prep = "busy"
    /\ \/ UNCHANGED fs
       \/ jobs # << >> /\ Head(jobs).op # "ldd" /\ fs' = WithDir(Head(jobs))
    /\ PrepareFails("other")
    /\ UNCHANGED <<ldd, prepares, executing>>

\* resolve_symlink_target: as text, next to the link.
Target(path, link) == IF link.abs THEN link.to ELSE Front(path) \o link.to

\* copy_path_into_rootfs on a symbolic link: what is in its place is unlinked, it
\* is copied as it is, and the path it leads to comes next.
CopyLink ==
    /\ prep = "busy" /\ jobs # << >> /\ Head(jobs).op = "path"
    /\ LET path == Head(jobs).from
           link == OnHost(fs, path, FALSE)
           made == WithDir(Head(jobs))
           dst  == OnHost(made, Destination(path), FALSE)
       IN  /\ Is(fs, link, "link")
           /\ IsDir(made, CopyDir(Head(jobs))) /\ ~Is(made, dst, "dir")
           /\ \/ /\ fs' = Put(made, dst, fs[link])
                 /\ jobs' = <<CopyPath(Target(path, fs[link]))>> \o Tail(jobs)
                 /\ UNCHANGED <<prep, why>>
              \/ /\ fs' = Restrict(made, DOMAIN made \ {dst})
                 /\ PrepareFails("other")
    /\ UNCHANGED <<ldd, prepares, executing>>

\* copy_regular_file, from copy_path_into_rootfs or for a workload: open()
\* follows a link found at the destination, truncates, and is refused
\* (ETXTBSY) if that file is being executed; a write may fail half-way.
CopyFile ==
    /\ prep = "busy" /\ jobs # << >> /\ Head(jobs).op \in {"path", "to"}
    /\ LET src  == OnHost(fs, Head(jobs).from, Head(jobs).op = "to")
           made == WithDir(Head(jobs))
           dst  == OnHost(made, Destination(Head(jobs).to), TRUE)
       IN  /\ Is(fs, src, "file") /\ IsDir(made, CopyDir(Head(jobs)))
           /\ dst # Nowhere /\ ~Is(made, dst, "dir")
           /\ \/ /\ dst \in executing
                 /\ fs' = made
                 /\ PrepareFails("ETXTBSY")
              \/ /\ dst \notin executing
                 /\ fs' = Put(made, dst, File(fs[src].prog, FALSE))
                 /\ PrepareFails("other")
              \/ /\ dst \notin executing
                 /\ fs' = Put(made, dst, fs[src])
                 /\ jobs' = Tail(jobs)
                 /\ UNCHANGED <<prep, why>>
    /\ UNCHANGED <<ldd, prepares, executing>>

\* mkdir_p cannot make the directory of the destination.
CopyNowhere ==
    /\ prep = "busy" /\ jobs # << >> /\ Head(jobs).op \in {"path", "to"}
    /\ Head(jobs).op = "to" => Is(fs, OnHost(fs, Head(jobs).from, TRUE), "file")
    /\ LET dir == CopyDir(Head(jobs))
       IN  /\ fs' = WithDir(Head(jobs))
           /\ ~IsDir(fs', dir)
           /\ prep' = IF Overflows(fs, dir) THEN "overflow" ELSE "failed"
    /\ why' = "other"
    /\ jobs' = << >>
    /\ UNCHANGED <<ldd, prepares, executing>>

\* Neither a link nor a file, or no such path: EINVAL, ENOENT.  A workload is
\* looked at before mkdir_p, any other path after it.
CopyNothing ==
    /\ prep = "busy" /\ jobs # << >> /\ Head(jobs).op \in {"path", "to"}
    /\ LET src == OnHost(fs, Head(jobs).from, Head(jobs).op = "to")
       IN  ~Is(fs, src, "link") /\ ~Is(fs, src, "file")
    /\ fs' = IF Head(jobs).op = "path" THEN WithDir(Head(jobs)) ELSE fs
    /\ Head(jobs).op = "path" => IsDir(fs', CopyDir(Head(jobs)))
    /\ PrepareFails("ENOENT")
    /\ UNCHANGED <<ldd, prepares, executing>>

\* The lines of ldd for the program a path leads to; a line without a path is
\* skipped, "not found" ends the call.
Dependencies(lines) == [i \in 1 .. Len(lines) |-> CopyPath(lines[i])]

copy_binary_dependencies ==
    /\ prep = "busy" /\ jobs # << >> /\ Head(jobs).op = "ldd"
    /\ LET src   == OnHost(fs, Head(jobs).from, TRUE)
           lines == IF Is(fs, src, "file") THEN Needs[fs[src].prog] ELSE << >>
       IN  IF NotFound \in Range(lines)
           THEN PrepareFails("ENOENT") /\ UNCHANGED ldd
           ELSE /\ \/ jobs' = Dependencies(lines) \o Tail(jobs) /\ UNCHANGED ldd
                   \/ jobs' = Tail(jobs) /\ ldd' = FALSE  \* its exit status is not tested
                /\ UNCHANGED <<prep, why>>
    /\ UNCHANGED <<fs, prepares, executing>>

----------------------------------------------------------------------------
RootfsInit ==
    /\ fs \in Hosts
    /\ jobs = << >> /\ prep = "none" /\ why = "none" /\ ldd = TRUE
    /\ prepares = 0
    /\ executing = {}

Prepare == PrepareBegin \/ PrepareEnds \/ PrepareStops \/ CopyLink \/ CopyFile
           \/ CopyNowhere \/ CopyNothing \/ copy_binary_dependencies

----------------------------------------------------------------------------
(* Properties *)

\* A program found along path from the container's root, complete, the one the
\* host finds along the same path.
Installed(path) ==
    LET in == InRootfs(fs, path)
    IN  /\ Is(fs, in, "file") /\ fs[in].whole
        /\ fs[in].prog = fs[OnHost(fs, path, TRUE)].prog

\* The paths copy_path_into_rootfs goes through for a path of the host.
TextPaths(path) ==
    LET texts[links \in 0 .. MaxLinks, p \in Seq(STRING)] ==
          LET at == OnHost(fs, p, FALSE)
          IN  IF links > 0 /\ Is(fs, at, "link")
              THEN {p} \cup texts[links - 1, Target(p, fs[at])] ELSE {p}
    IN  texts[MaxLinks, path]

\* As text, path climbs above the root it starts from.
Climbs(path) ==
    \E n \in 1 .. Len(path) :
      2 * Len(SelectSeq(SubSeq(path, 1, n), LAMBDA c : c = "..")) > n

\* A link in the rootfs where the host has a file by now: the host was changed
\* since an earlier container_create on this rootfs.
StaleLink(path) ==
    Is(fs, Destination(path), "link") /\ Is(fs, OnHost(fs, path, FALSE), "file")

\* What the program at path needs, itself included.
Closure(path) == {path} \cup Range(Needs[fs[OnHost(fs, path, TRUE)].prog])

\* A prepared rootfs holds every tool and every library of it, whatever chain of
\* links the host reaches them by and whatever an earlier, failed or interrupted
\* call left.  Three cases are beyond the code: ldd itself fails, which nobody
\* notices; a relative link that climbs above the root as text, because its
\* directory is itself a link; a stale link, which open() follows.  This is about
\* hosts that leave no link in the rootfs where a directory is wanted, and have
\* no two files whose copies have one destination.
ToolsInstalled ==
    prep = "ok" /\ ldd =>
      \A t \in Range(Tools) : \A path \in Closure(t) :
        (\A q \in TextPaths(path) : ~Climbs(q) /\ ~StaleLink(q)) => Installed(path)
=============================================================================
