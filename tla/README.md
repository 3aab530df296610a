# A TLA+ development for the Linux container runtime

`container-sim` is an interactive container manager written in C. This directory
holds TLA+ models of it, TLC configurations that check them on small instances,
and TLAPS proofs for every value of the constants. Paths below are relative to
the repository's root; the code is in `src/`.

## 1. The system

| Part | Source | State | Operations that change it | Interacts with |
|---|---|---|---|---|
| CLI | `main.c` | the line, `errno`, the interrupt flag | one command at a time: `run`, `runbg`, `create`, `start`, `stop`, `delete`, `list`, `stats`, `logs`, `sched`, `exit`, end of input, SIGINT | everything, by calls |
| Container manager | `container.c` | the list of records, `next_sequence`, the stacks given to `clone()`, the terminal's foreground group | init, create, start, foreground wait, stop, delete, poll, refresh of the targets, cleanup | kernel (children), metadata file, scheduler, namespace start |
| Metadata file | `container.c` | `containers.meta` | save (temporary file and rename), restore | manager, the next manager |
| Scheduler | `scheduler.c` | `g_state`: enabled flag, target array, index, thread flags | start, stop, enable, clear, add, remove; the thread's rounds | manager (same mutex), container processes (SIGSTOP, SIGCONT) |
| Namespace start | `namespace.c` | three pipes and the copies of their ends, uid and gid maps | parent: clone, map, release, read status, read exec status, kill, reap; child: wait, eight setup steps, report, exec | manager, kernel, filesystem, network, resources |
| Resource limits | `resource.c` (+ `parse_limit_flags`, `log_container_exit_status`) | `ResourceConfig`, the child's rlimits | parse, apply, log | CLI, namespace start, kernel |
| Filesystem | `filesystem.c` | the files of a rootfs; the child's root, working directory and mounts | prepare a rootfs (directories, copies, links, libraries), isolate (`pivot_root` or `chroot`) | manager, namespace start, other containers on that rootfs |
| Logger | `logger.c` | `container.log`, a catalog rebuilt from it | append, print, tail, follow | everyone, other managers in the directory |
| Monitor | `monitor.c` | CPU samples of `stats --watch` | read `/proc`, sample | manager |
| Network | `network.c` | none | bring loopback up | namespace start |
| Workloads, tests | `workload_*.c`, `tests/`, `scripts/` | none | | |

### What is hard in it

- *Manager.* A child may exit at any moment; a save may fail at each of seven
  places, most of which ignore it; the manager may die anywhere and a new one
  starts from the file; after that its containers are children of init, so that
  `waitpid` says ECHILD; pids are reused.
- *Scheduler.* The thread reads two pids under the mutex and signals them after
  releasing it; the main thread signals the same processes without the mutex;
  removing, clearing and pruning move the array under the index.
- *Namespace start.* Every read ends at end-of-file only, and end-of-file depends
  on which process still holds which of six descriptors; an end-of-file on one
  pipe means success, on another failure.
- *Limits.* Clamping against two inherited limits, each possibly infinite; the
  width of `unsigned int`; the kernel's choice of signal.
- *Command words.* They are split, joined, saved, read back and split again by
  different rules.
- *Filesystem.* Paths are joined and resolved as text while the kernel follows
  links; an earlier call may have failed anywhere and left anything; any of a
  dozen system calls of the isolation may fail, and the fallback does not know
  how far the first attempt came.
- *Logs and watches.* The file grows and is truncated between any two steps of
  `logs -f`; containers die and pids pass on between two refreshes of `stats
  --watch`; Ctrl+C falls anywhere; `errno` outlives the call that set it.

`PROJECT.json` lists these as hazards at the lines where they bite.

### What correctness means

- *Manager*: no two records share an id, through restarts; whatever runs can be
  found in the file (if the manager dies) and in memory (if it does not); a signal
  sent through a record reaches that container; no child, zombie or stack is
  leaked; the terminal comes back; `exit` leaves nothing running and terminates.
- *Scheduler*: the array and index are consistent; only processes of RUNNING
  records are targets; rotation reaches everyone and runs one at a time; turning
  it off leaves nobody paused; stopping it terminates.
- *Namespace start*: success means that the command was executed, failure that
  nothing is left and the child's own error is reported; setup waits for the
  maps; nobody waits for ever.
- *Limits*: never raised, never refused, in force; a busy command comes to its end.
- *Command words*: the command gets the words that were typed, also after a
  restart; the file is replaced as a whole.
- *Filesystem*: a rootfs reported as prepared is complete, and a command is
  executed inside it or not at all.
- *Logs and watches*: every line asked for is shown once, with the right name, pid
  and status; a percentage compares a process with itself; Ctrl+C brings the
  prompt back, the end of the input ends the program.

## 2. The modules

| Module | Models | Checked by | Proofs |
|---|---|---|---|
| `Manager` | `container.c` and the commands of `main.c` | `MCManager` | `ManagerProofs`, `ManagerLiveProofs` |
| `Scheduler` | `scheduler.c` and the calls into it | `MCScheduler` | `SchedulerProofs` |
| `Handshake` | `namespace_start_container`, `namespace_child` | `MCContainerStart` | `HandshakeProofs` |
| `StartContract` | what a start promises, without pipes | implemented by `Handshake` | `HandshakeProofs` |
| `Rootfs` | `filesystem_prepare_rootfs` | `MCContainerStart` | |
| `Isolation` | `filesystem_isolate_rootfs` | `MCContainerStart` | `StartProofs` |
| `ContainerStart` | the three above, composed: create, start, run | `MCContainerStart` | `StartProofs` |
| `ResourceLimits` | flags, rlimits, CPU limit, logged event | `MCResourceLimits` | `ResourceProofs` |
| `CommandLine` | words of a `run` command up to `argv` | through `Metadata` | `MetadataProofs` |
| `Metadata` | the text of `containers.meta`, saved in steps and read back | itself | `MetadataProofs` |
| `Logger` | `container.log` and the `logs` command | through `Console` | `ConsoleProofs` |
| `Watch` | polls and the samples of `stats --watch` | through `Console` | `ConsoleProofs` |
| `Console` | the read loop, Ctrl+C, and the two above | `MCConsole` | `ConsoleProofs` |

Definitions keep the names of the functions they translate; names beginning
with a capital are parts of functions. A definition introduced by a comment
"Faulty:" is a plausible slip of the definition that follows it. Nothing uses
it; substituting it shows that the property named in `PROJECT.json` notices.

### Manager

`list` is `head .. tail`; a record keeps its id (a number), state, pid and
whether it holds a stack. `disk` is `containers.meta`; a save either replaces it
or leaves it (`SaveOk`, `SaveFails`), and each action says which outcomes the
code goes on from (the steps inside a save are those of `Metadata`). `pc` says
where the manager is in a command: a step runs from
one system call somebody else can interfere with to the next, so children exit,
init reaps and the manager dies between any two of them. `start`, for example,
is `Command("start", i)` (poll and lookup), `StartSpawn` (clone), and one of
`StartFails`, `StartCommits` and `StartRollsBack`; the latter continues in the
code of `stop` at `StopReap`. `run` and `runbg` are `Create` followed by the
same, and `run` ends in `FgReap`. A restart is `Restore` or, when `fopen` fails although there is a file,
`RestoreNothing`: the code takes that for no file, and what only the file named is
added to `lost`, the history of processes no record was made or kept of. The file
stays unreadable until the next save replaces it. `Poll` stands for `list` and `stats`, whose
only effect on the state is `poll_states`. The kernel is `st` (free, run, dying,
zombie), `parent` (who may wait for a pid) and `runs` (which container's command
it executes, a history variable that no action of the manager reads).

With `PidReuse` a free pid may be given out although records still name it.
Three properties are about the code as long as that does not happen, because an
adopted record identifies its process by pid alone; the others hold regardless.

External: pid allocation, exits, waits of other parents, foreign processes and
the death of the manager. Assumed: `tcsetpgrp` may fail for a container's group
but succeeds for the shell's own; SIGINT is restarted (`signal` with
`_GNU_SOURCE`), so a blocking `waitpid` is not interrupted; one manager at a
time; a successful save writes the whole list.

### Scheduler

A critical section is a step and so is each `kill`. A command of the main thread
is a queue `todo` of the calls it has still to make, computed when the command
is typed (`SchedOn`, `SchedOff`, `poll_states`, `Exit` ...), so the thread runs
between any two calls. `targets` is the array up to `target_count`. Sleeping
takes any time. `running` is the manager's list reduced to the pids of RUNNING
records of its own children. A pid is not reused while the thread holds it in a
local variable or the array names it.

### Handshake and StartContract

`pfds` and `cfds` are the pipe ends each side holds; `Open(e)` asks both. A read
is enabled by data or by the absence of a writer. The eight setup steps of the
child are `Setup`, each of which may fail. Either side may be killed from outside
at any moment (`ChildKilled`, `ParentKilled`). `StartContract` has two variables,
the result and the child; `Handshake` implements it under the mapping at its end.
The child holds the write end it waits on, so the end-of-file branch of
`wait_for_parent_ready` is never taken: a child whose parent dies before the
release waits for ever, which `ChildSettles` states as its one exception.

### ResourceLimits

From a list of flags to the rlimits the command runs under, the CPU seconds it
uses, the signal it gets, and the event logged. An rlimit is a number and
`RLIM_INFINITY` the greatest one. `strtoul` saturates there and takes a minus sign.
The command is process 1 of its pid namespace, where a SIGXCPU without a handler
does nothing: `Enforce` is the SIGKILL at the hard limit. `--cpu` alone is followed through enforcement;
a process over `RLIMIT_AS` or `RLIMIT_NPROC` gets an error code, not a signal.

### Rootfs, Isolation and ContainerStart

In `Rootfs`, `fs` is the host's file system, the rootfs included: a function from
paths to directories, links and files; a file knows which program it is and
whether it is whole. `Walk` is the kernel's way along a path, which
gives up after 40 links (`MaxLinks`); `Target` and
`Destination` are what the code does with paths as text. `jobs` is the work
`filesystem_prepare_rootfs` has still to do, so every copy is a step, and each may
fail, leave a torn file, a removed link or the directories `mkdir_p` had made, or
be refused because a container executes the file.
`mkdir_p` is a fold over the prefixes of a path; behind a dangling link it calls
itself until the stack is used up (`"overflow"`, the manager is gone).

In `Isolation` every system call is a step that may fail with an errno the code
tells apart. `root` and `cwd` are one of the host, the rootfs (`top`) and what
the rootfs's own path leads to once it is the root (`inner`).

`ContainerStart` joins them with `Handshake`: `container_create` prepares before a
start and again for a second container; the setup step `isolate_rootfs` ends when
`Isolation` does; `execvp` succeeds only if the command and its libraries are
found whole from the child's root, and keeps the file busy while it runs.

### CommandLine and Metadata

The part of the line after the names, as characters of five kinds: space, tab,
carriage return, quote, other (the code's second kind of quote behaves like the
first). `Before` counts the words already stored in the array. `Metadata` goes on
with the joined command: open, write, close and rename of the temporary file, each
of which may fail and between which the manager may die; then the restart, which
reads lines and fields as `trim_newline` and `strtok` do (`Recovered`).

What loops over a text is a recursive function of the number of turns: `Split`
(hence `Tokens`, which is `strtok` until NULL) goes character by character,
`Joined` word by word, `Glued` being one turn of the join.

### Logger, Watch and Console

`at` is where the main thread is. A log line is what `parse_log_line` and the
extract functions find in it: event, the first container id, name, pid, and all
ids a filter would match. It is written with one `write`, so offsets count lines.
`logs` reads, selects, renders (`logger_render_records` is a recursive function, one
turn of the code's loop a step of it); `logs -f` then asks for the end of the file,
which may fail, and loops over poll, `stat` (which fails when the log was removed),
read and sleep. A process that is there may still not be readable for `monitor_read`. `whole` and `base` are history: no line was passed over, and how many had
been read when the file began anew. In `Watch` a process has a pid and a number of
its own (`born`), which nothing but the property reads. `Console` adds the prompt,
`fgets`, end of input, `errno` (which only failing calls set) and `on_sigint`,
which ends a `nanosleep` and nothing else.

## 3. The runs

| Run | Result | Distinct states | Shows |
|---|---|---|---|
| `manager` | holds | 447 382 | `OwnPidPinned`, `NoStrayChild`, `TargetsTracked`; `stop` returns, `exit` ends |
| `manager_reuse` | holds | 1 245 655 | ids, stacks, file, memory, terminal and exit, with pids reused |
| `scheduler` | holds | 419 432 | array, index, targets, at most one container left paused; rotation, exclusion, join |
| `scheduler_off` | violated | | a container is left paused by `sched off` |
| `scheduler_sole` | violated | | a paused target left alone is never resumed |
| `start` | holds | 269 163 | complete rootfs, confined command; outcome, errors and contract of a start; nobody waits for ever |
| `rootfs_shared` | violated | | no second container on the rootfs of a running one |
| `limits` | holds | 926 100 | never raised, never refused, in force; a CPU limit ends a busy command |
| `commands` | holds | 158 610 | words arrive, the save is atomic, records survive a restart |
| `commands_quotes` | violated | | a quoted argument with a space is split |
| `console` | holds | 332 738 | rows, following without loss and up to the end, samples, Ctrl+C |
| `console_eof` | violated | | after a Ctrl+C in a watch the end of the input goes unnoticed |

The violated ones are disagreements between the code and its README, help text,
comments or tests; `PROJECT.json` quotes both sides under `findings`.

Some properties that hold name an exception, because that is what the code does:

- `FollowLosesNothing`: a line written by another manager between the first
  reading and `ftell` is not shown, and a truncated file that has grown past the
  old offset by the next `stat` is not recognised;
- `UniqueIds` is about records: the number of a deleted container may come back
  after a restart; `LiveOnDisk`, `LiveAtPrompt` and `CleanExit` leave out `lost`;
- `ToolsInstalled`: a relative link that climbs above the root as
  text, a link left at the destination by an earlier call, a failed `ldd` (and see
  the end of section 4 for file systems the instance does not have);
- `SaveAtomic`, `RecordsSurvive`: a write error before the last flush, which the
  code does not ask for; a carriage return in the command, or a tab typed
  between quotes;
- `SameProcess`: a record of an earlier manager, known by its pid alone;
- `InForce` is about the numbers an `unsigned int` holds: a multiple of 2^32 after
  a limit flag means no limit, and a minus sign wraps;
- `FollowCatchesUp`: as long as the log has lines and is followed.

A `--cpu` used up is logged as CONTAINER_STOPPED. `log_container_exit_status` looks
for SIGXCPU, which ends no process 1 of a pid namespace, so the RESOURCE_LIMIT_HIT
that the repository's `README.md:59` names as the alternative is not logged.

### Bounds

- *Manager*: two pids and two containers. One record can be adopted while another
  is started, deleted or reused; two RUNNING records can name one pid; a failed
  delete can change the order. `MaxSeq` bounds the numbers ever handed out in one
  manager's life; after a restart deleted numbers return, as in the code. Pids
  are symmetric in `manager_reuse`.
- *Scheduler*: three containers are the fewest with which removing from the
  middle differs from removing at an end.
  New processes get the lowest free pid and the last place in the list, which
  loses nothing but a renaming and the restart of an older container in the
  middle of the list; `SchedulerProofs` does not have this restriction.
- *Start*: thirteen hosts: plain, links of every kind, merged `/usr`, a link that
  climbs, a missing tool, a missing library, leftovers of earlier calls, dangling
  links and files in place of directories. Two tools, a workload, a library and
  two calls of `filesystem_prepare_rootfs` (`MaxPrepares`) are enough for every
  order of success and failure. Each setup step of the child may fail.
- *Limits*: `UInt = 4`, `MB = 2`, `RLIM_INFINITY = 15` keep the order of the real
  numbers (`UInt * MB < RLIM_INFINITY`); the numbers typed are -1, 0, small, the
  largest that fits, exactly `UInt`, and one no `unsigned long` holds.
- *Command words*: five characters hold a quoted word and a plain one, or three
  plain ones, one more than the two places of the array. A lost piece of a write
  is `Piece` characters at a multiple of it.
- *Console*: two containers, one of them possibly adopted; a log of two lines
  (`MaxLog`), three processes (`MaxBorn`), one truncation in a command. What others do is
  placed just before the steps that can see it (`Observed` in `MCConsole`); the
  proofs are about `ConsoleSpec`, which has no such restriction.

### Fairness

- *Manager*: weak fairness of the steps the manager takes by itself and of the
  death of a process that was sent SIGKILL. Nothing is assumed of users,
  containers or init.
- *Scheduler*: weak fairness of each of the two threads; the mutex is held only
  within a step, so neither can keep the other out.
- *Start*: weak fairness of parent and child; nobody need be killed, no second
  container created, and the command need not end.
- *Limits*: weak fairness of a command that keeps computing (as `workload_cpu.c`
  does), of the kernel's enforcement and of the manager that waits for the end.
- *Console*: weak fairness of the main thread; nobody has to type, to write or to
  die. Strong fairness of one step, the reading of new lines: opening the log may
  fail, but not each time for ever.

Deadlock is checked for the manager and the scheduler, which always can go on.
A start, a parse, an application of limits and a session end.

## 4. The proofs

All proofs are for arbitrary constants subject to the assumptions named in the
modules: any set of pids, any number of containers, pids reused or not, any
limits, any log, any line. Each theorem rests on an inductive invariant.

- `ManagerProofs`: `TypeCorrect`, `IdsUnique`, `StackReleased` and `TerminalReturns`.
  `TypeOK` is inductive; it
  carries that `cur` points into the list wherever a command uses it. `UniqueIds`
  is inductive together with it because it also bounds the ids of list *and*
  file by `next_sequence`: a failed save leaves an older list on disk, from which
  a restart recomputes the number. The lemmas say what `remove_container`, `Append`, a
  save, a poll and the reconciliation do to a list. `StackHeld` and `TtyReturned`
  are inductive with `TypeOK`.
- `ManagerLiveProofs`: `CrashSafe`, `PromptReachesLive`, `ExitKillsAll`. None of
  the three is inductive. `LiveInv` is: the file covers the living
  (`LiveOnDisk`), the memory covers them inside commands too (`LiveInMemory`),
  the child a command holds is what it takes it for (`ChildInHand`), and the part
  of the list cleanup has passed names nothing alive (`Swept`). The argument for
  a failed save is that the older file can only name *more* processes as RUNNING:
  a record leaves that state only when its process is dead.
  Then `OwnPidsPinned`, `NoChildLeaks` and `SchedulerTracked`. They are inductive
  only together (`OwnInv`), with
  `LiveInv`, with the fact that a RUNNING record of an earlier manager names no
  child of this one (`Adopted`) and with what holds of the record a command has in
  hand (`RecordInHand`); they assume, as the properties do, that no pid a record
  names is given out again.
- `ResourceProofs`: `LimitsNeverRaised`, `SetrlimitAccepts`, `LimitsInForce`. The
  invariant says of each resource, before and after its turn, how the limit in
  force relates to the inherited one and to the request.
- `SchedulerProofs`: `TargetsSound` and `RoundsSwitch`. `SchedInv` adds to the two
  properties that every call queued for the main thread names a process where it
  needs one. The lemmas say what adding, removing (the last target fills the
  hole) and pruning do to an array without duplicates and to the index.
  Then `TargetsAreListed` and `SchedOffResumes`, by `CommandInv`, which is about the
  calls still in the queue `todo`: a target that is not listed is one that a
  queued call removes (`Following`); no command both reaps and refreshes, and some
  calls only come first or last (`WellOrdered`); `sched off` has a SIGCONT queued for
  everything that lives (`Pausing`); and while scheduling is off, all but one of
  the paused containers are about to be resumed (`OnePaused`).
- `HandshakeProofs`: `HandshakeCorrect`, and `HandshakeImplementsContract`, the
  refinement. The invariant: the descriptors are a function of where the two
  sides are (`Descriptors`); until the release the child waits or was killed
  (`BeforeRelease`); what is in the status and exec pipes tells how far the child
  came (`Reports`), and so does where the parent is (`Progress`). End-of-file can
  then only mean what the parent takes it for.
- `StartProofs`: `IsolationSound`, by an invariant that says for each system
  call which root and working directory the child has before it; and the
  composition. `StartIsHandshake` and `StartIsIsolation` are refinements: a step of
  `ContainerStart` is a step of the part or leaves its variables alone. So what is
  proved of the parts holds of the whole (`StartImplementsContract`, `StartOutcome`,
  `StartMapped`, `StartReason`, `StartReleaseSafe`). `ConfinedCommands` needs both
  parts and `Passed`: the child is past the third step of its setup only if the
  isolation is done. The file systems of the hosts (`Hosts`) are arbitrary in all
  of these.
- `MetadataProofs`: `SaveIsAtomic`, `WordsReachCommand` and `RestartRestores`, for
  lines of any length, any size of the array and any number of words before the
  command.
  - *The save.* `SaveInv`: nothing is renamed before it was written and closed,
    and the command does not change during a save.
  - *The words.* `LineInv` has four parts. `LineType`; `Fits`: the words found so
    far, joined, are no longer than the part of the line they come from, and
    shorter by a character as long as there is more (the space before the next
    word needs it); `Settled`: when the command line and `argv` are what the join
    and `strtok` make; `Plain`: without quotes the words are those of the part of
    the line before `cursor`, none is empty or has a blank, and this part ends
    between two words. `WordsArrive` alone says nothing before the last step.
  - *The restart.* `RestoredInv`: what the new manager knows is what the file says.
    With `SaveInv` the file is one of two texts, with `LineInv` the stored command
    has no newline, and under the conditions of `RecordsSurvive` neither a tab nor
    a carriage return. So its lines are the two records (`LinesOfFile`), and each
    is split into the ten fields it was joined from (`RecordRead`).
  - *The texts.* Both rest on facts about every text, which the lemmas before them
    prove: `strtok` begins anew at each separator (`TokensConcat`) and undoes the
    join of words that have none (`TokensJoined`); joining what `strtok` finds
    gives the text without its spaces (`JoinedTokens`). The provers cannot take
    a formula as the parameter of an induction. So a fact is stated as the set of
    the texts that have it, and induction is that such a set is everything
    (`SeqInduct`, from `Induct` and `Least`: every set of numbers that is not empty
    has a least one). That the recursive functions exist and follow their
    equations is `Recursion`, with a table for the turn.
- `ConsoleProofs`: `SamplesSound`, `FollowSound` and `RowsSound`. A sample kept
  under the pid of a child is the child's own, since no child appears during a
  watch and its pid is not free before it is reaped; and what was read since the
  file began anew is its beginning up to `offset`, which appending keeps.
  `RowsSound` is about what a loop computes, for a log of any length: `Told` says
  what catalog and rows are after n lines, one turn of the loop preserves it
  (`ToldStep`), it does not depend on later lines (`ToldPrefix`), and no turn is
  the first at which it fails (`RenderTells`: every set of numbers that is not
  empty has a least one). That the lines the code selects, counting from the first
  match, are the last `tail` ones is `SelectionIsTail`.

Only model-checked:

- `ToolsInstalled`, which is true of the hosts of `MCContainerStart` and not of
  every file system. With a link inside the rootfs
  where a directory is wanted (`rootfs/lib -> /out`) `mkdir_p` and `open` follow it
  out of the rootfs, and it does not hold. With `/bin` a link to `usr/bin` and a tool
  there a link to `../lib/c`, the copy of the tool and that of another `/lib/c` have
  the same destination, and `ToolsInstalled` does not hold. A theorem would need
  as its hypothesis what the walk of the kernel finds along every path the code
  goes through, in every state of the copy;
- all liveness (`StartReturns`, `ChildSettles`, `InterruptHeeded`,
  `FollowCatchesUp`, `BusyEnds`, and
  those of the manager and the scheduler): the prover does not handle fairness.

## 5. Not modelled

- Tables, banners, messages, the formatting of numbers and the parsing of the
  arguments of `logs` and `stats`; `network.c`, which is one step of `Handshake`;
  the numbers `monitor.c` reads from `/proc`; workloads, tests and scripts. They
  have no state of their own.
- The slice length: a sleep of the scheduler takes any time.
- Manager and scheduler are separate modules. Each has what it needs of the other
  (`targets` in `Manager`, `running` in `Scheduler`); they are not composed. The
  containers of `Scheduler` are children of this manager; that `sched on` also
  makes targets of adopted ones is in `Manager` only.
- A second manager in the directory appends to the log (`Logger`), but its
  `containers.meta` is not modelled: both would write the same temporary file.
- A crash of the machine: the code does not call `fsync`.
- Lines longer than a buffer, in the command loop and in the log; failed
  allocations in the catalog of `logger.c`; file modes and path lengths.
