--------------------------- MODULE ResourceLimits ---------------------------
(***************************************************************************)
(* The limits of a container: the --cpu, --mem and --pids flags the CLI    *)
(* parses (main.c), the rlimits the child sets on itself before it execs   *)
(* (resource.c), the kernel enforcing the CPU limit, and the event the     *)
(* manager logs when it reaps the process (container.c).                   *)
(*                                                                         *)
(* An rlimit is a number, RLIM_INFINITY the largest one, as in rlim_t.     *)
(***************************************************************************)
EXTENDS Integers, Sequences

CONSTANTS
    UInt,           \* 2^32: an unsigned int is a number below it
    MB,             \* 1024 * 1024
    RLIM_INFINITY,  \* 2^64 - 1, which is ULONG_MAX too
    Typed,          \* the numbers typed after a flag
    Hosts,          \* the limits the manager itself may run under
    MaxFlags        \* bound: flags on a command line

Resources == {"cpu", "as", "nproc"}

Limit == [cur: 0 .. RLIM_INFINITY, max: 0 .. RLIM_INFINITY]

\* Every number of megabytes, in bytes, fits an rlim_t.
ASSUME ConstantsAssumption ==
    /\ UInt \in Nat \ {0}
    /\ MB \in Nat \ {0}
    /\ RLIM_INFINITY \in Nat /\ UInt * MB < RLIM_INFINITY /\ UInt < RLIM_INFINITY
    /\ Typed \subseteq Int
    /\ Hosts \subseteq {h \in Limit : h.cur <= h.max}
    /\ MaxFlags \in Nat

VARIABLES
    args,    \* flags still to parse: <<flag, value>>, or <<flag>> without one
    asked,   \* history: the numbers the user typed
    config,  \* ResourceConfig: cpu_seconds, memory_mb, max_processes
    rlim,    \* the child's rlimits
    host,    \* history: the rlimits it inherited
    step,    \* "parse" | "cpu" | "as" | "nproc" | "run" | "ended" | ...
    used,    \* CPU seconds consumed
    death,   \* how the process ended
    event    \* what the manager logged

vars == <<args, asked, config, rlim, host, step, used, death, event>>

Known == [flag \in {"--cpu", "--mem", "--pids"} |->
            CASE flag = "--cpu" -> "cpu" [] flag = "--mem" -> "as" [] OTHER -> "nproc"]

----------------------------------------------------------------------------
(* parse_limit_flags *)

\* A number out of range becomes ULONG_MAX, a minus sign wraps around.
strtoul(n) == IF n > RLIM_INFINITY \/ -n > RLIM_INFINITY THEN RLIM_INFINITY
              ELSE n % (RLIM_INFINITY + 1)

\* The cast keeps the low bits.
AsUnsigned(n) == strtoul(n) % UInt

ParseFlag ==
    /\ step = "parse" /\ args # << >>
    /\ Len(Head(args)) = 2 /\ Head(args)[1] \in DOMAIN Known
    /\ config' = [config EXCEPT ![Known[Head(args)[1]]] = AsUnsigned(Head(args)[2])]
    /\ asked' = [asked EXCEPT ![Known[Head(args)[1]]] = Head(args)[2]]
    /\ args' = Tail(args)
    /\ UNCHANGED <<rlim, host, step, used, death, event>>

\* A flag without its number or a word that begins with -- and is no flag.
UsageError ==
    /\ step = "parse" /\ args # << >>
    /\ ~(Len(Head(args)) = 2 /\ Head(args)[1] \in DOMAIN Known)
    /\ step' = "usage"
    /\ UNCHANGED <<args, asked, config, rlim, host, used, death, event>>

ParseDone ==
    /\ step = "parse" /\ args = << >>
    /\ step' = "cpu"
    /\ UNCHANGED <<args, asked, config, rlim, host, used, death, event>>

----------------------------------------------------------------------------
(* resource_apply_limits *)

Lower(a, b) == IF a < b THEN a ELSE b

\* The limit asked of the kernel: the request, never above what is in force.
\* Faulty: no clamp, a clamp at the hard limit only, the hard limit left alone.
AsRequested(current, requested) == [cur |-> requested, max |-> requested]
ClampHardOnly(current, requested) ==
    [cur |-> Lower(requested, current.max), max |-> Lower(requested, current.max)]
SoftOnly(current, requested) ==
    [cur |-> Lower(requested, current.cur), max |-> current.max]
LowerOnly(current, requested) ==
    LET least == Lower(Lower(requested, current.cur), current.max)
    IN  [cur |-> least,
         max |-> IF current.max = RLIM_INFINITY \/ least < current.max
                 THEN least ELSE current.max]

\* setrlimit of an unprivileged process.
Accepted(current, next) == next.cur <= next.max /\ next.max <= current.max

Requested(r) == IF r = "as" THEN config[r] * MB ELSE config[r]

After(r) == CASE r = "cpu" -> "as" [] r = "as" -> "nproc" [] OTHER -> "run"

\* One of the three blocks: 0 skips it, an error ends the start.
ApplyLimit(r) ==
    LET next == LowerOnly(rlim[r], Requested(r))
        ok   == Accepted(rlim[r], next)
    IN  /\ step = r
        /\ rlim' = IF config[r] # 0 /\ ok THEN [rlim EXCEPT ![r] = next] ELSE rlim
        /\ step' = IF config[r] = 0 \/ ok THEN After(r) ELSE "failed"
        /\ UNCHANGED <<args, asked, config, host, used, death, event>>

----------------------------------------------------------------------------
(* The command, the kernel and log_container_exit_status *)

\* The command is process 1 of its pid namespace, which the SIGXCPU sent at the
\* soft limit does not end: only the hard limit stops its clock.
Tick ==
    /\ step = "run"
    /\ used < rlim["cpu"].max
    /\ used < UInt      \* bound: no request is larger
    /\ used' = used + 1
    /\ UNCHANGED <<args, asked, config, rlim, host, step, death, event>>

Enforce ==
    /\ step = "run"
    /\ used >= rlim["cpu"].max
    /\ death' = "SIGKILL"
    /\ step' = "ended"
    /\ UNCHANGED <<args, asked, config, rlim, host, used, event>>

Finish ==
    /\ step = "run"
    /\ death' = "exit"
    /\ step' = "ended"
    /\ UNCHANGED <<args, asked, config, rlim, host, used, event>>

\* No command ends by a SIGXCPU, so this never logs RESOURCE_LIMIT_HIT.
log_container_exit_status ==
    /\ step = "ended"
    /\ event' = IF death = "SIGXCPU" THEN "RESOURCE_LIMIT_HIT" ELSE "CONTAINER_STOPPED"
    /\ step' = "logged"
    /\ UNCHANGED <<args, asked, config, rlim, host, used, death>>

----------------------------------------------------------------------------
Words == {<<f, n>> : f \in DOMAIN Known \cup {"--other"}, n \in Typed} \cup {<<"--cpu">>}

Init ==
    /\ args \in UNION {[1 .. n -> Words] : n \in 0 .. MaxFlags}
    /\ \A i \in 1 .. Len(args) : Len(args[i]) = 1 => i = Len(args)
    /\ asked = [r \in Resources |-> 0]
    /\ config = [r \in Resources |-> 0]
    /\ host \in [Resources -> Hosts]
    /\ rlim = host
    /\ step = "parse"
    /\ used = 0
    /\ death = "none"
    /\ event = "none"

Next ==
    \/ ParseFlag \/ UsageError \/ ParseDone
    \/ \E r \in Resources : ApplyLimit(r)
    \/ Tick \/ Enforce \/ Finish \/ log_container_exit_status

Spec == Init /\ [][Next]_vars

\* A command that keeps computing, as workload_cpu.c does, started by a run: the
\* manager waits for its end.
BusySpec ==
    /\ Spec
    /\ WF_vars(Tick)
    /\ WF_vars(Enforce)
    /\ WF_vars(log_container_exit_status)

----------------------------------------------------------------------------
TypeOK ==
    /\ config \in [Resources -> 0 .. UInt - 1]
    /\ rlim \in [Resources -> Limit]
    /\ host \in [Resources -> Limit]
    /\ step \in Resources \cup {"parse", "usage", "run", "failed", "ended", "logged"}
    /\ used \in 0 .. UInt

\* No step of the start raises a soft or a hard limit ("Do not try to raise
\* limits as an unprivileged process").
NeverRaised ==
    [][\A r \in Resources : rlim'[r].cur <= rlim[r].cur /\ rlim'[r].max <= rlim[r].max]_vars

\* Whatever limits the manager itself runs under and whatever flags it is given,
\* setrlimit is never asked for something it refuses, so that
\* resource_apply_limits does not fail.
NeverRefused == step # "failed"

Unit(r) == IF r = "as" THEN MB ELSE 1

Running == step \in {"run", "ended", "logged"}

\* When the command is executed, every limit the last flag asked for is in
\* force, and a limit not asked for, or asked to be 0, is the manager's own.
\* The numbers are those an unsigned int can hold.
InForce ==
    Running =>
      \A r \in Resources :
        /\ asked[r] = 0 => rlim[r] = host[r]
        /\ asked[r] \in 1 .. UInt - 1 => /\ rlim[r].cur <= asked[r] * Unit(r)
                                         /\ rlim[r].max <= asked[r] * Unit(r)

\* A --cpu limit ends a command that keeps computing, and the manager logs its
\* end.  A soft limit alone would not do: process 1 of a pid namespace survives
\* the SIGXCPU, so apply_single_limit_lower_only must lower the hard one too.
BusyEnds == step = "run" /\ asked["cpu"] \in 1 .. UInt - 1 ~> event # "none"
=============================================================================
