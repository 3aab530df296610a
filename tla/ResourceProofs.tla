--------------------------- MODULE ResourceProofs ---------------------------
(* Proofs about ResourceLimits, for any width, unit, infinity and host.    *)
EXTENDS ResourceLimits, SequenceTheorems, TLAPS

\* apply_single_limit_lower_only asks for equal soft and hard limits, at most
\* the request and at most what is in force: setrlimit accepts them.
LEMMA LowerOnlyProperties ==
    ASSUME NEW current \in Limit, current.cur <= current.max,
           NEW requested \in Nat, requested < RLIM_INFINITY
    PROVE  LET next == LowerOnly(current, requested)
           IN  /\ next \in Limit
               /\ next.cur = next.max
               /\ next.cur <= requested
               /\ next.cur <= current.cur
               /\ next.max <= current.max
               /\ Accepted(current, next)
<1> DEFINE least == Lower(Lower(requested, current.cur), current.max)
<1>1. current.cur \in 0 .. RLIM_INFINITY /\ current.max \in 0 .. RLIM_INFINITY
  BY DEF Limit
<1>2. /\ least \in 0 .. RLIM_INFINITY
      /\ least <= requested /\ least <= current.cur /\ least <= current.max
  BY <1>1, ConstantsAssumption DEF Lower
<1> HIDE DEF least
<1>3. LowerOnly(current, requested) = [cur |-> least, max |-> least]
  BY <1>1, <1>2, ConstantsAssumption DEF LowerOnly, least
<1> QED
  BY <1>1, <1>2, <1>3 DEF Limit, Accepted

\* resource_apply_limits has passed the block of r.
Handled(r) == \/ Running
              \/ step = "nproc" /\ r # "nproc"
              \/ step = "as" /\ r = "cpu"

\* Soft limits never exceed hard ones, the configuration is what strtoul and the
\* cast make of the numbers typed, and the blocks passed so far took effect.
Inv ==
    /\ TypeOK
    /\ args \in Seq(Words)
    /\ asked \in [Resources -> Int]
    /\ \A r \in Resources :
         /\ rlim[r].cur <= rlim[r].max
         /\ config[r] = AsUnsigned(asked[r])
         /\ IF Handled(r) /\ config[r] # 0
            THEN rlim[r].cur <= Requested(r) /\ rlim[r].max <= Requested(r)
            ELSE rlim[r] = host[r]
    /\ NeverRefused

\* What strtoul and the cast make of a number: one that fits an unsigned int
\* stays as it is, any other becomes one that fits.
LEMMA AsUnsignedProperties ==
    ASSUME NEW n \in Int
    PROVE  /\ AsUnsigned(n) \in 0 .. UInt - 1
           /\ n \in 0 .. UInt - 1 => AsUnsigned(n) = n
<1>1. strtoul(n) \in Nat
  BY ConstantsAssumption DEF strtoul
<1>2. n \in 0 .. UInt - 1 => strtoul(n) = n
  BY ConstantsAssumption DEF strtoul
<1> QED
  BY <1>1, <1>2, ConstantsAssumption DEF AsUnsigned

\* Every request, the one in bytes included, is a number below RLIM_INFINITY.
LEMMA RequestedProperties ==
    ASSUME TypeOK, NEW r \in Resources
    PROVE  Requested(r) \in Nat /\ Requested(r) < RLIM_INFINITY
<1>1. config[r] \in Nat /\ config[r] < UInt
  BY ConstantsAssumption DEF TypeOK
<1>2. config[r] * MB \in Nat
  BY <1>1, ConstantsAssumption
<1>3. config[r] * MB < UInt * MB
  <2>1. \A a, b, m \in Nat : a < b /\ m > 0 => a * m < b * m
    OBVIOUS
  <2> QED
    BY <1>1, <2>1, ConstantsAssumption
<1> QED
  BY <1>1, <1>2, <1>3, ConstantsAssumption DEF Requested

\* Before the flags are parsed, nothing was asked and nothing lowered.
LEMMA InvInit == Init => Inv
<1> SUFFICES ASSUME Init PROVE Inv
  OBVIOUS
<1>1. args \in Seq(Words)
  BY DEF Init
<1>2. host \in [Resources -> Limit] /\ \A r \in Resources : host[r].cur <= host[r].max
  BY ConstantsAssumption DEF Init
<1>3. AsUnsigned(0) = 0 /\ 0 \in 0 .. UInt - 1 /\ 0 \in 0 .. UInt
  BY AsUnsignedProperties, ConstantsAssumption
<1> QED
  BY <1>1, <1>2, <1>3 DEF Init, Inv, TypeOK, NeverRefused, Handled, Running

\* Every step of parsing, of resource_apply_limits and of the kernel keeps the
\* invariant, and raises no limit.
LEMMA InvStep ==
    Inv /\ [Next]_vars =>
      /\ Inv'
      /\ \A r \in Resources : rlim'[r].cur <= rlim[r].cur /\ rlim'[r].max <= rlim[r].max
<1> DEFINE Kept == \A r \in Resources : /\ rlim'[r].cur <= rlim[r].cur
                                        /\ rlim'[r].max <= rlim[r].max
<1> SUFFICES ASSUME Inv, [Next]_vars PROVE Inv' /\ Kept
  OBVIOUS
<1>1. \A r \in Resources : /\ rlim[r] \in Limit
                           /\ rlim[r].cur \in Nat /\ rlim[r].max \in Nat
  BY ConstantsAssumption DEF Inv, TypeOK, Limit
<1>2. UNCHANGED rlim => Kept
  BY <1>1
<1>3. ASSUME ParseFlag PROVE Inv' /\ Kept
  <2>1. args \in Seq(Words) /\ args # << >>
    BY <1>3 DEF ParseFlag, Inv
  <2>2. Head(args) \in Words /\ Tail(args) \in Seq(Words)
    BY <2>1
  <2>3. PICK f \in DOMAIN Known, n \in Int : Head(args) = <<f, n>>
    <3>1. Len(Head(args)) = 2 /\ Head(args)[1] \in DOMAIN Known
      BY <1>3 DEF ParseFlag
    <3>2. Head(args) # <<"--cpu">>
      BY <3>1
    <3>3. PICK g \in DOMAIN Known \cup {"--other"}, n \in Typed : Head(args) = <<g, n>>
      BY <2>2, <3>2 DEF Words
    <3>4. g \in DOMAIN Known /\ n \in Int
      BY <3>1, <3>3, ConstantsAssumption
    <3> QED
      BY <3>3, <3>4
  <2>4. Known[f] \in Resources
    BY DEF Known, Resources
  <2>5. AsUnsigned(n) \in 0 .. UInt - 1
    BY AsUnsignedProperties
  <2>6. /\ step = "parse" /\ UNCHANGED <<rlim, host, step, used>>
        /\ args' = Tail(args)
        /\ asked' = [asked EXCEPT ![Known[f]] = n]
        /\ config' = [config EXCEPT ![Known[f]] = AsUnsigned(n)]
    <3>1. Head(args)[1] = f /\ Head(args)[2] = n
      BY <2>3
    <3>2. /\ asked' = [asked EXCEPT ![Known[Head(args)[1]]] = Head(args)[2]]
          /\ config' = [config EXCEPT ![Known[Head(args)[1]]] = AsUnsigned(Head(args)[2])]
          /\ step = "parse" /\ args' = Tail(args)
          /\ UNCHANGED <<rlim, host, step, used>>
      BY <1>3 DEF ParseFlag
    <3> QED
      BY <3>1, <3>2, Zenon
  <2>7. TypeOK'
    BY <2>4, <2>5, <2>6 DEF Inv, TypeOK
  <2>8. \A r \in Resources : ~Handled(r) /\ ~Handled(r)'
    BY <2>6 DEF Handled, Running
  <2>9. \A r \in Resources : config'[r] = AsUnsigned(asked'[r])
    BY <2>4, <2>6 DEF Inv, TypeOK
  <2>10. asked' \in [Resources -> Int]
    BY <2>6, ZenonT(60) DEF Inv
  <2> QED
    BY <1>2, <2>2, <2>6, <2>7, <2>8, <2>9, <2>10 DEF Inv, NeverRefused
<1>4. ASSUME NEW q \in Resources, ApplyLimit(q) PROVE Inv' /\ Kept
  <2> DEFINE next == LowerOnly(rlim[q], Requested(q))
  <2>1. /\ Requested(q) \in Nat /\ Requested(q) < RLIM_INFINITY
        /\ \A r \in Resources : Requested(r)' = Requested(r)
    BY <1>4, RequestedProperties DEF Inv, ApplyLimit, Requested
  <2>2. /\ next \in Limit /\ next.cur = next.max
        /\ next.cur <= Requested(q) /\ next.cur <= rlim[q].cur
        /\ next.max <= rlim[q].max /\ Accepted(rlim[q], next)
    BY <1>1, <2>1, LowerOnlyProperties DEF Inv
  <2> HIDE DEF next
  <2>3. /\ step = q /\ step' = After(q) /\ UNCHANGED <<args, asked, config, host, used>>
        /\ rlim' = IF config[q] # 0 THEN [rlim EXCEPT ![q] = next] ELSE rlim
    BY <1>4, <2>2 DEF ApplyLimit, next
  <2>4. rlim' \in [Resources -> Limit]
    BY <2>2, <2>3 DEF Inv, TypeOK
  <2>5. \A r \in Resources : IF r = q /\ config[q] # 0 THEN rlim'[r] = next ELSE rlim'[r] = rlim[r]
    BY <2>3 DEF Inv, TypeOK
  <2>6. \A r \in Resources : Handled(r)' <=> Handled(r) \/ r = q
    BY <2>3 DEF Handled, Running, After, Resources
  <2>7. step' \in Resources \cup {"run"} /\ ~Handled(q)
    BY <2>3 DEF After, Resources, Handled, Running
  <2>8. Kept
    BY <1>1, <2>2, <2>5
  <2>9. \A n \in Limit : n.cur \in Nat /\ n.max \in Nat
    BY ConstantsAssumption DEF Limit
  <2>10. \A r \in Resources :
           /\ rlim'[r].cur <= rlim'[r].max
           /\ IF Handled(r)' /\ config[r] # 0
              THEN rlim'[r].cur <= Requested(r) /\ rlim'[r].max <= Requested(r)
              ELSE rlim'[r] = host[r]
    BY <2>2, <2>5, <2>6, <2>7, <2>9 DEF Inv
  <2>11. TypeOK'
    BY <2>3, <2>4, <2>7 DEF Inv, TypeOK
  <2>12. step' # "failed"
    BY <2>7 DEF Resources
  <2> QED
    BY <2>1, <2>3, <2>8, <2>10, <2>11, <2>12 DEF Inv, NeverRefused
<1>5. ASSUME UNCHANGED <<args, asked, config, rlim, host>>,
             step' \in {"usage", "cpu", "run", "ended", "logged"} \/ step' = step,
             used' \in 0 .. UInt, \A r \in Resources : Handled(r)' <=> Handled(r)
      PROVE  Inv' /\ Kept
  <2>1. TypeOK'
    BY <1>5 DEF Inv, TypeOK, Resources
  <2>2. \A r \in Resources : Requested(r)' = Requested(r)
    BY <1>5 DEF Requested
  <2> QED
    BY <1>2, <1>5, <2>1, <2>2 DEF Inv, NeverRefused
<1>6. ASSUME UsageError \/ ParseDone \/ Tick \/ Enforce \/ Finish \/ log_container_exit_status
             \/ UNCHANGED vars
      PROVE  Inv' /\ Kept
  <2>1. used \in 0 .. UInt
    BY DEF Inv, TypeOK
  <2>2. /\ UNCHANGED <<args, asked, config, rlim, host>>
        /\ step' \in {"usage", "cpu", "run", "ended", "logged"} \/ step' = step
        /\ \A r \in Resources : Handled(r)' <=> Handled(r)
    BY <1>6 DEF UsageError, ParseDone, Tick, Enforce, Finish, log_container_exit_status, vars,
                Handled, Running, Resources
  <2>3. used' \in 0 .. UInt
    BY <1>6, <2>1, ConstantsAssumption
       DEF UsageError, ParseDone, Tick, Enforce, Finish, log_container_exit_status, vars
  <2> QED
    BY <1>5, <2>2, <2>3
<1> QED
  BY <1>3, <1>4, <1>6 DEF Next

\* The invariant holds throughout a start.
LEMMA Invariance == Spec => []Inv
  BY InvInit, InvStep, PTL DEF Spec

\* Starting a container never raises a limit, whatever it inherits.
THEOREM LimitsNeverRaised == Spec => NeverRaised
<1>1. Inv /\ [Next]_vars =>
        [\A r \in Resources : rlim'[r].cur <= rlim[r].cur /\ rlim'[r].max <= rlim[r].max]_vars
  BY InvStep
<1> QED
  BY <1>1, Invariance, PTL DEF Spec, NeverRaised

\* setrlimit is never asked for something the kernel refuses.
THEOREM SetrlimitAccepts == Spec => []NeverRefused
  BY Invariance, PTL DEF Inv

\* The command runs under every limit asked for and under no other.
THEOREM LimitsInForce == Spec => []InForce
<1>1. Inv => InForce
  <2> SUFFICES ASSUME Inv, Running, NEW r \in Resources
               PROVE  /\ asked[r] = 0 => rlim[r] = host[r]
                      /\ asked[r] \in 1 .. UInt - 1 => /\ rlim[r].cur <= asked[r] * Unit(r)
                                                       /\ rlim[r].max <= asked[r] * Unit(r)
    BY DEF InForce
  <2>1. config[r] = AsUnsigned(asked[r]) /\ asked[r] \in Int /\ Handled(r)
    BY DEF Inv, Handled
  <2>2. asked[r] = 0 => config[r] = 0
    BY <2>1, AsUnsignedProperties, ConstantsAssumption
  <2>3. asked[r] \in 1 .. UInt - 1 => config[r] = asked[r]
    BY <2>1, AsUnsignedProperties, ConstantsAssumption
  <2>4. config[r] = asked[r] => Requested(r) = asked[r] * Unit(r)
    BY <2>1 DEF Requested, Unit
  <2> QED
    BY <2>1, <2>2, <2>3, <2>4 DEF Inv
<1> QED
  BY <1>1, Invariance, PTL
=============================================================================
