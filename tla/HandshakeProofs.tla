-------------------------- MODULE HandshakeProofs --------------------------
(***************************************************************************)
(* The handshake of a start is correct in every interleaving of parent,    *)
(* child and whoever kills them, and it implements StartContract.          *)
(***************************************************************************)
EXTENDS Handshake, TLAPS

\* The number of setup steps of namespace_child.
Steps == 8

\* The descriptors are a function of where each side is.  The child holds the
\* write end of continue_pipe itself as long as it waits on it.
Descriptors ==
    /\ ppc \in {"begin", "reap", "started", "failed", "dead"} => pfds = {}
    /\ ppc \in {"configure", "release"} => pfds = {"cont_w", "status_r", "exec_r"}
    /\ ppc = "read_status" => pfds = {"status_r", "exec_r"}
    /\ ppc = "read_exec" => pfds = {"exec_r"}
    /\ cpc \in {"none", "zombie"} => cfds = {}
    /\ cpc = "wait" => cfds = Ends
    /\ cpc = "setup" => cfds = Ends \ {"cont_r"}
    /\ cpc = "exec" => cfds = Ends \ {"cont_r", "status_w"}
    /\ cpc = "running" => cfds = Ends \ {"cont_r", "status_w", "exec_w"}

\* Until the release the child waits, or was killed by somebody else.
BeforeRelease ==
    /\ ppc \in {"begin", "configure", "release"} =>
         /\ ~cont_buf /\ ~exec_buf /\ status_buf = "empty"
         /\ failed_at = "none" /\ reason = "none"
    /\ ppc = "begin" => cpc = "none"
    /\ ppc \in {"configure", "release"} => cpc \in {"wait", "zombie"} /\ (cpc = "zombie" => killed)
    /\ ppc \in {"release", "read_status", "read_exec", "started"} => configured
    /\ cont_buf => configured

\* What the child has written to the two pipes tells how far it came.
Reports ==
    /\ cpc \in {"none", "wait"} /\ ppc # "failed" => failed_at = "none"
    /\ failed_at # "none" => cpc \in {"none", "zombie"}
    /\ cpc \in {"exec", "running"} => cstep = Steps + 1
    /\ failed_at = "exec" => cstep = Steps + 1
    /\ status_buf = "ready" => cstep = Steps + 1 /\ cpc \in {"exec", "running", "zombie"}
                                /\ failed_at \in {"none", "exec"}
    /\ status_buf \in Failures => failed_at = status_buf
    /\ ppc = "read_status" /\ (cpc \in {"exec", "running"} \/ failed_at = "exec") => status_buf = "ready"
    /\ ppc = "read_status" /\ failed_at \in Failures => status_buf = failed_at
    /\ ppc \in {"read_status", "read_exec"} /\ failed_at = "exec" => exec_buf
    /\ exec_buf => failed_at = "exec"

\* Where the parent is tells how far the child came.
Progress ==
    /\ ppc \in {"read_exec", "started"} =>
         /\ cpc \in {"exec", "running", "zombie"}
         /\ cstep = Steps + 1
         /\ failed_at \in {"none", "exec"}
    /\ ppc = "read_status" => cpc # "none"
    /\ ppc \in {"read_exec", "started", "reap"} => status_buf = "empty"
    /\ ppc = "reap" => cpc = "zombie" /\ (failed_at # "none" => reason = failed_at)

HandshakeInv ==
    /\ TypeOK /\ Descriptors /\ BeforeRelease /\ Reports /\ Progress
    /\ SetupAfterMapping /\ OutcomeTrue /\ ReasonIsTheChilds

----------------------------------------------------------------------------
\* What namespace_child reports of a failed step is never mistaken for "ready",
\* for an empty pipe or for a failed execvp.
LEMMA SetupFacts ==
    /\ Len(Setup) = Steps
    /\ \A i \in 1 .. Steps : Setup[i] \in Failures
    /\ "wait" \in Failures
    /\ \A f \in Failures : f \notin {"none", "exec", "empty", "ready"}
  BY DEF Setup, Steps, Failures

\* The invariant holds before namespace_start_container is called.
LEMMA HandshakeInit == Init => HandshakeInv
  <1> SUFFICES ASSUME Init PROVE HandshakeInv
    OBVIOUS
  <1>1. configured \in BOOLEAN /\ killed \in BOOLEAN /\ cont_buf \in BOOLEAN /\ exec_buf \in BOOLEAN
    BY Zenon DEF Init
  <1>2. TypeOK
    BY <1>1, SetupFacts DEF Init, TypeOK, Ends, Steps
  <1>3. ~cont_buf /\ ~exec_buf
    BY Zenon DEF Init
  <1>4. Descriptors /\ BeforeRelease /\ Reports /\ Progress
    BY <1>3, SetupFacts DEF Init, Descriptors, BeforeRelease, Reports, Progress
  <1> QED
    BY <1>2, <1>4 DEF Init, HandshakeInv, SetupAfterMapping, OutcomeTrue, ReasonIsTheChilds

\* Every step of parent and child, and every kill, keeps the invariant.
LEMMA HandshakeStep == HandshakeInv /\ [Next]_vars => HandshakeInv'
  <1> SUFFICES ASSUME HandshakeInv, [Next]_vars PROVE HandshakeInv'
    OBVIOUS
  <1> USE SetupFacts DEF parent, child, pipes
  <1>0. /\ TypeOK /\ Descriptors /\ BeforeRelease /\ Reports /\ Progress
        /\ SetupAfterMapping /\ OutcomeTrue /\ ReasonIsTheChilds
    BY DEF HandshakeInv
  <1>1. CASE BeginFails
    <2>1. TypeOK'
      BY <1>0, <1>1 DEF BeginFails, TypeOK, Descriptors, Ends, Steps
    <2>2. Descriptors'
      BY <1>0, <1>1 DEF BeginFails, TypeOK, Descriptors, BeforeRelease, Progress,
         Ends, Steps
    <2>3. BeforeRelease' /\ SetupAfterMapping'
      BY <1>0, <1>1 DEF BeginFails, TypeOK, Descriptors, BeforeRelease, Reports,
         Progress, SetupAfterMapping, Ends, Steps
    <2>4. Reports'
      BY <1>0, <1>1 DEF BeginFails, TypeOK, Descriptors, BeforeRelease, Reports,
         Progress, Ends, Steps
    <2>5. Progress' /\ OutcomeTrue' /\ ReasonIsTheChilds'
      BY <1>0, <1>1 DEF BeginFails, TypeOK, Descriptors, BeforeRelease, Reports,
         Progress, OutcomeTrue, ReasonIsTheChilds, Ends, Steps
    <2> QED
      BY <2>1, <2>2, <2>3, <2>4, <2>5 DEF HandshakeInv
  <1>2. CASE Clone
    <2>1. TypeOK'
      BY <1>0, <1>2 DEF Clone, ParentEnds, FirstStop, ChildFds, TypeOK,
         Descriptors, Ends, Steps
    <2>2. Descriptors'
      BY <1>0, <1>2 DEF Clone, ParentEnds, FirstStop, ChildFds, TypeOK,
         Descriptors, BeforeRelease, Progress, Ends, Steps
    <2>3. BeforeRelease' /\ SetupAfterMapping'
      BY <1>0, <1>2 DEF Clone, ParentEnds, FirstStop, ChildFds, TypeOK,
         Descriptors, BeforeRelease, Reports, Progress, SetupAfterMapping, Ends,
         Steps
    <2>4. Reports'
      BY <1>0, <1>2 DEF Clone, ParentEnds, FirstStop, ChildFds, TypeOK,
         Descriptors, BeforeRelease, Reports, Progress, Ends, Steps
    <2>5. Progress' /\ OutcomeTrue' /\ ReasonIsTheChilds'
      BY <1>0, <1>2 DEF Clone, ParentEnds, FirstStop, ChildFds, TypeOK,
         Descriptors, BeforeRelease, Reports, Progress, OutcomeTrue,
         ReasonIsTheChilds, Ends, Steps
    <2> QED
      BY <2>1, <2>2, <2>3, <2>4, <2>5 DEF HandshakeInv
  <1>3. CASE configure_user_namespace
    <2>1. TypeOK'
      BY <1>0, <1>3, ZenonT(60) DEF configure_user_namespace, Abort, KilledByParent,
         ChildEnds, TypeOK, Descriptors, Ends, Steps
    <2>2. Descriptors'
      BY <1>0, <1>3, ZenonT(60) DEF configure_user_namespace, Abort, KilledByParent,
         ChildEnds, TypeOK, Descriptors, BeforeRelease, Progress, Ends, Steps
    <2>3. BeforeRelease' /\ SetupAfterMapping'
      BY <1>0, <1>3 DEF configure_user_namespace, Abort, KilledByParent,
         ChildEnds, TypeOK, Descriptors, BeforeRelease, Reports, Progress,
         SetupAfterMapping, Ends, Steps
    <2>4. Reports'
      BY <1>0, <1>3 DEF configure_user_namespace, Abort, KilledByParent,
         ChildEnds, TypeOK, Descriptors, BeforeRelease, Reports, Progress, Ends,
         Steps
    <2>5. Progress' /\ OutcomeTrue' /\ ReasonIsTheChilds'
      BY <1>0, <1>3 DEF configure_user_namespace, Abort, KilledByParent,
         ChildEnds, TypeOK, Descriptors, BeforeRelease, Reports, Progress,
         OutcomeTrue, ReasonIsTheChilds, Ends, Steps
    <2> QED
      BY <2>1, <2>2, <2>3, <2>4, <2>5 DEF HandshakeInv
  <1>4. CASE Release
    <2>1. TypeOK'
      BY <1>0, <1>4 DEF Release, Token, Open, TypeOK, Descriptors, Ends, Steps
    <2>2. Descriptors'
      BY <1>0, <1>4 DEF Release, Token, Open, TypeOK, Descriptors, BeforeRelease,
         Progress, Ends, Steps
    <2>3. BeforeRelease' /\ SetupAfterMapping'
      BY <1>0, <1>4 DEF Release, Token, Open, TypeOK, Descriptors, BeforeRelease,
         Reports, Progress, SetupAfterMapping, Ends, Steps
    <2>4. Reports'
      BY <1>0, <1>4 DEF Release, Token, Open, TypeOK, Descriptors, BeforeRelease,
         Reports, Progress, Ends, Steps
    <2>5. Progress' /\ OutcomeTrue' /\ ReasonIsTheChilds'
      BY <1>0, <1>4 DEF Release, Token, Open, TypeOK, Descriptors, BeforeRelease,
         Reports, Progress, OutcomeTrue, ReasonIsTheChilds, Ends, Steps
    <2> QED
      BY <2>1, <2>2, <2>3, <2>4, <2>5 DEF HandshakeInv
  <1>5. CASE ReleaseFails
    <2>1. TypeOK'
      BY <1>0, <1>5, ZenonT(60) DEF ReleaseFails, Abort, KilledByParent, ChildEnds, Open,
         TypeOK, Descriptors, Ends, Steps
    <2>2. Descriptors'
      BY <1>0, <1>5, ZenonT(60) DEF ReleaseFails, Abort, KilledByParent, ChildEnds, Open,
         TypeOK, Descriptors, BeforeRelease, Progress, Ends, Steps
    <2>3. BeforeRelease' /\ SetupAfterMapping'
      BY <1>0, <1>5 DEF ReleaseFails, Abort, KilledByParent, ChildEnds, Open,
         TypeOK, Descriptors, BeforeRelease, Reports, Progress, SetupAfterMapping,
         Ends, Steps
    <2>4. Reports'
      BY <1>0, <1>5 DEF ReleaseFails, Abort, KilledByParent, ChildEnds, Open,
         TypeOK, Descriptors, BeforeRelease, Reports, Progress, Ends, Steps
    <2>5. Progress' /\ OutcomeTrue' /\ ReasonIsTheChilds'
      BY <1>0, <1>5 DEF ReleaseFails, Abort, KilledByParent, ChildEnds, Open,
         TypeOK, Descriptors, BeforeRelease, Reports, Progress, OutcomeTrue,
         ReasonIsTheChilds, Ends, Steps
    <2> QED
      BY <2>1, <2>2, <2>3, <2>4, <2>5 DEF HandshakeInv
  <1>6. CASE ReadStatus
    <2>1. TypeOK'
      BY <1>0, <1>6 DEF ReadStatus, StatusErrno, Open, TypeOK, Descriptors, Ends, Steps
    <2>2. Descriptors'
      BY <1>0, <1>6 DEF ReadStatus, StatusErrno, Open, TypeOK, Descriptors,
         BeforeRelease, Progress, Ends, Steps
    <2>3. BeforeRelease' /\ SetupAfterMapping'
      BY <1>0, <1>6 DEF ReadStatus, StatusErrno, Open, TypeOK, Descriptors,
         BeforeRelease, Reports, Progress, SetupAfterMapping, Ends, Steps
    <2>4. Reports'
      BY <1>0, <1>6 DEF ReadStatus, StatusErrno, Open, TypeOK, Descriptors,
         BeforeRelease, Reports, Progress, Ends, Steps
    <2>5. Progress' /\ OutcomeTrue' /\ ReasonIsTheChilds'
      BY <1>0, <1>6 DEF ReadStatus, StatusErrno, Open, TypeOK, Descriptors,
         BeforeRelease, Reports, Progress, OutcomeTrue, ReasonIsTheChilds, Ends,
         Steps
    <2> QED
      BY <2>1, <2>2, <2>3, <2>4, <2>5 DEF HandshakeInv
  <1>7. CASE ReadExec
    <2>1. TypeOK'
      BY <1>0, <1>7, ZenonT(60) DEF ReadExec, Abort, KilledByParent, ChildEnds, Open, TypeOK,
         Descriptors, Ends, Steps
    <2>2. Descriptors'
      BY <1>0, <1>7, ZenonT(60) DEF ReadExec, Abort, KilledByParent, ChildEnds, Open, TypeOK,
         Descriptors, BeforeRelease, Progress, Ends, Steps
    <2>3. BeforeRelease' /\ SetupAfterMapping'
      BY <1>0, <1>7 DEF ReadExec, Abort, KilledByParent, ChildEnds, Open, TypeOK,
         Descriptors, BeforeRelease, Reports, Progress, SetupAfterMapping, Ends,
         Steps
    <2>4. Reports'
      BY <1>0, <1>7 DEF ReadExec, Abort, KilledByParent, ChildEnds, Open, TypeOK,
         Descriptors, BeforeRelease, Reports, Progress, Ends, Steps
    <2>5. Progress' /\ OutcomeTrue' /\ ReasonIsTheChilds'
      BY <1>0, <1>7 DEF ReadExec, Abort, KilledByParent, ChildEnds, Open, TypeOK,
         Descriptors, BeforeRelease, Reports, Progress, OutcomeTrue,
         ReasonIsTheChilds, Ends, Steps
    <2> QED
      BY <2>1, <2>2, <2>3, <2>4, <2>5 DEF HandshakeInv
  <1>8. CASE Reap
    <2>1. TypeOK'
      BY <1>0, <1>8 DEF Reap, TypeOK, Descriptors, Ends, Steps
    <2>2. Descriptors'
      BY <1>0, <1>8 DEF Reap, TypeOK, Descriptors, BeforeRelease, Progress, Ends, Steps
    <2>3. BeforeRelease' /\ SetupAfterMapping'
      BY <1>0, <1>8 DEF Reap, TypeOK, Descriptors, BeforeRelease, Reports,
         Progress, SetupAfterMapping, Ends, Steps
    <2>4. Reports'
      BY <1>0, <1>8 DEF Reap, TypeOK, Descriptors, BeforeRelease, Reports,
         Progress, Ends, Steps
    <2>5. Progress' /\ OutcomeTrue' /\ ReasonIsTheChilds'
      BY <1>0, <1>8 DEF Reap, TypeOK, Descriptors, BeforeRelease, Reports,
         Progress, OutcomeTrue, ReasonIsTheChilds, Ends, Steps
    <2> QED
      BY <2>1, <2>2, <2>3, <2>4, <2>5 DEF HandshakeInv
  <1>9. CASE ChildReleased
    <2>1. TypeOK'
      BY <1>0, <1>9, ZenonT(60) DEF ChildReleased, ChildEnds, Open, TypeOK, Descriptors, Ends, Steps
    <2>2. Descriptors'
      BY <1>0, <1>9 DEF ChildReleased, ChildEnds, Open, TypeOK, Descriptors,
         BeforeRelease, Progress, Ends, Steps
    <2>3. BeforeRelease' /\ SetupAfterMapping'
      BY <1>0, <1>9 DEF ChildReleased, ChildEnds, Open, TypeOK, Descriptors,
         BeforeRelease, Reports, Progress, SetupAfterMapping, Ends, Steps
    <2>4. Reports'
      BY <1>0, <1>9 DEF ChildReleased, ChildEnds, Open, TypeOK, Descriptors,
         BeforeRelease, Reports, Progress, Ends, Steps
    <2>5. Progress' /\ OutcomeTrue' /\ ReasonIsTheChilds'
      BY <1>0, <1>9 DEF ChildReleased, ChildEnds, Open, TypeOK, Descriptors,
         BeforeRelease, Reports, Progress, OutcomeTrue, ReasonIsTheChilds, Ends,
         Steps
    <2> QED
      BY <2>1, <2>2, <2>3, <2>4, <2>5 DEF HandshakeInv
  <1>10. CASE SetupStep
    <2>1. TypeOK'
      BY <1>0, <1>10 DEF SetupStep, TypeOK, Descriptors, Ends, Steps
    <2>2. Descriptors'
      BY <1>0, <1>10 DEF SetupStep, TypeOK, Descriptors, BeforeRelease, Progress,
         Ends, Steps
    <2>3. BeforeRelease' /\ SetupAfterMapping'
      BY <1>0, <1>10 DEF SetupStep, TypeOK, Descriptors, BeforeRelease, Reports,
         Progress, SetupAfterMapping, Ends, Steps
    <2>4. Reports'
      BY <1>0, <1>10 DEF SetupStep, TypeOK, Descriptors, BeforeRelease, Reports,
         Progress, Ends, Steps
    <2>5. Progress' /\ OutcomeTrue' /\ ReasonIsTheChilds'
      BY <1>0, <1>10 DEF SetupStep, TypeOK, Descriptors, BeforeRelease, Reports,
         Progress, OutcomeTrue, ReasonIsTheChilds, Ends, Steps
    <2> QED
      BY <2>1, <2>2, <2>3, <2>4, <2>5 DEF HandshakeInv
  <1>11. CASE SetupFails
    <2>1. TypeOK'
      BY <1>0, <1>11 DEF SetupFails, ChildEnds, TypeOK, Descriptors, Ends, Steps
    <2>2. Descriptors'
      BY <1>0, <1>11 DEF SetupFails, ChildEnds, TypeOK, Descriptors,
         BeforeRelease, Progress, Ends, Steps
    <2>3. BeforeRelease' /\ SetupAfterMapping'
      BY <1>0, <1>11 DEF SetupFails, ChildEnds, TypeOK, Descriptors,
         BeforeRelease, Reports, Progress, SetupAfterMapping, Ends, Steps
    <2>4. Reports'
      BY <1>0, <1>11 DEF SetupFails, ChildEnds, TypeOK, Descriptors,
         BeforeRelease, Reports, Progress, Ends, Steps
    <2>5. Progress' /\ OutcomeTrue' /\ ReasonIsTheChilds'
      BY <1>0, <1>11 DEF SetupFails, ChildEnds, TypeOK, Descriptors,
         BeforeRelease, Reports, Progress, OutcomeTrue, ReasonIsTheChilds, Ends,
         Steps
    <2> QED
      BY <2>1, <2>2, <2>3, <2>4, <2>5 DEF HandshakeInv
  <1>12. CASE Ready
    <2>1. TypeOK'
      BY <1>0, <1>12 DEF Ready, TypeOK, Descriptors, Ends, Steps
    <2>2. Descriptors'
      BY <1>0, <1>12 DEF Ready, TypeOK, Descriptors, BeforeRelease, Progress, Ends, Steps
    <2>3. BeforeRelease' /\ SetupAfterMapping'
      BY <1>0, <1>12 DEF Ready, TypeOK, Descriptors, BeforeRelease, Reports,
         Progress, SetupAfterMapping, Ends, Steps
    <2>4. Reports'
      BY <1>0, <1>12 DEF Ready, TypeOK, Descriptors, BeforeRelease, Reports,
         Progress, Ends, Steps
    <2>5. Progress' /\ OutcomeTrue' /\ ReasonIsTheChilds'
      BY <1>0, <1>12 DEF Ready, TypeOK, Descriptors, BeforeRelease, Reports,
         Progress, OutcomeTrue, ReasonIsTheChilds, Ends, Steps
    <2> QED
      BY <2>1, <2>2, <2>3, <2>4, <2>5 DEF HandshakeInv
  <1>13. CASE Exec
    <2>1. TypeOK'
      BY <1>0, <1>13 DEF Exec, TypeOK, Descriptors, Ends, Steps
    <2>2. Descriptors'
      BY <1>0, <1>13 DEF Exec, TypeOK, Descriptors, BeforeRelease, Progress, Ends, Steps
    <2>3. BeforeRelease' /\ SetupAfterMapping'
      BY <1>0, <1>13 DEF Exec, TypeOK, Descriptors, BeforeRelease, Reports,
         Progress, SetupAfterMapping, Ends, Steps
    <2>4. Reports'
      BY <1>0, <1>13 DEF Exec, TypeOK, Descriptors, BeforeRelease, Reports,
         Progress, Ends, Steps
    <2>5. Progress' /\ OutcomeTrue' /\ ReasonIsTheChilds'
      BY <1>0, <1>13 DEF Exec, TypeOK, Descriptors, BeforeRelease, Reports,
         Progress, OutcomeTrue, ReasonIsTheChilds, Ends, Steps
    <2> QED
      BY <2>1, <2>2, <2>3, <2>4, <2>5 DEF HandshakeInv
  <1>14. CASE ExecFails
    <2>1. TypeOK'
      BY <1>0, <1>14 DEF ExecFails, ChildEnds, ExecReported, TypeOK, Descriptors,
         Ends, Steps
    <2>2. Descriptors'
      BY <1>0, <1>14 DEF ExecFails, ChildEnds, ExecReported, TypeOK, Descriptors,
         BeforeRelease, Progress, Ends, Steps
    <2>3. BeforeRelease' /\ SetupAfterMapping'
      BY <1>0, <1>14 DEF ExecFails, ChildEnds, ExecReported, TypeOK, Descriptors,
         BeforeRelease, Reports, Progress, SetupAfterMapping, Ends, Steps
    <2>4. Reports'
      BY <1>0, <1>14 DEF ExecFails, ChildEnds, ExecReported, TypeOK, Descriptors,
         BeforeRelease, Reports, Progress, Ends, Steps
    <2>5. Progress' /\ OutcomeTrue' /\ ReasonIsTheChilds'
      BY <1>0, <1>14 DEF ExecFails, ChildEnds, ExecReported, TypeOK, Descriptors,
         BeforeRelease, Reports, Progress, OutcomeTrue, ReasonIsTheChilds, Ends,
         Steps
    <2> QED
      BY <2>1, <2>2, <2>3, <2>4, <2>5 DEF HandshakeInv
  <1>15. CASE Finish
    <2>1. TypeOK'
      BY <1>0, <1>15 DEF Finish, ChildEnds, TypeOK, Descriptors, Ends, Steps
    <2>2. Descriptors'
      BY <1>0, <1>15 DEF Finish, ChildEnds, TypeOK, Descriptors, BeforeRelease,
         Progress, Ends, Steps
    <2>3. BeforeRelease' /\ SetupAfterMapping'
      BY <1>0, <1>15 DEF Finish, ChildEnds, TypeOK, Descriptors, BeforeRelease,
         Reports, Progress, SetupAfterMapping, Ends, Steps
    <2>4. Reports'
      BY <1>0, <1>15 DEF Finish, ChildEnds, TypeOK, Descriptors, BeforeRelease,
         Reports, Progress, Ends, Steps
    <2>5. Progress' /\ OutcomeTrue' /\ ReasonIsTheChilds'
      BY <1>0, <1>15 DEF Finish, ChildEnds, TypeOK, Descriptors, BeforeRelease,
         Reports, Progress, OutcomeTrue, ReasonIsTheChilds, Ends, Steps
    <2> QED
      BY <2>1, <2>2, <2>3, <2>4, <2>5 DEF HandshakeInv
  <1>16. CASE ChildKilled
    <2>1. TypeOK'
      BY <1>0, <1>16 DEF ChildKilled, ChildEnds, TypeOK, Descriptors, Ends, Steps
    <2>2. Descriptors'
      BY <1>0, <1>16 DEF ChildKilled, ChildEnds, TypeOK, Descriptors,
         BeforeRelease, Progress, Ends, Steps
    <2>3. BeforeRelease' /\ SetupAfterMapping'
      BY <1>0, <1>16 DEF ChildKilled, ChildEnds, TypeOK, Descriptors,
         BeforeRelease, Reports, Progress, SetupAfterMapping, Ends, Steps
    <2>4. Reports'
      BY <1>0, <1>16 DEF ChildKilled, ChildEnds, TypeOK, Descriptors,
         BeforeRelease, Reports, Progress, Ends, Steps
    <2>5. Progress' /\ OutcomeTrue' /\ ReasonIsTheChilds'
      BY <1>0, <1>16 DEF ChildKilled, ChildEnds, TypeOK, Descriptors,
         BeforeRelease, Reports, Progress, OutcomeTrue, ReasonIsTheChilds, Ends,
         Steps
    <2> QED
      BY <2>1, <2>2, <2>3, <2>4, <2>5 DEF HandshakeInv
  <1>17. CASE ParentKilled
    <2>1. TypeOK'
      BY <1>0, <1>17 DEF ParentKilled, TypeOK, Descriptors, Ends, Steps
    <2>2. Descriptors'
      BY <1>0, <1>17 DEF ParentKilled, TypeOK, Descriptors, BeforeRelease,
         Progress, Ends, Steps
    <2>3. BeforeRelease' /\ SetupAfterMapping'
      BY <1>0, <1>17 DEF ParentKilled, TypeOK, Descriptors, BeforeRelease,
         Reports, Progress, SetupAfterMapping, Ends, Steps
    <2>4. Reports'
      BY <1>0, <1>17 DEF ParentKilled, TypeOK, Descriptors, BeforeRelease,
         Reports, Progress, Ends, Steps
    <2>5. Progress' /\ OutcomeTrue' /\ ReasonIsTheChilds'
      BY <1>0, <1>17 DEF ParentKilled, TypeOK, Descriptors, BeforeRelease,
         Reports, Progress, OutcomeTrue, ReasonIsTheChilds, Ends, Steps
    <2> QED
      BY <2>1, <2>2, <2>3, <2>4, <2>5 DEF HandshakeInv
  <1>18. CASE UNCHANGED vars
    BY <1>0, <1>18 DEF vars, HandshakeInv, TypeOK, Descriptors, BeforeRelease,
       Reports, Progress,
       SetupAfterMapping, OutcomeTrue, ReasonIsTheChilds
  <1> QED
    BY <1>1, <1>2, <1>3, <1>4, <1>5, <1>6, <1>7, <1>8, <1>9, <1>10, <1>11, <1>12,
       <1>13, <1>14, <1>15, <1>16, <1>17, <1>18 DEF Next, Parent, Child

\* Whatever kills whom and when, the child changes its ids only after the parent
\* mapped them, the outcome namespace_start_container returns is the true one,
\* with the errno of the step that failed in namespace_child, and only an
\* outsider who killed the child makes the release fail.
THEOREM HandshakeCorrect ==
    Spec => [](SetupAfterMapping /\ OutcomeTrue /\ ReasonIsTheChilds /\ ReleaseSafe)
  <1>1. HandshakeInv => SetupAfterMapping /\ OutcomeTrue /\ ReasonIsTheChilds /\ ReleaseSafe
    BY SMTT(60) DEF HandshakeInv, ReleaseSafe, Descriptors, BeforeRelease, Open, Ends
  <1> QED
    BY <1>1, HandshakeInit, HandshakeStep, PTL DEF Spec

----------------------------------------------------------------------------
(* The refinement.  A read, the release and a setup step are stutters of the *)
(* contract; the end of file on exec_pipe is its Succeed, waitpid its Fail.  *)

\* A step of the handshake is a step of the contract or leaves it alone.
LEMMA ContractStep ==
    HandshakeInv /\ HandshakeInv' /\ [Next]_vars => [Contract!SNext]_(Contract!svars)
  <1> SUFFICES ASSUME HandshakeInv, HandshakeInv', [Next]_vars
               PROVE [Contract!SNext]_(Contract!svars)
    OBVIOUS
  <1> USE DEF parent, child, pipes, Contract!SNext, Contract!svars, Contract!Clone, Contract!Exec,
          Contract!Die, Contract!Succeed, Contract!Fail, Contract!CallerDies
  <1>0. TypeOK /\ Descriptors /\ BeforeRelease /\ Reports /\ Progress /\ TypeOK' /\ OutcomeTrue'
    BY DEF HandshakeInv
  <1>1. CASE BeginFails
    BY <1>0, <1>1 DEF BeginFails, TypeOK, Descriptors, BeforeRelease, Reports,
       Progress, OutcomeTrue, Ends
  <1>2. CASE Clone
    BY <1>0, <1>2 DEF Clone, ParentEnds, FirstStop, ChildFds, TypeOK, Descriptors,
       BeforeRelease, Reports, Progress, OutcomeTrue, Ends
  <1>3. CASE configure_user_namespace
    BY <1>0, <1>3 DEF configure_user_namespace, Abort, KilledByParent, ChildEnds,
       TypeOK, Descriptors, BeforeRelease, Reports, Progress, OutcomeTrue, Ends
  <1>4. CASE Release
    BY <1>0, <1>4 DEF Release, Token, Open, TypeOK, Descriptors, BeforeRelease,
       Reports, Progress, OutcomeTrue, Ends
  <1>5. CASE ReleaseFails
    BY <1>0, <1>5 DEF ReleaseFails, Abort, KilledByParent, ChildEnds, Open, TypeOK,
       Descriptors, BeforeRelease, Reports, Progress, OutcomeTrue, Ends
  <1>6. CASE ReadStatus
    BY <1>0, <1>6 DEF ReadStatus, StatusErrno, Open, TypeOK, Descriptors,
       BeforeRelease, Reports, Progress, OutcomeTrue, Ends
  <1>7. CASE ReadExec
    BY <1>0, <1>7 DEF ReadExec, Abort, KilledByParent, ChildEnds, Open, TypeOK,
       Descriptors, BeforeRelease, Reports, Progress, OutcomeTrue, Ends
  <1>8. CASE Reap
    BY <1>0, <1>8 DEF Reap, TypeOK, Descriptors, BeforeRelease, Reports, Progress,
       OutcomeTrue, Ends
  <1>9. CASE ChildReleased
    BY <1>0, <1>9 DEF ChildReleased, ChildEnds, Open, TypeOK, Descriptors,
       BeforeRelease, Reports, Progress, OutcomeTrue, Ends
  <1>10. CASE SetupStep
    BY <1>0, <1>10 DEF SetupStep, TypeOK, Descriptors, BeforeRelease, Reports,
       Progress, OutcomeTrue, Ends
  <1>11. CASE SetupFails
    BY <1>0, <1>11 DEF SetupFails, ChildEnds, TypeOK, Descriptors, BeforeRelease,
       Reports, Progress, OutcomeTrue, Ends
  <1>12. CASE Ready
    BY <1>0, <1>12 DEF Ready, TypeOK, Descriptors, BeforeRelease, Reports, Progress,
       OutcomeTrue, Ends
  <1>13. CASE Exec
    BY <1>0, <1>13 DEF Exec, TypeOK, Descriptors, BeforeRelease, Reports, Progress,
       OutcomeTrue, Ends
  <1>14. CASE ExecFails
    BY <1>0, <1>14 DEF ExecFails, ChildEnds, ExecReported, TypeOK, Descriptors,
       BeforeRelease, Reports, Progress, OutcomeTrue, Ends
  <1>15. CASE Finish
    BY <1>0, <1>15 DEF Finish, ChildEnds, TypeOK, Descriptors, BeforeRelease,
       Reports, Progress, OutcomeTrue, Ends
  <1>16. CASE ChildKilled
    BY <1>0, <1>16 DEF ChildKilled, ChildEnds, TypeOK, Descriptors, BeforeRelease,
       Reports, Progress, OutcomeTrue, Ends
  <1>17. CASE ParentKilled
    BY <1>0, <1>17 DEF ParentKilled, TypeOK, Descriptors, BeforeRelease, Reports,
       Progress, OutcomeTrue, Ends
  <1>18. CASE UNCHANGED vars
    BY <1>18 DEF vars
  <1> QED
    BY <1>1, <1>2, <1>3, <1>4, <1>5, <1>6, <1>7, <1>8, <1>9, <1>10, <1>11, <1>12,
       <1>13, <1>14, <1>15, <1>16, <1>17, <1>18, ZenonT(60) DEF Next, Parent, Child

\* namespace_start_container with namespace_child keeps the promise its caller
\* relies on: success is a child that executed, failure leaves no child.
THEOREM HandshakeImplementsContract == Spec => ImplementsContract
  <1>1. Init => Contract!SInit
    BY DEF Init, Contract!SInit
  <1> QED
    BY <1>1, HandshakeInit, HandshakeStep, ContractStep, PTL DEF Spec,
       ImplementsContract, Contract!SSpec
=============================================================================
