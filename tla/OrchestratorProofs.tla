-------------------------- MODULE OrchestratorProofs --------------------------
(***************************************************************************)
(* The sidecar pool for every number of invocations and processes.          *)
(***************************************************************************)
EXTENDS Orchestrator, FiniteSetTheorems, TLAPS

(* The type invariant in four parts, one per group of variables. *)
CallerState ==
  {"idle", "get", "spawn", "handshake", "store", "cache", "call", "await", "check", "removing", "returned"}

HasSidecar == {"handshake", "store", "cache", "call", "await"}

CallersOK ==
  /\ pc \in [Callers -> CallerState]
  /\ ag \in [Callers -> Procs \cup {NoProc}]
  /\ firstTry \in [Callers -> Procs \cup {NoProc, -1}]
  /\ ctxLive \in [Callers -> BOOLEAN]
  /\ result \in [Callers -> {"none", "completed", "failed", "rejected"}]
  /\ \A c \in Callers : pc[c] \in HasSidecar => ag[c] \in Procs

PoolOK ==
  available \in BOOLEAN /\ active \in Procs \cup {NoProc} /\ processes \in Procs \cup {NoProc}

ProcsOK ==
  /\ spawned \in 0 .. MaxProcs
  /\ os \in [Procs -> {"none", "up", "zombie", "reaped"}]
  /\ life \in [Procs -> SidecarStates]
  /\ owner \in [Procs -> Callers \cup {Main}]
  /\ waited \subseteq Procs

CloserState ==
  [step : {"idle", "drain", "close", "wait", "stop", "done"}, of : Procs \cup {NoProc}, round : {1, 2}]

ClosersOK ==
  /\ shut \in [Closers -> CloserState]
  /\ \A k \in Closers : shut[k].step \in {"drain", "close", "wait"} => shut[k].of \in Procs

\* The four parts make up the type invariant.
LEMMA TypeParts == TypeOK <=> CallersOK /\ PoolOK /\ ProcsOK /\ ClosersOK
  BY Zenon DEF TypeOK, CallersOK, PoolOK, ProcsOK, ClosersOK, CallerState, CloserState, HasSidecar

\* Where TransitionTo goes, from the table of edges.
LEMMA Transitions ==
  ASSUME NEW s \in SidecarStates
  PROVE  /\ TransitionTo(s, "running") = IF s = "starting" THEN "running" ELSE s
         /\ TransitionTo(s, "draining") = IF s \in {"starting", "running"} THEN "draining" ELSE s
         /\ TransitionTo(s, "closed") = IF s = "draining" THEN "closed" ELSE s
  BY Zenon DEF TransitionTo, IsValidTransition, validTransitions, SidecarStates

-----------------------------------------------------------------------------
\* A caller that only moves on.
LEMMA MoveTyped ==
  ASSUME CallersOK, NEW c \in Callers, NEW to \in CallerState, to \in HasSidecar => ag[c] \in Procs,
         pc' = [pc EXCEPT ![c] = to], UNCHANGED <<ag, firstTry, ctxLive, result>>
  PROVE  CallersOK'
  BY Zenon DEF CallersOK

\* A caller that returns has a proper state.
LEMMA ReturnTyped ==
  ASSUME CallersOK, NEW c \in Callers, NEW r \in {"completed", "failed", "rejected"}, Return(c, r),
         UNCHANGED <<ag, firstTry>>
  PROVE  CallersOK'
  BY Zenon DEF CallersOK, Return, CallerState, HasSidecar

\* So has one whose attempt failed.
LEMMA FailedTyped ==
  ASSUME CallersOK, NEW c \in Callers, Failed(c), UNCHANGED ag
  PROVE  CallersOK'
<1>1. CASE c \in Delegates /\ firstTry[c] = -1
  BY <1>1 DEF CallersOK, Failed, CallerState, HasSidecar
<1>2. CASE ~(c \in Delegates /\ firstTry[c] = -1)
  BY <1>2, ReturnTyped, Zenon DEF Failed
<1> QED BY <1>1, <1>2, Zenon

\* Every step keeps the callers' part.
LEMMA CallersStep == TypeOK /\ [Next]_vars => CallersOK'
<1> SUFFICES ASSUME CallersOK, PoolOK, ProcsOK, ClosersOK, [Next]_vars PROVE CallersOK'
  BY TypeParts, Zenon
<1>1. CASE UNCHANGED callerVars
  BY <1>1, Zenon DEF CallersOK, callerVars
<1>2. ASSUME NEW c \in Callers, Begin(c) \/ HandshakeOk(c) \/ Store(c) \/ Cache(c) \/ CallSend(c)
      PROVE  CallersOK'
  <2>1. PICK to \in CallerState : pc' = [pc EXCEPT ![c] = to] /\ (to \in HasSidecar => pc[c] \in HasSidecar)
    BY <1>2, Zenon DEF Begin, HandshakeOk, Store, Cache, CallSend, CallerState, HasSidecar
  <2>2. UNCHANGED <<ag, firstTry, ctxLive, result>>
    BY <1>2, Zenon DEF Begin, HandshakeOk, Store, Cache, CallSend
  <2> QED BY <2>1, <2>2, MoveTyped, Zenon DEF CallersOK
<1>3. ASSUME NEW c \in Callers, Reject(c) \/ AnswerOk(c) PROVE CallersOK'
  BY <1>3, ReturnTyped, Zenon DEF Reject, AnswerOk
<1>4. ASSUME NEW c \in Callers, CtxEnd(c) PROVE CallersOK'
  BY <1>4, Zenon DEF CtxEnd, CallersOK
<1>5. ASSUME NEW c \in Callers, GetReuse(c) PROVE CallersOK'
  BY <1>5, Zenon DEF GetReuse, CallersOK, PoolOK, CallerState, HasSidecar
<1>6. ASSUME NEW c \in Callers, GetStart(c) PROVE CallersOK'
  BY <1>6, Zenon DEF GetStart, CallersOK, CallerState, HasSidecar
<1>7. ASSUME NEW c \in Callers, Spawn(c) PROVE CallersOK'
  <2>1. spawned' \in Procs
    BY <1>7, ProcsAssumption DEF Spawn, ProcsOK, Procs
  <2> QED BY <1>7, <2>1, Zenon DEF Spawn, CallersOK, CallerState, HasSidecar
<1>8. ASSUME NEW c \in Callers, SpawnFail(c) \/ HandshakeFail(c) \/ CallLost(c) \/ AwaitFail(c) \/ AnswerError(c)
      PROVE  CallersOK'
  BY <1>8, FailedTyped, Zenon DEF SpawnFail, HandshakeFail, CallLost, AwaitFail, AnswerError
<1>9. ASSUME NEW c \in Delegates, GiveUp(c) PROVE CallersOK'
  BY <1>9, ReturnTyped, Zenon DEF GiveUp, Callers
<1>10. ASSUME NEW c \in Delegates, RemoveSidecar(c) \/ Retry(c) PROVE CallersOK'
  <2>1. pc' = [pc EXCEPT ![c] = "get"] \/ pc' = [pc EXCEPT ![c] = "removing"]
    BY <1>10, Zenon DEF RemoveSidecar, Retry
  <2>2. UNCHANGED <<ag, firstTry, ctxLive, result>>
    BY <1>10, Zenon DEF RemoveSidecar, Retry
  <2> QED BY <2>1, <2>2, MoveTyped, Zenon DEF CallerState, HasSidecar, Callers
<1>11. ASSUME NEW p \in Procs, Crash(p) \/ CtxKill(p) \/ Reap(p) PROVE UNCHANGED callerVars
  BY <1>11, Zenon DEF Crash, CtxKill, Reap
<1>12. ASSUME NEW k \in Closers, Close(k) PROVE UNCHANGED callerVars
  BY <1>12, Zenon DEF Close, ShutDrain, ShutClose, ShutReaped, ShutTimeout, Stop
<1>13. ASSUME Shutdown \/ UNCHANGED vars PROVE UNCHANGED callerVars
  BY <1>13, Zenon DEF Shutdown, vars
<1> QED BY <1>1, <1>2, <1>3, <1>4, <1>5, <1>6, <1>7, <1>8, <1>9, <1>10, <1>11, <1>12, <1>13, Zenon DEF Next, Attempt

\* Every step keeps the pool's part.
LEMMA PoolStep == TypeOK /\ [Next]_vars => PoolOK'
<1> SUFFICES ASSUME CallersOK, PoolOK, [Next]_vars PROVE PoolOK'
  BY TypeParts, Zenon
<1>1. CASE UNCHANGED pool
  BY <1>1, Zenon DEF PoolOK, pool
<1>2. ASSUME NEW c \in Callers, Begin(c) \/ GetStart(c) \/ Store(c) \/ Cache(c) PROVE PoolOK'
  BY <1>2, Zenon DEF Begin, GetStart, Store, Cache, PoolOK, CallersOK
<1>3. ASSUME NEW c \in Callers,
             \/ Reject(c) \/ CtxEnd(c) \/ GetReuse(c) \/ Spawn(c) \/ SpawnFail(c) \/ HandshakeOk(c)
             \/ HandshakeFail(c) \/ CallSend(c) \/ CallLost(c) \/ AwaitFail(c) \/ AnswerOk(c) \/ AnswerError(c)
      PROVE  UNCHANGED pool
  BY <1>3, Zenon DEF Reject, CtxEnd, GetReuse, Spawn, SpawnFail, HandshakeOk, HandshakeFail, CallSend, CallLost,
       AwaitFail, AnswerOk, AnswerError
<1>4. ASSUME NEW c \in Delegates, GiveUp(c) \/ RemoveSidecar(c) \/ Retry(c) PROVE PoolOK'
  BY <1>1, <1>4, Zenon DEF GiveUp, RemoveSidecar, Retry, PoolOK
<1>5. ASSUME NEW p \in Procs, Crash(p) \/ CtxKill(p) \/ Reap(p) PROVE UNCHANGED pool
  BY <1>5, Zenon DEF Crash, CtxKill, Reap
<1>6. ASSUME NEW k \in Closers, Close(k) PROVE PoolOK'
  BY <1>1, <1>6, Zenon DEF Close, ShutDrain, ShutClose, ShutReaped, ShutTimeout, Stop, PoolOK
<1>7. CASE Shutdown \/ UNCHANGED vars
  BY <1>1, <1>7, Zenon DEF Shutdown, vars, PoolOK
<1> QED BY <1>1, <1>2, <1>3, <1>4, <1>5, <1>6, <1>7, Zenon DEF Next, Attempt

\* Every step keeps the processes' part.
LEMMA ProcsStep == TypeOK /\ [Next]_vars => ProcsOK'
<1> SUFFICES ASSUME CallersOK, ProcsOK, ClosersOK, [Next]_vars PROVE ProcsOK'
  BY TypeParts, Zenon
<1>1. CASE UNCHANGED procVars
  BY <1>1, Zenon DEF ProcsOK, procVars
<1>2. ASSUME NEW c \in Callers, Spawn(c) PROVE ProcsOK'
  <2>1. spawned' \in Procs /\ spawned' \in 0 .. MaxProcs
    BY <1>2, ProcsAssumption DEF Spawn, ProcsOK, Procs
  <2> QED BY <1>2, <2>1, Zenon DEF Spawn, ProcsOK
<1>3. ASSUME NEW c \in Callers, HandshakeOk(c) PROVE ProcsOK'
  BY <1>3, Transitions, Zenon DEF HandshakeOk, ProcsOK, CallersOK, HasSidecar, SidecarStates
<1>4. ASSUME NEW c \in Callers, HandshakeFail(c) PROVE ProcsOK'
  BY <1>4, Transitions, Zenon DEF HandshakeFail, Exit, ProcsOK, CallersOK, HasSidecar, SidecarStates
<1>5. ASSUME NEW c \in Callers,
             \/ Begin(c) \/ Reject(c) \/ CtxEnd(c) \/ GetReuse(c) \/ GetStart(c) \/ SpawnFail(c) \/ Store(c)
             \/ Cache(c) \/ CallSend(c) \/ CallLost(c) \/ AwaitFail(c) \/ AnswerOk(c) \/ AnswerError(c)
      PROVE  UNCHANGED procVars
  BY <1>5, Zenon DEF Begin, Reject, CtxEnd, GetReuse, GetStart, SpawnFail, Store, Cache, CallSend, CallLost,
       AwaitFail, AnswerOk, AnswerError
<1>6. ASSUME NEW c \in Delegates, GiveUp(c) \/ RemoveSidecar(c) \/ Retry(c) PROVE UNCHANGED procVars
  BY <1>6, Zenon DEF GiveUp, RemoveSidecar, Retry
<1>7. ASSUME NEW p \in Procs, Crash(p) \/ CtxKill(p) \/ Reap(p) PROVE ProcsOK'
  BY <1>7, Zenon DEF Crash, CtxKill, Reap, Exit, ProcsOK
<1>8. ASSUME NEW k \in Closers, ShutDrain(k) \/ ShutClose(k) PROVE ProcsOK'
  <2>1. shut[k].of \in Procs /\ life[shut[k].of] \in SidecarStates
    BY <1>8, Zenon DEF ShutDrain, ShutClose, ClosersOK, ProcsOK
  <2> QED BY <1>8, <2>1, Transitions DEF ShutDrain, ShutClose, ProcsOK, SidecarStates
<1>9. ASSUME NEW k \in Closers, ShutTimeout(k) PROVE ProcsOK'
  BY <1>9, Zenon DEF ShutTimeout, Exit, ProcsOK
<1>10. ASSUME NEW k \in Closers, ShutReaped(k) \/ Stop(k) PROVE UNCHANGED procVars
  BY <1>10, Zenon DEF ShutReaped, Stop
<1>11. ASSUME Shutdown \/ UNCHANGED vars PROVE UNCHANGED procVars
  BY <1>11, Zenon DEF Shutdown, vars
<1> QED BY <1>1, <1>2, <1>3, <1>4, <1>5, <1>6, <1>7, <1>8, <1>9, <1>10, <1>11, Zenon DEF Next, Attempt, Close

\* The goroutine in state x begins to shut p down.
Draining(x, p) == [x EXCEPT !.step = "drain", !.of = p]

\* A shutdown that begins is about a process.
LEMMA DrainingTyped ==
  ASSUME NEW x \in CloserState, NEW p \in Procs
  PROVE  Draining(x, p) \in CloserState /\ Draining(x, p).step = "drain" /\ Draining(x, p).of = p
<1>1. [x EXCEPT !.step = "drain"] \in CloserState
  BY Zenon DEF CloserState
<1>2. \A y \in CloserState : [y EXCEPT !.of = p] \in CloserState
  BY Zenon DEF CloserState
<1> QED BY <1>1, <1>2, Zenon DEF Draining, CloserState

\* A goroutine whose new state is a proper one.
LEMMA CloserMoves ==
  ASSUME ClosersOK, NEW k \in Closers, NEW x \in CloserState,
         x.step \in {"drain", "close", "wait"} => x.of \in Procs, shut' = [shut EXCEPT ![k] = x]
  PROVE  ClosersOK'
  BY Zenon DEF ClosersOK

\* A goroutine that goes on with the same sidecar.
LEMMA CloserSteps ==
  ASSUME ClosersOK, NEW k \in Closers, NEW s \in {"close", "wait", "stop", "done"},
         s \in {"close", "wait"} => shut[k].of \in Procs, shut' = [shut EXCEPT ![k].step = s]
  PROVE  ClosersOK'
<1>1. PICK x \in CloserState : x = [shut[k] EXCEPT !.step = s] /\ x.step = s /\ x.of = shut[k].of
  BY DEF ClosersOK, CloserState
<1> QED BY <1>1, CloserMoves, Zenon

\* Every step keeps the part of those that shut sidecars down.
LEMMA ClosersStep == TypeOK /\ [Next]_vars => ClosersOK'
<1> SUFFICES ASSUME PoolOK, ClosersOK, [Next]_vars PROVE ClosersOK'
  BY TypeParts, Zenon
<1>1. CASE UNCHANGED shut
  BY <1>1, Zenon DEF ClosersOK
<1>2. ASSUME NEW k \in Closers, active # NoProc, shut' = [shut EXCEPT ![k] = Draining(shut[k], active)]
      PROVE  ClosersOK'
  BY <1>2, DrainingTyped, CloserMoves DEF ClosersOK, PoolOK
<1>3. ASSUME NEW c \in Callers, GetStart(c) PROVE ClosersOK'
  BY <1>1, <1>2, <1>3, Zenon DEF GetStart, Draining, PoolOK, Closers
<1>4. ASSUME NEW c \in Delegates, RemoveSidecar(c) PROVE ClosersOK'
  BY <1>1, <1>2, <1>4, Zenon DEF RemoveSidecar, Draining, Closers
<1>5. ASSUME NEW k \in Closers, ShutDrain(k) PROVE ClosersOK'
  BY <1>5, CloserSteps, Zenon DEF ShutDrain, ClosersOK
<1>6. ASSUME NEW k \in Closers, ShutClose(k) PROVE ClosersOK'
  BY <1>6, CloserSteps, Zenon DEF ShutClose, ClosersOK
<1>7. ASSUME NEW k \in Closers, ShutReaped(k) \/ ShutTimeout(k) PROVE ClosersOK'
  <2>1. PICK s \in {"stop", "done"} : shut' = [shut EXCEPT ![k].step = s]
    BY <1>7, Zenon DEF ShutReaped, ShutTimeout, AfterShut
  <2> QED BY <2>1, CloserSteps, Zenon
<1>8. ASSUME NEW k \in Closers, Stop(k) PROVE ClosersOK'
  <2>1. CASE processes = NoProc
    <3>1. shut' = [shut EXCEPT ![k].step = "done"]
      BY <1>8, <2>1, Zenon DEF Stop
    <3> QED BY <3>1, CloserSteps, Zenon
  <2>2. CASE processes # NoProc
    <3>1. PICK x : x = [step |-> "drain", of |-> processes, round |-> 2]
      BY Zenon
    <3>2. x \in CloserState /\ x.of \in Procs
      BY <2>2, <3>1, Zenon DEF CloserState, PoolOK
    <3>3. shut' = [shut EXCEPT ![k] = x]
      BY <1>8, <2>2, <3>1, Zenon DEF Stop
    <3> QED BY <3>2, <3>3, CloserMoves, Zenon
  <2> QED BY <2>1, <2>2, Zenon
<1>9. CASE Shutdown
  <2>1. PICK s \in {"stop", "done"} : shut' = [shut EXCEPT ![Main].step = s]
    BY <1>9, Zenon DEF Shutdown
  <2> QED BY <2>1, CloserSteps, Zenon DEF Closers
<1>10. ASSUME NEW c \in Callers,
             \/ Begin(c) \/ Reject(c) \/ CtxEnd(c) \/ GetReuse(c) \/ Spawn(c) \/ SpawnFail(c) \/ HandshakeOk(c)
             \/ HandshakeFail(c) \/ Store(c) \/ Cache(c) \/ CallSend(c) \/ CallLost(c) \/ AwaitFail(c)
             \/ AnswerOk(c) \/ AnswerError(c)
      PROVE  UNCHANGED shut
  BY <1>10, Zenon DEF Begin, Reject, CtxEnd, GetReuse, Spawn, SpawnFail, HandshakeOk, HandshakeFail, Store, Cache,
       CallSend, CallLost, AwaitFail, AnswerOk, AnswerError
<1>11. ASSUME NEW c \in Delegates, GiveUp(c) \/ Retry(c) PROVE UNCHANGED shut
  BY <1>11, Zenon DEF GiveUp, Retry
<1>12. ASSUME NEW p \in Procs, Crash(p) \/ CtxKill(p) \/ Reap(p) PROVE UNCHANGED shut
  BY <1>12, Zenon DEF Crash, CtxKill, Reap
<1>13. CASE UNCHANGED vars
  BY <1>1, <1>13, Zenon DEF vars
<1> QED BY <1>1, <1>3, <1>4, <1>5, <1>6, <1>7, <1>8, <1>9, <1>10, <1>11, <1>12, <1>13, Zenon DEF Next, Attempt, Close

\* The type invariant of the pool: in particular no caller sends a request to,
\* and no goroutine shuts down, a nil sidecar.
THEOREM TypeCorrect == Spec => []TypeOK
<1>1. Init => TypeOK
  BY CallersAssumption, ProcsAssumption DEF Init, TypeOK, SidecarStates, NoProc
<1>2. TypeOK /\ [Next]_vars => TypeOK'
  <2> SUFFICES ASSUME TypeOK, [Next]_vars PROVE TypeOK'
    BY Zenon
  <2>1. CallersOK' /\ PoolOK' /\ ProcsOK' /\ ClosersOK'
    BY CallersStep, PoolStep, ProcsStep, ClosersStep, Zenon
  <2> QED BY <2>1, Zenon DEF TypeOK, CallersOK, PoolOK, ProcsOK, ClosersOK, CallerState, CloserState, HasSidecar
<1> QED BY <1>1, <1>2, PTL DEF Spec

-----------------------------------------------------------------------------
(* LifecycleForward *)
LEMMA TransitionForward ==
  ASSUME NEW s \in SidecarStates, NEW t \in {"running", "draining", "closed"}, TransitionTo(s, t) # s
  PROVE  IsValidTransition(s, TransitionTo(s, t)) /\ Progress(s) < Progress(TransitionTo(s, t))
  BY Transitions DEF IsValidTransition, validTransitions, Progress, SidecarStates

\* Whatever steps life takes are TransitionTo's.
LEMMA LifeSteps ==
  ASSUME TypeOK, [Next]_vars
  PROVE  \/ UNCHANGED life
         \/ \E p \in Procs, t \in {"running", "draining", "closed"} :
               life' = [life EXCEPT ![p] = TransitionTo(@, t)]
<1> DEFINE Moves == \E p \in Procs, t \in {"running", "draining", "closed"} :
                      life' = [life EXCEPT ![p] = TransitionTo(@, t)]
<1>1. ASSUME NEW c \in Callers, HandshakeOk(c) \/ HandshakeFail(c) PROVE Moves
  <2>1. ag[c] \in Procs
    BY <1>1, Zenon DEF HandshakeOk, HandshakeFail, TypeOK
  <2> QED BY <1>1, <2>1, Zenon DEF HandshakeOk, HandshakeFail
<1>2. ASSUME NEW k \in Closers, ShutDrain(k) \/ ShutClose(k) PROVE Moves
  <2>1. shut[k].of \in Procs
    BY <1>2, Zenon DEF ShutDrain, ShutClose, TypeOK
  <2> QED BY <1>2, <2>1, Zenon DEF ShutDrain, ShutClose
<1>3. ASSUME NEW c \in Callers,
             \/ Begin(c) \/ Reject(c) \/ CtxEnd(c) \/ GetReuse(c) \/ GetStart(c) \/ Spawn(c) \/ SpawnFail(c)
             \/ Store(c) \/ Cache(c) \/ CallSend(c) \/ CallLost(c) \/ AwaitFail(c) \/ AnswerOk(c) \/ AnswerError(c)
      PROVE  UNCHANGED life
  BY <1>3, Zenon DEF Begin, Reject, CtxEnd, GetReuse, GetStart, Spawn, SpawnFail, Store, Cache, CallSend, CallLost,
       AwaitFail, AnswerOk, AnswerError, procVars
<1>4. ASSUME NEW c \in Delegates, GiveUp(c) \/ RemoveSidecar(c) \/ Retry(c) PROVE UNCHANGED life
  BY <1>4, Zenon DEF GiveUp, RemoveSidecar, Retry, procVars
<1>5. ASSUME NEW p \in Procs, Crash(p) \/ CtxKill(p) \/ Reap(p) PROVE UNCHANGED life
  BY <1>5, Zenon DEF Crash, CtxKill, Reap
<1>6. ASSUME NEW k \in Closers, ShutReaped(k) \/ ShutTimeout(k) \/ Stop(k) PROVE UNCHANGED life
  BY <1>6, Zenon DEF ShutReaped, ShutTimeout, Stop, procVars
<1>7. ASSUME Shutdown \/ UNCHANGED vars PROVE UNCHANGED life
  BY <1>7, Zenon DEF Shutdown, vars, procVars
<1> HIDE DEF Moves
<1>8. Moves \/ UNCHANGED life
  BY <1>1, <1>2, <1>3, <1>4, <1>5, <1>6, <1>7, Zenon DEF Next, Attempt, Close
<1> QED BY <1>8, Zenon DEF Moves

\* However many goroutines drain and close one sidecar, its SidecarInstance
\* moves forward along the table of lifecycle.go only.
THEOREM LifecycleMovesForward == Spec => LifecycleForward
<1>1. ASSUME TypeOK, [Next]_vars, NEW p \in Procs, life'[p] # life[p]
      PROVE  IsValidTransition(life[p], life'[p]) /\ Progress(life[p]) < Progress(life'[p])
  <2>1. PICK q \in Procs, t \in {"running", "draining", "closed"} :
          life' = [life EXCEPT ![q] = TransitionTo(@, t)]
    BY <1>1, LifeSteps, Zenon
  <2>2. q = p /\ life'[p] = TransitionTo(life[p], t) /\ life[p] \in SidecarStates
    BY <1>1, <2>1, Zenon DEF TypeOK
  <2> QED BY <1>1, <2>2, TransitionForward, Zenon
<1>2. TypeOK /\ [Next]_vars =>
        [\A p \in Procs : life'[p] # life[p] =>
            /\ IsValidTransition(life[p], life'[p])
            /\ Progress(life[p]) < Progress(life'[p])]_vars
  BY <1>1, Zenon
<1> QED BY <1>2, TypeCorrect, PTL DEF Spec, LifecycleForward

-----------------------------------------------------------------------------
(***************************************************************************)
(* RetryOnFreshSidecar, by following who may know a process:               *)
(*   - nothing refers to a process that was not spawned yet;               *)
(*   - until it is in the pool only the caller that spawned it holds it,   *)
(*     and nobody's first attempt was on it;                               *)
(*   - from removeSidecar on, the pool never again holds the sidecar a     *)
(*     Delegate's first attempt failed on, because a process enters the    *)
(*     pool only once, from the hands of the caller that spawned it.       *)
(***************************************************************************)
Known ==
  /\ \A c \in Callers : ag[c] <= spawned /\ firstTry[c] <= spawned
  /\ active <= spawned /\ processes <= spawned
  /\ \A k \in Closers : shut[k].of <= spawned

Unpooled == {"handshake", "store", "cache"}

OwnedBy(c) ==
  /\ active # ag[c] /\ firstTry[c] # ag[c]
  /\ \A d \in Callers \ {c} : ag[d] # ag[c] /\ firstTry[d] # ag[c]

Exclusive == \A c \in Callers : pc[c] \in Unpooled => OwnedBy(c)

RemovedForGood ==
  \A c \in Delegates : firstTry[c] \in Procs /\ pc[c] \notin {"check", "returned"} => active # firstTry[c]

PoolInv == Exclusive /\ RemovedForGood /\ RetryOnFreshSidecar

\* What a failed attempt changes.
LEMMA FailedEffect ==
  ASSUME CallersOK, NEW c \in Callers, Failed(c)
  PROVE  /\ \A d \in Callers \ {c} : pc'[d] = pc[d] /\ firstTry'[d] = firstTry[d]
         /\ pc'[c] \in {"check", "returned"} /\ firstTry'[c] \in {firstTry[c], ag[c]}
<1>1. CASE c \in Delegates /\ firstTry[c] = -1
  BY <1>1, Zenon DEF Failed, CallersOK
<1>2. CASE ~(c \in Delegates /\ firstTry[c] = -1)
  BY <1>2, Zenon DEF Failed, Return, CallersOK
<1> QED BY <1>1, <1>2, Zenon

\* A failed attempt leaves the facts about the pool true.
LEMMA FailedKeepsPool ==
  ASSUME CallersOK, PoolInv, NEW c \in Callers, Failed(c), UNCHANGED <<ag, active>>
  PROVE  PoolInv'
<1> USE FailedEffect DEF PoolInv
<1>1. Exclusive'
  BY DEF Exclusive, OwnedBy, Unpooled
<1>2. RemovedForGood'
  BY Zenon DEF RemovedForGood, Callers
<1>3. RetryOnFreshSidecar'
  BY Zenon DEF RetryOnFreshSidecar, Callers
<1> QED BY <1>1, <1>2, <1>3, Zenon

\* A caller that keeps its sidecar while the pool keeps its own.
LEMMA MoveKeepsPool ==
  ASSUME CallersOK, PoolInv, NEW c \in Callers, NEW to \in CallerState,
         pc' = [pc EXCEPT ![c] = to], UNCHANGED <<ag, firstTry, active>>,
         to \in Unpooled => pc[c] \in Unpooled,
         to \in HasSidecar => pc[c] \in HasSidecar,
         to \notin {"check", "returned"} => pc[c] \notin {"check", "returned"}
  PROVE  PoolInv'
<1> USE DEF PoolInv, CallersOK
<1>1. Exclusive'
  BY Zenon DEF Exclusive, OwnedBy
<1>2. RemovedForGood'
  BY DEF RemovedForGood
<1>3. RetryOnFreshSidecar'
  BY DEF RetryOnFreshSidecar, HasSidecar
<1> QED BY <1>1, <1>2, <1>3, Zenon

\* Every step keeps the facts about the pool.
LEMMA PoolInvStep == TypeOK /\ Known /\ PoolInv /\ [Next]_vars => PoolInv'
<1> SUFFICES ASSUME CallersOK, PoolOK, ProcsOK, ClosersOK, Known, PoolInv, [Next]_vars PROVE PoolInv'
  BY TypeParts, Zenon
<1>1. CASE UNCHANGED <<pc, ag, firstTry, active>>
  BY <1>1, Zenon DEF PoolInv, Exclusive, OwnedBy, RemovedForGood, RetryOnFreshSidecar
<1>2. ASSUME NEW c \in Callers, Begin(c) \/ HandshakeOk(c) \/ Store(c) \/ CallSend(c) PROVE PoolInv'
  BY <1>2, MoveKeepsPool, Zenon DEF Begin, HandshakeOk, Store, CallSend, CallerState, HasSidecar, Unpooled, pool
<1>3. ASSUME NEW c \in Callers, Reject(c) \/ AnswerOk(c) \/ GiveUp(c) PROVE PoolInv'
  BY <1>3, MoveKeepsPool, Zenon DEF Reject, AnswerOk, GiveUp, Return, CallerState, HasSidecar, Unpooled, pool
<1>4. ASSUME NEW c \in Delegates, Retry(c) PROVE PoolInv'
  BY <1>4, MoveKeepsPool, Zenon DEF Retry, CallerState, HasSidecar, Unpooled, pool, Callers
<1>5. ASSUME NEW c \in Callers, SpawnFail(c) \/ HandshakeFail(c) \/ CallLost(c) \/ AwaitFail(c) \/ AnswerError(c)
      PROVE  PoolInv'
  BY <1>5, FailedKeepsPool, Zenon DEF SpawnFail, HandshakeFail, CallLost, AwaitFail, AnswerError, pool
<1>6. ASSUME NEW c \in Callers, GetReuse(c) PROVE PoolInv'
  <2> USE <1>6 DEF GetReuse, PoolInv, CallersOK, pool
  <2>1. Exclusive'
    BY Zenon DEF Exclusive, OwnedBy, Unpooled
  <2>2. RemovedForGood'
    BY DEF RemovedForGood
  <2>3. RetryOnFreshSidecar'
    BY DEF RetryOnFreshSidecar, RemovedForGood
  <2> QED BY <2>1, <2>2, <2>3, Zenon
<1>7. ASSUME NEW c \in Callers, GetStart(c) PROVE PoolInv'
  <2> USE <1>7, ProcsAssumption DEF GetStart, PoolInv, CallersOK, Procs, NoProc
  <2>1. Exclusive'
    BY DEF Exclusive, OwnedBy, Unpooled, HasSidecar
  <2>2. RemovedForGood'
    BY DEF RemovedForGood
  <2>3. RetryOnFreshSidecar'
    BY DEF RetryOnFreshSidecar
  <2> QED BY <2>1, <2>2, <2>3, Zenon
<1>8. ASSUME NEW c \in Callers, Spawn(c) PROVE PoolInv'
  <2> USE <1>8, ProcsAssumption DEF Spawn, PoolInv, CallersOK, PoolOK, ProcsOK, Known, Procs, NoProc, pool
  <2>1. Exclusive'
    <3>1. OwnedBy(c)'
      BY DEF OwnedBy
    <3>2. ASSUME NEW d \in Callers \ {c}, pc'[d] \in Unpooled PROVE OwnedBy(d)'
      <4>1. OwnedBy(d) /\ ag[d] <= spawned /\ ag'[d] = ag[d] /\ ag'[c] = spawned + 1
        BY <3>2, Zenon DEF Exclusive
      <4> QED BY <4>1 DEF OwnedBy
    <3> QED BY <3>1, <3>2, Zenon DEF Exclusive
  <2>2. RemovedForGood'
    BY DEF RemovedForGood
  <2>3. RetryOnFreshSidecar'
    BY DEF RetryOnFreshSidecar, Callers
  <2> QED BY <2>1, <2>2, <2>3, Zenon
<1>9. ASSUME NEW c \in Callers, Cache(c) PROVE PoolInv'
  <2> USE <1>9 DEF Cache, PoolInv, CallersOK
  <2>1. OwnedBy(c)
    BY Zenon DEF Exclusive, Unpooled
  <2>2. Exclusive'
    BY <2>1, Zenon DEF Exclusive, OwnedBy, Unpooled
  <2>3. RemovedForGood'
    BY <2>1, Zenon DEF RemovedForGood, OwnedBy, Callers
  <2>4. RetryOnFreshSidecar'
    BY DEF RetryOnFreshSidecar
  <2> QED BY <2>2, <2>3, <2>4, Zenon
<1>10. ASSUME NEW c \in Delegates, RemoveSidecar(c) PROVE PoolInv'
  <2> USE <1>10, ProcsAssumption DEF PoolInv, CallersOK, Procs, NoProc
  <2>1. /\ active' = NoProc /\ UNCHANGED <<ag, firstTry>>
        /\ pc' = [pc EXCEPT ![c] = "get"] \/ pc' = [pc EXCEPT ![c] = "removing"]
    BY Zenon DEF RemoveSidecar
  <2>2. Exclusive'
    BY <2>1 DEF Exclusive, OwnedBy, Unpooled, HasSidecar
  <2>3. RemovedForGood'
    BY <2>1 DEF RemovedForGood
  <2>4. \A d \in Delegates : pc'[d] \in HasSidecar => pc[d] \in HasSidecar
    BY <2>1, Zenon DEF HasSidecar, Callers
  <2>5. RetryOnFreshSidecar'
    BY <2>1, <2>4, Zenon DEF RetryOnFreshSidecar, HasSidecar
  <2> QED BY <2>2, <2>3, <2>5, Zenon
<1>11. CASE Shutdown
  <2> USE <1>11, ProcsAssumption DEF Shutdown, callerVars, PoolInv, CallersOK, Procs, NoProc
  <2>1. Exclusive'
    BY DEF Exclusive, OwnedBy, Unpooled, HasSidecar
  <2>2. RemovedForGood'
    BY DEF RemovedForGood
  <2>3. RetryOnFreshSidecar'
    BY Zenon DEF RetryOnFreshSidecar
  <2> QED BY <2>1, <2>2, <2>3, Zenon
<1>12. ASSUME NEW c \in Callers, CtxEnd(c) PROVE PoolInv'
  BY <1>1, <1>12, Zenon DEF CtxEnd, pool
<1>13. ASSUME NEW p \in Procs, Crash(p) \/ CtxKill(p) \/ Reap(p) PROVE PoolInv'
  BY <1>1, <1>13, Zenon DEF Crash, CtxKill, Reap, callerVars, pool
<1>14. ASSUME NEW k \in Closers, Close(k) PROVE PoolInv'
  BY <1>1, <1>14, Zenon DEF Close, ShutDrain, ShutClose, ShutReaped, ShutTimeout, Stop, callerVars, pool
<1>15. CASE UNCHANGED vars
  BY <1>1, <1>15, Zenon DEF vars, callerVars, pool
<1>16. Delegates \subseteq Callers
  BY Zenon DEF Callers
<1> HIDE DEF PoolInv
<1> QED BY <1>2, <1>3, <1>4, <1>5, <1>6, <1>7, <1>8, <1>9, <1>10, <1>11, <1>12, <1>13, <1>14, <1>15, <1>16, Zenon
        DEF Next, Attempt

\* Nobody holds a process that has not been spawned.
LEMMA KnownStep == TypeOK /\ Known /\ [Next]_vars => Known'
<1> SUFFICES ASSUME CallersOK, PoolOK, ProcsOK, ClosersOK, Known, [Next]_vars PROVE Known'
  BY TypeParts, Zenon
<1> USE ProcsAssumption DEF Known
<1>1. CASE UNCHANGED <<ag, firstTry, active, processes, spawned, shut>>
  BY <1>1, Zenon
<1>2. ASSUME NEW c \in Callers, SpawnFail(c) \/ HandshakeFail(c) \/ CallLost(c) \/ AwaitFail(c) \/ AnswerError(c)
      PROVE  Known'
  BY <1>2, FailedEffect DEF SpawnFail, HandshakeFail, CallLost, AwaitFail, AnswerError, pool, procVars
<1>3. ASSUME NEW c \in Callers, GetReuse(c) \/ Store(c) \/ Cache(c) PROVE Known'
  BY <1>3, Zenon DEF GetReuse, Store, Cache, CallersOK, pool, procVars
<1>4. ASSUME NEW c \in Callers, Spawn(c) PROVE Known'
  <2>1. spawned' = spawned + 1 /\ spawned \in Nat /\ UNCHANGED <<firstTry, active, processes, shut>>
    BY <1>4 DEF Spawn, ProcsOK, pool
  <2>2. \A p \in Procs \cup {NoProc, -1} : p <= spawned => p <= spawned'
    BY <2>1 DEF Procs, NoProc
  <2>3. \A d \in Callers : ag'[d] <= spawned'
    BY <1>4, <2>1, <2>2 DEF Spawn, CallersOK
  <2>4. \A d \in Callers : firstTry'[d] <= spawned'
    BY <2>1, <2>2, Zenon DEF CallersOK
  <2>5. active' <= spawned' /\ processes' <= spawned'
    BY <2>1, <2>2, Zenon DEF PoolOK
  <2>6. \A k \in Closers : shut[k].of \in Procs \cup {NoProc}
    BY Zenon DEF ClosersOK, CloserState
  <2>7. \A k \in Closers : shut'[k].of <= spawned'
    BY <2>1, <2>2, <2>6, Zenon
  <2> QED BY <2>3, <2>4, <2>5, <2>7, Zenon
<1>5. ASSUME NEW k \in Closers, active # NoProc, shut' = [shut EXCEPT ![k] = Draining(shut[k], active)]
      PROVE  \A j \in Closers : shut'[j].of <= spawned
  <2>1. shut[k] \in CloserState /\ active \in Procs
    BY <1>5, Zenon DEF ClosersOK, PoolOK
  <2>2. Draining(shut[k], active).of = active
    BY <2>1, DrainingTyped, Zenon
  <2> QED BY <1>5, <2>2, Zenon DEF ClosersOK
<1>6. ASSUME NEW c \in Callers, GetStart(c) PROVE Known'
  <2>1. \A j \in Closers : shut'[j].of <= spawned
    BY <1>5, <1>6, Zenon DEF GetStart, Draining, PoolOK, Closers
  <2> QED BY <1>6, <2>1 DEF GetStart, CallersOK, ProcsOK, NoProc, procVars
<1>7. ASSUME NEW c \in Delegates, RemoveSidecar(c) PROVE Known'
  <2>1. \A j \in Closers : shut'[j].of <= spawned
    BY <1>5, <1>7, Zenon DEF RemoveSidecar, Draining, Closers
  <2> QED BY <1>7, <2>1 DEF RemoveSidecar, ProcsOK, NoProc, procVars
<1>8. ASSUME NEW k \in Closers, NEW s, shut' = [shut EXCEPT ![k].step = s]
      PROVE  \A j \in Closers : shut'[j].of <= spawned
  BY <1>8, Zenon DEF ClosersOK, CloserState
<1>9. ASSUME NEW k \in Closers, ShutDrain(k) \/ ShutClose(k) \/ ShutReaped(k) \/ ShutTimeout(k) PROVE Known'
  <2>1. \E s : shut' = [shut EXCEPT ![k].step = s]
    BY <1>9, Zenon DEF ShutDrain, ShutClose, ShutReaped, ShutTimeout, AfterShut
  <2>2. \A j \in Closers : shut'[j].of <= spawned
    BY <1>8, <2>1, Zenon
  <2> QED BY <1>9, <2>2, Zenon DEF ShutDrain, ShutClose, ShutReaped, ShutTimeout, callerVars, pool, procVars
<1>10. ASSUME NEW k \in Closers, Stop(k) PROVE Known'
  <2>1. \A j \in Closers : shut'[j].of <= spawned
    <3>1. CASE processes = NoProc
      <4>1. shut' = [shut EXCEPT ![k].step = "done"]
        BY <1>10, <3>1, Zenon DEF Stop
      <4> QED BY <1>8, <4>1, Zenon
    <3>2. CASE processes # NoProc
      BY <1>10, <3>2, Zenon DEF Stop, ClosersOK
    <3> QED BY <3>1, <3>2, Zenon
  <2> QED BY <1>10, <2>1 DEF Stop, callerVars, procVars, ProcsOK, NoProc
<1>11. CASE Shutdown
  <2>1. \E s : shut' = [shut EXCEPT ![Main].step = s]
    BY <1>11, Zenon DEF Shutdown
  <2>2. \A j \in Closers : shut'[j].of <= spawned
    BY <1>8, <2>1, Zenon DEF Closers
  <2> QED BY <1>11, <2>2 DEF Shutdown, callerVars, procVars, ProcsOK, NoProc
<1>12. ASSUME NEW c \in Callers,
             \/ Begin(c) \/ Reject(c) \/ CtxEnd(c) \/ HandshakeOk(c) \/ CallSend(c) \/ AnswerOk(c)
      PROVE  UNCHANGED <<ag, firstTry, active, processes, spawned, shut>>
  BY <1>12, Zenon DEF Begin, Reject, CtxEnd, HandshakeOk, CallSend, AnswerOk, pool, procVars
<1>13. ASSUME NEW c \in Delegates, GiveUp(c) \/ Retry(c)
      PROVE  UNCHANGED <<ag, firstTry, active, processes, spawned, shut>>
  BY <1>13, Zenon DEF GiveUp, Retry, pool, procVars
<1>14. ASSUME NEW p \in Procs, Crash(p) \/ CtxKill(p) \/ Reap(p)
      PROVE  UNCHANGED <<ag, firstTry, active, processes, spawned, shut>>
  BY <1>14, Zenon DEF Crash, CtxKill, Reap, callerVars, pool
<1>15. ASSUME UNCHANGED vars PROVE UNCHANGED <<ag, firstTry, active, processes, spawned, shut>>
  BY <1>15, Zenon DEF vars, callerVars, pool, procVars
<1> HIDE DEF Known
<1> QED BY <1>1, <1>2, <1>3, <1>4, <1>6, <1>7, <1>9, <1>10, <1>11, <1>12, <1>13, <1>14, <1>15, Zenon
        DEF Next, Attempt, Close

\* The facts about the pool hold of an orchestrator without sidecars.
LEMMA InitFresh == Init => Known /\ PoolInv
<1> SUFFICES ASSUME Init PROVE Known /\ PoolInv
  BY Zenon
<1>1. Known
  BY DEF Init, Known, NoProc
<1>2. PoolInv
  BY ProcsAssumption DEF Init, PoolInv, Exclusive, Unpooled, RemovedForGood, RetryOnFreshSidecar, Procs, Callers
<1> QED BY <1>1, <1>2, Zenon

\* A Delegate's retry never runs on the sidecar its first attempt failed on, for
\* every number of concurrent invocations, crashes and shutdowns.
THEOREM RetriesAreFresh == Spec => []RetryOnFreshSidecar
<1>1. Spec => [](Known /\ PoolInv)
  BY InitFresh, KnownStep, PoolInvStep, TypeCorrect, PTL DEF Spec
<1>2. PoolInv => RetryOnFreshSidecar
  BY Zenon DEF PoolInv
<1> QED BY <1>1, <1>2, PTL

-----------------------------------------------------------------------------
(* What the handshake and Shutdown guarantee. *)
HandshakeInv ==
  /\ PublishedAfterHandshake
  /\ \A c \in Callers : pc[c] \in {"store", "cache"} => life[ag[c]] # "starting"

\* A sidecar that left starting never comes back to it.
LEMMA LifeLeavesStarting ==
  ASSUME TypeOK, [Next]_vars, NEW p \in Procs, life[p] # "starting"
  PROVE  life'[p] # "starting"
  BY LifeSteps, Transitions DEF TypeOK

\* A sidecar is in the runner's map or in the pool only after its initialize
\* handshake succeeded, however many callers start sidecars at once.
THEOREM PublishedLate == Spec => []PublishedAfterHandshake
<1>1. Init => HandshakeInv
  BY ProcsAssumption DEF Init, HandshakeInv, PublishedAfterHandshake, Procs, NoProc
<1>2. TypeOK /\ HandshakeInv /\ [Next]_vars => HandshakeInv'
  <2> SUFFICES ASSUME TypeOK, HandshakeInv, [Next]_vars PROVE HandshakeInv'
    BY Zenon
  <2>1. CallersOK /\ PoolOK /\ \A p \in Procs : life[p] # "starting" => life'[p] # "starting"
    BY TypeParts, LifeLeavesStarting, Zenon
  <2>2. ASSUME NEW c \in Callers, HandshakeOk(c) PROVE HandshakeInv'
    <3>1. ag[c] \in Procs /\ life'[ag[c]] # "starting"
      BY <2>2, Transitions DEF HandshakeOk, TypeOK
    <3> QED BY <2>1, <2>2, <3>1, Zenon DEF HandshakeOk, HandshakeInv, PublishedAfterHandshake, CallersOK, HasSidecar, pool
  <2>3. ASSUME NEW c \in Callers, Store(c) \/ Cache(c) PROVE HandshakeInv'
    BY <2>1, <2>3, Zenon DEF Store, Cache, HandshakeInv, PublishedAfterHandshake, CallersOK, HasSidecar
  <2>4. ASSUME UNCHANGED ag, processes' \in {processes, NoProc}, active' \in {active, NoProc},
               \A c \in Callers : pc'[c] \in {"store", "cache"} => pc[c] \in {"store", "cache"}
        PROVE  HandshakeInv'
    BY <2>1, <2>4, ProcsAssumption DEF HandshakeInv, PublishedAfterHandshake, CallersOK, HasSidecar, Procs, NoProc
  <2>5. ASSUME NEW c \in Callers, \A d \in Callers \ {c} : pc'[d] = pc[d] /\ ag'[d] = ag[d],
               pc'[c] \notin {"store", "cache"}, UNCHANGED processes, active' \in {active, NoProc}
        PROVE  HandshakeInv'
    BY <2>1, <2>5, ProcsAssumption DEF HandshakeInv, PublishedAfterHandshake, CallersOK, HasSidecar, Procs, NoProc
  <2>6. ASSUME NEW c \in Callers,
               SpawnFail(c) \/ HandshakeFail(c) \/ CallLost(c) \/ AwaitFail(c) \/ AnswerError(c)
        PROVE  HandshakeInv'
    BY <2>1, <2>5, <2>6, FailedEffect, Zenon DEF SpawnFail, HandshakeFail, CallLost, AwaitFail, AnswerError, pool
  <2>7. ASSUME NEW c \in Callers, Reject(c) \/ AnswerOk(c) \/ GiveUp(c) PROVE HandshakeInv'
    BY <2>1, <2>5, <2>7, Zenon DEF Reject, AnswerOk, GiveUp, Return, pool, CallersOK
  <2>8. ASSUME NEW c \in Callers, Begin(c) \/ GetReuse(c) \/ GetStart(c) \/ Spawn(c) \/ CallSend(c)
        PROVE  HandshakeInv'
    BY <2>1, <2>5, <2>8, Zenon DEF Begin, GetReuse, GetStart, Spawn, CallSend, pool, CallersOK
  <2>9. ASSUME NEW c \in Callers, RemoveSidecar(c) \/ Retry(c) PROVE HandshakeInv'
    BY <2>1, <2>5, <2>9, Zenon DEF RemoveSidecar, Retry, pool, CallersOK
  <2>10. ASSUME NEW c \in Callers, CtxEnd(c) PROVE HandshakeInv'
    BY <2>4, <2>10, Zenon DEF CtxEnd, pool
  <2>11. ASSUME NEW p \in Procs, Crash(p) \/ CtxKill(p) \/ Reap(p) PROVE HandshakeInv'
    BY <2>4, <2>11, Zenon DEF Crash, CtxKill, Reap, callerVars, pool
  <2>12. ASSUME NEW k \in Closers, Close(k) PROVE HandshakeInv'
    BY <2>4, <2>12, Zenon DEF Close, ShutDrain, ShutClose, ShutReaped, ShutTimeout, Stop, callerVars, pool
  <2>13. CASE Shutdown \/ UNCHANGED vars
    BY <2>4, <2>13, Zenon DEF Shutdown, vars, callerVars, pool
  <2>14. Delegates \subseteq Callers
    BY Zenon DEF Callers
  <2> QED BY <2>2, <2>3, <2>6, <2>7, <2>8, <2>9, <2>10, <2>11, <2>12, <2>13, <2>14, Zenon DEF Next, Attempt
<1>3. HandshakeInv => PublishedAfterHandshake
  BY Zenon DEF HandshakeInv
<1> QED BY <1>1, <1>2, <1>3, TypeCorrect, PTL DEF Spec

\* Only Spawn makes a process run, and always a new one.
LEMMA UpSteps ==
  ASSUME TypeOK, [Next]_vars, NEW p \in Procs, os'[p] = "up", os[p] # "up"
  PROVE  p = spawned + 1 /\ \E c \in Callers : Spawn(c)
<1> USE DEF TypeOK
<1>1. ASSUME UNCHANGED os PROVE FALSE
  BY <1>1, Zenon
<1>2. ASSUME NEW q, Exit(q) PROVE FALSE
  BY <1>2, Zenon DEF Exit
<1>3. ASSUME NEW c \in Callers, Spawn(c) PROVE p = spawned + 1
  BY <1>3, Zenon DEF Spawn
<1>4. ASSUME NEW q \in Procs, Reap(q) PROVE FALSE
  BY <1>4, Zenon DEF Reap
<1>5. ASSUME NEW c \in Callers,
             \/ Begin(c) \/ Reject(c) \/ CtxEnd(c) \/ GetReuse(c) \/ GetStart(c) \/ SpawnFail(c) \/ HandshakeOk(c)
             \/ Store(c) \/ Cache(c) \/ CallSend(c) \/ CallLost(c) \/ AwaitFail(c) \/ AnswerOk(c) \/ AnswerError(c)
      PROVE  UNCHANGED os
  BY <1>5, Zenon DEF Begin, Reject, CtxEnd, GetReuse, GetStart, SpawnFail, HandshakeOk, Store, Cache, CallSend, CallLost,
       AwaitFail, AnswerOk, AnswerError, procVars
<1>6. ASSUME NEW c \in Delegates, GiveUp(c) \/ RemoveSidecar(c) \/ Retry(c) PROVE UNCHANGED os
  BY <1>6, Zenon DEF GiveUp, RemoveSidecar, Retry, procVars
<1>7. ASSUME NEW k \in Closers, ShutDrain(k) \/ ShutClose(k) \/ ShutReaped(k) \/ Stop(k) PROVE UNCHANGED os
  BY <1>7, Zenon DEF ShutDrain, ShutClose, ShutReaped, Stop, procVars
<1>8. ASSUME NEW k \in Closers, ShutTimeout(k) PROVE FALSE
  BY <1>2, <1>8, Zenon DEF ShutTimeout
<1>9. ASSUME NEW q \in Procs, Crash(q) \/ CtxKill(q) PROVE FALSE
  BY <1>2, <1>9, Zenon DEF Crash, CtxKill
<1>10. ASSUME NEW c \in Callers, HandshakeFail(c) PROVE FALSE
  BY <1>2, <1>10, Zenon DEF HandshakeFail
<1>11. ASSUME Shutdown \/ UNCHANGED vars PROVE UNCHANGED os
  BY <1>11, Zenon DEF Shutdown, vars, procVars
<1> QED BY <1>1, <1>3, <1>4, <1>5, <1>6, <1>7, <1>8, <1>9, <1>10, <1>11, Zenon DEF Next, Attempt, Close

DeadInv ==
  /\ ShutdownLeavesDead
  /\ \A k \in Closers : shut[k].step = "idle" => shut[k].of = NoProc

\* Every step keeps what Shutdown has left dead.
LEMMA DeadStep == TypeOK /\ Known /\ DeadInv /\ [Next]_vars => DeadInv'
<1> SUFFICES ASSUME TypeOK, Known, DeadInv, [Next]_vars PROVE DeadInv'
  BY Zenon
<1> USE DEF DeadInv, ShutdownLeavesDead
<1>1. ClosersOK /\ PoolOK /\ ProcsOK
  BY TypeParts, Zenon
<1>2. \A k \in Closers : shut[k].of \in Procs /\ os[shut[k].of] # "up" => os'[shut[k].of] # "up"
  BY <1>1, UpSteps, ProcsAssumption DEF Known, Procs, ProcsOK
<1>3. CASE UNCHANGED shut
  BY <1>2, <1>3, Zenon
<1>4. ASSUME NEW k \in Closers, \A j \in Closers \ {k} : shut'[j] = shut[j],
             shut'[k].step \in {"drain", "close", "wait"}
      PROVE  DeadInv'
  BY <1>2, <1>4, Zenon
<1>5. ASSUME NEW k \in Closers, \A j \in Closers \ {k} : shut'[j] = shut[j],
             shut'[k].step # "idle", shut'[k].of = shut[k].of, shut[k].of \in Procs => os'[shut[k].of] # "up"
      PROVE  DeadInv'
  BY <1>2, <1>5, Zenon
<1>6. ASSUME NEW k \in Closers, NEW s \in {"close", "wait", "stop", "done"}, shut' = [shut EXCEPT ![k].step = s]
      PROVE  /\ \A j \in Closers \ {k} : shut'[j] = shut[j]
             /\ shut'[k].step = s /\ shut'[k].of = shut[k].of
  BY <1>1, <1>6, Zenon DEF ClosersOK, CloserState
<1>7. ASSUME NEW k \in Closers, active # NoProc, shut' = [shut EXCEPT ![k] = Draining(shut[k], active)]
      PROVE  DeadInv'
  <2>1. shut[k] \in CloserState /\ active \in Procs
    BY <1>1, <1>7, Zenon DEF ClosersOK, PoolOK
  <2>2. Draining(shut[k], active).step = "drain"
    BY <2>1, DrainingTyped, Zenon
  <2> QED BY <1>1, <1>4, <1>7, <2>2, Zenon DEF ClosersOK
<1>8. ASSUME NEW c \in Callers, GetStart(c) PROVE DeadInv'
  BY <1>1, <1>3, <1>7, <1>8, Zenon DEF GetStart, Draining, PoolOK, Closers
<1>9. ASSUME NEW c \in Delegates, RemoveSidecar(c) PROVE DeadInv'
  BY <1>3, <1>7, <1>9, Zenon DEF RemoveSidecar, Draining, Closers
<1>10. ASSUME NEW k \in Closers, ShutDrain(k) \/ ShutClose(k) PROVE DeadInv'
  <2>1. PICK s \in {"close", "wait"} : shut' = [shut EXCEPT ![k].step = s]
    BY <1>10, Zenon DEF ShutDrain, ShutClose
  <2> QED BY <1>4, <1>6, <2>1, Zenon
<1>11. ASSUME NEW k \in Closers, ShutReaped(k) \/ ShutTimeout(k) PROVE DeadInv'
  <2>1. PICK s \in {"stop", "done"} : shut' = [shut EXCEPT ![k].step = s]
    BY <1>11, Zenon DEF ShutReaped, ShutTimeout, AfterShut
  <2>2. shut[k].of \in Procs /\ os'[shut[k].of] # "up"
    BY <1>1, <1>11, Zenon DEF ShutReaped, ShutTimeout, Exit, ClosersOK, ProcsOK, procVars
  <2> QED BY <1>5, <1>6, <2>1, <2>2, Zenon
<1>12. ASSUME NEW k \in Closers, Stop(k) PROVE DeadInv'
  <2>1. CASE processes = NoProc
    <3>1. shut' = [shut EXCEPT ![k].step = "done"] /\ shut[k].step = "stop"
      BY <1>12, <2>1, Zenon DEF Stop
    <3>2. shut[k].of \in Procs => os'[shut[k].of] # "up"
      BY <1>2, <3>1, Zenon
    <3> QED BY <1>5, <1>6, <3>1, <3>2, Zenon
  <2>2. CASE processes # NoProc
    <3>1. shut'[k].step = "drain" /\ \A j \in Closers \ {k} : shut'[j] = shut[j]
      BY <1>1, <1>12, <2>2, Zenon DEF Stop, ClosersOK
    <3> QED BY <1>4, <3>1, Zenon
  <2> QED BY <2>1, <2>2, Zenon
<1>13. CASE Shutdown
  <2>1. PICK s \in {"stop", "done"} : shut' = [shut EXCEPT ![Main].step = s]
    BY <1>13, Zenon DEF Shutdown
  <2>2. Main \in Closers /\ shut[Main].of = NoProc
    BY <1>13, Zenon DEF Shutdown, Closers
  <2>3. shut[Main].of \notin Procs
    BY <2>2, ProcsAssumption DEF Procs, NoProc
  <2>4. /\ \A j \in Closers \ {Main} : shut'[j] = shut[j]
        /\ shut'[Main].step = s /\ shut'[Main].of = shut[Main].of
    BY <1>6, <2>1, <2>2, Zenon
  <2> HIDE DEF DeadInv
  <2> QED BY <1>5, <2>1, <2>2, <2>3, <2>4, Zenon
<1>14. ASSUME NEW c \in Callers,
             \/ Begin(c) \/ Reject(c) \/ CtxEnd(c) \/ GetReuse(c) \/ Spawn(c) \/ SpawnFail(c) \/ HandshakeOk(c)
             \/ HandshakeFail(c) \/ Store(c) \/ Cache(c) \/ CallSend(c) \/ CallLost(c) \/ AwaitFail(c)
             \/ AnswerOk(c) \/ AnswerError(c)
      PROVE  UNCHANGED shut
  BY <1>14, Zenon DEF Begin, Reject, CtxEnd, GetReuse, Spawn, SpawnFail, HandshakeOk, HandshakeFail, Store, Cache,
       CallSend, CallLost, AwaitFail, AnswerOk, AnswerError
<1>15. ASSUME NEW c \in Delegates, GiveUp(c) \/ Retry(c) PROVE UNCHANGED shut
  BY <1>15, Zenon DEF GiveUp, Retry
<1>16. ASSUME NEW p \in Procs, Crash(p) \/ CtxKill(p) \/ Reap(p) PROVE UNCHANGED shut
  BY <1>16, Zenon DEF Crash, CtxKill, Reap
<1>17. CASE UNCHANGED vars
  BY <1>3, <1>17, Zenon DEF vars
<1> HIDE DEF DeadInv
<1> QED BY <1>3, <1>8, <1>9, <1>10, <1>11, <1>12, <1>13, <1>14, <1>15, <1>16, <1>17, Zenon DEF Next, Attempt, Close

\* When processAgent.Shutdown has returned, the process it stopped is not
\* running: it exited or was killed at the timeout, and nothing revives it.
THEOREM ShutdownKills == Spec => []ShutdownLeavesDead
<1>1. Init => DeadInv
  BY DEF Init, DeadInv, ShutdownLeavesDead
<1>2. Spec => [](Known /\ PoolInv)
  BY InitFresh, KnownStep, PoolInvStep, TypeCorrect, PTL DEF Spec
<1>3. DeadInv => ShutdownLeavesDead
  BY Zenon DEF DeadInv
<1> QED BY <1>1, <1>2, <1>3, DeadStep, TypeCorrect, PTL DEF Spec

-----------------------------------------------------------------------------
(* One invocation at a time.                                               *)

Busy(c) == pc[c] \notin {"idle", "returned"}

\* A Delegate that is stopping p before its retry.
Removes(c, p) ==
  pc[c] = "removing" /\ shut[c].step \in {"drain", "close", "wait"} /\ shut[c].of = p

\* Who answers for a running process before Orchestrator.Shutdown.
Kept(p) ==
  \/ p = active
  \/ \E c \in Callers : pc[c] \in Unpooled /\ ag[c] = p
  \/ \E c \in Delegates : Removes(c, p)

OneBusy  == \A c, d \in Callers : Busy(c) /\ Busy(d) => c = d
Emptied  == \A c \in Callers : pc[c] \in Unpooled \cup {"spawn", "removing"} => active = NoProc
AllKept  == shut[Main].step = "idle" => \A p \in Procs : os[p] = "up" => Kept(p)
LastShut == shut[Main].step # "idle" => \A c \in Callers : pc[c] = "returned"
OneUp    == \A p, q \in Procs : os[p] = "up" /\ os[q] = "up" => p = q

\* What a step does to the callers' places, as far as the facts above see it.
LEMMA PcSteps ==
  ASSUME TypeOK, [Next]_vars
  PROVE  \/ UNCHANGED pc
         \/ \E c \in Callers : Begin(c)
         \/ \E c \in Callers : /\ pc[c] # "returned" /\ (pc[c] = "idle" => pc'[c] = "returned")
                               /\ \A d \in Callers \ {c} : pc'[d] = pc[d]
<1> DEFINE Moves == \E c \in Callers : /\ pc[c] # "returned" /\ (pc[c] = "idle" => pc'[c] = "returned")
                                       /\ \A d \in Callers \ {c} : pc'[d] = pc[d]
<1>1. CallersOK
  BY TypeParts, Zenon
<1>2. ASSUME NEW c \in Callers,
             \/ Reject(c) \/ GetReuse(c) \/ GetStart(c) \/ Spawn(c) \/ HandshakeOk(c) \/ Store(c) \/ Cache(c)
             \/ CallSend(c) \/ AnswerOk(c)
      PROVE  Moves
  BY <1>1, <1>2, Zenon DEF Reject, GetReuse, GetStart, Spawn, HandshakeOk, Store, Cache, CallSend, AnswerOk, Return, CallersOK
<1>3. ASSUME NEW c \in Callers,
             SpawnFail(c) \/ HandshakeFail(c) \/ CallLost(c) \/ AwaitFail(c) \/ AnswerError(c)
      PROVE  Moves
  <2>1. Failed(c) /\ pc[c] \in {"spawn", "handshake", "call", "await"}
    BY <1>3, Zenon DEF SpawnFail, HandshakeFail, CallLost, AwaitFail, AnswerError
  <2> QED BY <1>1, <2>1, FailedEffect, Zenon
<1>4. ASSUME NEW c \in Delegates, GiveUp(c) \/ RemoveSidecar(c) \/ Retry(c) PROVE Moves
  BY <1>1, <1>4, Zenon DEF GiveUp, RemoveSidecar, Retry, Return, CallersOK, Callers
<1>5. ASSUME NEW p \in Procs, Crash(p) \/ CtxKill(p) \/ Reap(p) PROVE UNCHANGED pc
  BY <1>5, Zenon DEF Crash, CtxKill, Reap, callerVars
<1>6. ASSUME NEW k \in Closers, Close(k) PROVE UNCHANGED pc
  BY <1>6, Zenon DEF Close, ShutDrain, ShutClose, ShutReaped, ShutTimeout, Stop, callerVars
<1>7. ASSUME Shutdown \/ UNCHANGED vars \/ \E c \in Callers : CtxEnd(c) PROVE UNCHANGED pc
  BY <1>7, Zenon DEF Shutdown, CtxEnd, vars, callerVars
<1> QED BY <1>2, <1>3, <1>4, <1>5, <1>6, <1>7, Zenon DEF Next, Attempt

\* Begin waits until no invocation is in progress.
LEMMA BeginAlone ==
  ASSUME MaxConcurrent = 1, TypeOK, NEW c \in Callers, Begin(c)
  PROVE  \A d \in Callers : ~Busy(d)
<1>1. InProgress \subseteq Callers /\ IsFiniteSet(Callers)
  BY CallersAssumption, Zenon DEF InProgress, Callers
<1>2. IsFiniteSet(InProgress)
  BY <1>1, FS_Subset, Zenon
<1>3. Cardinality(InProgress) \in Nat /\ Cardinality(InProgress) < 1
  BY <1>2, FS_CardinalityType, Zenon DEF Begin
<1>4. InProgress = {}
  BY <1>2, <1>3, FS_EmptySet
<1> QED BY <1>4, Zenon DEF InProgress, Busy

\* Invocations stay one after another.
LEMMA OneBusyStep ==
  ASSUME MaxConcurrent = 1, TypeOK, OneBusy, [Next]_vars
  PROVE  OneBusy'
<1> USE DEF OneBusy, Busy
<1>1. CASE UNCHANGED pc
  BY <1>1, Zenon
<1>2. ASSUME NEW c \in Callers, Begin(c) PROVE OneBusy'
  <2>1. \A d \in Callers \ {c} : pc'[d] = pc[d]
    BY <1>2, TypeParts, Zenon DEF Begin, CallersOK
  <2> QED BY <1>2, <2>1, BeginAlone, Zenon
<1>3. ASSUME NEW c \in Callers, pc[c] # "returned", pc[c] = "idle" => pc'[c] = "returned",
             \A d \in Callers \ {c} : pc'[d] = pc[d]
      PROVE  OneBusy'
  BY <1>3, Zenon
<1> QED BY <1>1, <1>2, <1>3, PcSteps, Zenon

\* Once Shutdown has begun no invocation is under way.
LEMMA LastShutStep ==
  ASSUME QuietShutdown, TypeOK, LastShut, [Next]_vars
  PROVE  LastShut'
<1> USE DEF LastShut
<1>1. CASE shut[Main].step # "idle"
  BY <1>1, PcSteps, Zenon DEF Begin
<1>2. CASE shut[Main].step = "idle"
  <2>1. Main \in Closers /\ Main \notin Delegates \cup Procs
    BY CallersAssumption, ProcsAssumption DEF Closers, Procs
  <2>2. CASE Shutdown
    BY <2>2, Zenon DEF Shutdown, callerVars
  <2>3. ASSUME NEW k \in Closers, Close(k) PROVE shut'[Main] = shut[Main]
    <3>1. k # Main
      BY <1>2, <2>3, Zenon DEF Close, ShutDrain, ShutClose, ShutReaped, ShutTimeout, Stop
    <3> QED BY <2>1, <2>3, <3>1, TypeParts, Zenon
          DEF Close, ShutDrain, ShutClose, ShutReaped, ShutTimeout, AfterShut, Stop, ClosersOK
  <2>4. ASSUME NEW c \in Callers, GetStart(c) PROVE shut'[Main] = shut[Main]
    BY <2>1, <2>4, TypeParts, Zenon DEF GetStart, ClosersOK, PoolOK
  <2>5. ASSUME NEW c \in Delegates, RemoveSidecar(c) PROVE shut'[Main] = shut[Main]
    BY <2>1, <2>5, TypeParts, Zenon DEF RemoveSidecar, ClosersOK
  <2>6. ASSUME NEW c \in Callers,
               \/ Begin(c) \/ Reject(c) \/ CtxEnd(c) \/ GetReuse(c) \/ Spawn(c) \/ SpawnFail(c) \/ HandshakeOk(c)
               \/ HandshakeFail(c) \/ Store(c) \/ Cache(c) \/ CallSend(c) \/ CallLost(c) \/ AwaitFail(c)
               \/ AnswerOk(c) \/ AnswerError(c)
        PROVE  UNCHANGED shut
    BY <2>6, Zenon DEF Begin, Reject, CtxEnd, GetReuse, Spawn, SpawnFail, HandshakeOk, HandshakeFail, Store, Cache,
         CallSend, CallLost, AwaitFail, AnswerOk, AnswerError
  <2>7. ASSUME NEW c \in Delegates, GiveUp(c) \/ Retry(c) PROVE UNCHANGED shut
    BY <2>7, Zenon DEF GiveUp, Retry
  <2>8. ASSUME NEW p \in Procs, Crash(p) \/ CtxKill(p) \/ Reap(p) PROVE UNCHANGED shut
    BY <2>8, Zenon DEF Crash, CtxKill, Reap
  <2>9. CASE UNCHANGED vars
    BY <2>9, Zenon DEF vars, callerVars
  <2> QED BY <1>2, <2>2, <2>3, <2>4, <2>5, <2>6, <2>7, <2>8, <2>9, Zenon DEF Next, Attempt
<1> QED BY <1>1, <1>2, Zenon

\* A caller that starts or removes a sidecar has an empty pool.
LEMMA EmptiedStep ==
  ASSUME TypeOK, OneBusy, Emptied, [Next]_vars
  PROVE  Emptied'
<1> USE DEF Emptied, Unpooled
<1>1. CallersOK
  BY TypeParts, Zenon
<1>2. CASE UNCHANGED <<pc, active>>
  BY <1>2, Zenon
<1>3. ASSUME NEW c \in Callers, Begin(c) \/ Reject(c) \/ GetReuse(c) \/ CallSend(c) \/ AnswerOk(c) PROVE Emptied'
  BY <1>1, <1>3, Zenon DEF Begin, Reject, GetReuse, CallSend, AnswerOk, Return, CallersOK, pool
<1>4. ASSUME NEW c \in Callers, GetStart(c) PROVE Emptied'
  BY <1>4, Zenon DEF GetStart
<1>5. ASSUME NEW c \in Callers, Spawn(c) \/ HandshakeOk(c) \/ Store(c) PROVE Emptied'
  BY <1>1, <1>5, Zenon DEF Spawn, HandshakeOk, Store, CallersOK, pool
<1>6. ASSUME NEW c \in Callers, Cache(c) PROVE Emptied'
  <2>1. \A d \in Callers \ {c} : pc'[d] \in {"idle", "returned"}
    BY <1>1, <1>6, Zenon DEF Cache, OneBusy, Busy, CallersOK
  <2> QED BY <1>1, <1>6, <2>1, Zenon DEF Cache, CallersOK
<1>7. ASSUME NEW c \in Callers,
             SpawnFail(c) \/ HandshakeFail(c) \/ CallLost(c) \/ AwaitFail(c) \/ AnswerError(c)
      PROVE  Emptied'
  <2>1. Failed(c) /\ UNCHANGED active
    BY <1>7, Zenon DEF SpawnFail, HandshakeFail, CallLost, AwaitFail, AnswerError, pool
  <2> QED BY <1>1, <2>1, FailedEffect, Zenon
<1>8. ASSUME NEW c \in Delegates, RemoveSidecar(c) PROVE Emptied'
  BY <1>8, Zenon DEF RemoveSidecar
<1>9. ASSUME NEW c \in Delegates, GiveUp(c) \/ Retry(c) PROVE Emptied'
  BY <1>1, <1>9, Zenon DEF GiveUp, Retry, Return, CallersOK, Callers, pool
<1>10. ASSUME NEW p \in Procs, Crash(p) \/ CtxKill(p) \/ Reap(p) PROVE UNCHANGED <<pc, active>>
  BY <1>10, Zenon DEF Crash, CtxKill, Reap, callerVars, pool
<1>11. ASSUME NEW k \in Closers, Close(k) PROVE UNCHANGED <<pc, active>>
  BY <1>11, Zenon DEF Close, ShutDrain, ShutClose, ShutReaped, ShutTimeout, Stop, callerVars, pool
<1>12. CASE Shutdown
  BY <1>12, Zenon DEF Shutdown
<1>13. ASSUME UNCHANGED vars \/ \E c \in Callers : CtxEnd(c) PROVE UNCHANGED <<pc, active>>
  BY <1>13, Zenon DEF CtxEnd, vars, callerVars, pool
<1> HIDE DEF Emptied
<1> QED BY <1>2, <1>3, <1>4, <1>5, <1>6, <1>7, <1>8, <1>9, <1>10, <1>11, <1>12, <1>13, Zenon DEF Next, Attempt

\* A process that keeps running keeps somebody who answers for it, unless
\* Orchestrator.Shutdown empties the pool.
LEMMA KeptStep ==
  ASSUME TypeOK, Emptied, [Next]_vars, ~Shutdown, NEW p \in Procs, os[p] = "up", os'[p] = "up", Kept(p)
  PROVE  Kept(p)'
<1> USE DEF Kept
<1>1. CallersOK /\ ClosersOK /\ ProcsOK /\ PoolOK
  BY TypeParts, Zenon
<1>2. Delegates \cap Procs = {} /\ Delegates \subseteq Callers /\ Delegates \subseteq Closers
  BY CallersAssumption, ProcsAssumption DEF Procs, Callers, Closers
<1>3. CASE UNCHANGED <<pc, ag, active, shut>>
  BY <1>3, Zenon DEF Removes
<1>4. ASSUME NEW c \in Callers, pc[c] \notin Unpooled, pc[c] # "removing", UNCHANGED <<active, shut>>,
             \A d \in Callers \ {c} : pc'[d] = pc[d] /\ ag'[d] = ag[d]
      PROVE  Kept(p)'
  BY <1>2, <1>4, Zenon DEF Removes
<1>5. ASSUME NEW c \in Callers,
             \/ Begin(c) \/ Reject(c) \/ GetReuse(c) \/ Spawn(c) \/ CallSend(c) \/ AnswerOk(c)
      PROVE  Kept(p)'
  <2>1. /\ pc[c] \notin Unpooled /\ pc[c] # "removing" /\ UNCHANGED <<active, shut>>
        /\ \A d \in Callers \ {c} : pc'[d] = pc[d] /\ ag'[d] = ag[d]
    BY <1>1, <1>5, Zenon DEF Begin, Reject, GetReuse, Spawn, CallSend, AnswerOk, Return, CallersOK, Unpooled, pool
  <2> QED BY <1>4, <2>1, Zenon
<1>6. ASSUME NEW c \in Callers, SpawnFail(c) \/ CallLost(c) \/ AwaitFail(c) \/ AnswerError(c) PROVE Kept(p)'
  <2>1. /\ pc[c] \notin Unpooled /\ pc[c] # "removing" /\ UNCHANGED <<active, shut, ag>> /\ Failed(c)
    BY <1>6, Zenon DEF SpawnFail, CallLost, AwaitFail, AnswerError, Unpooled, pool
  <2> QED BY <1>1, <1>4, <2>1, FailedEffect, Zenon
<1>7. ASSUME NEW c \in Callers, HandshakeFail(c) PROVE Kept(p)'
  <2>1. p # ag[c]
    BY <1>1, <1>7, Zenon DEF HandshakeFail, Exit, ProcsOK
  <2>2. pc[c] = "handshake" /\ UNCHANGED <<active, shut, ag>> /\ Failed(c)
    BY <1>7, Zenon DEF HandshakeFail, pool
  <2> QED BY <1>1, <1>2, <2>1, <2>2, FailedEffect, Zenon DEF Removes
<1>8. ASSUME NEW c \in Callers, HandshakeOk(c) \/ Store(c) PROVE Kept(p)'
  <2>1. /\ pc[c] \in Unpooled /\ pc'[c] \in Unpooled /\ UNCHANGED <<active, shut, ag>>
        /\ \A d \in Callers \ {c} : pc'[d] = pc[d]
    BY <1>1, <1>8, Zenon DEF HandshakeOk, Store, Unpooled, CallersOK, pool
  <2> QED BY <1>2, <2>1, Zenon DEF Removes, Unpooled
<1>9. ASSUME NEW c \in Callers, Cache(c) PROVE Kept(p)'
  <2>1. /\ pc[c] = "cache" /\ active = NoProc /\ active' = ag[c] /\ UNCHANGED <<shut, ag>>
        /\ \A d \in Callers \ {c} : pc'[d] = pc[d]
    BY <1>1, <1>9, Zenon DEF Cache, Emptied, Unpooled, CallersOK
  <2>2. p # active
    BY <2>1, ProcsAssumption DEF Procs, NoProc
  <2> QED BY <1>2, <2>1, <2>2, Zenon DEF Removes, Unpooled
<1>10. ASSUME NEW c \in Callers, GetStart(c) PROVE Kept(p)'
  <2>1. p # active
    BY <1>1, <1>10, ProcsAssumption DEF GetStart, isAlive, ProcessExited, Procs, NoProc, PoolOK
  <2>2. /\ pc[c] = "get" /\ \A d \in Callers \ {c} : pc'[d] = pc[d] /\ ag'[d] = ag[d]
    BY <1>1, <1>10, Zenon DEF GetStart, CallersOK
  <2>3. \A d \in Delegates : shut'[d] = shut[d]
    BY <1>1, <1>2, <1>10, Zenon DEF GetStart, PoolOK, ClosersOK
  <2> QED BY <1>2, <2>1, <2>2, <2>3, Zenon DEF Removes, Unpooled
<1>11. ASSUME NEW c \in Delegates, RemoveSidecar(c) PROVE Kept(p)'
  <2>1. /\ pc[c] = "check" /\ UNCHANGED ag /\ \A d \in Callers \ {c} : pc'[d] = pc[d]
    BY <1>1, <1>2, <1>11, Zenon DEF RemoveSidecar, CallersOK
  <2>2. \A d \in Delegates \ {c} : shut'[d] = shut[d]
    BY <1>1, <1>2, <1>11, Zenon DEF RemoveSidecar, ClosersOK
  <2>3. CASE p = active
    <3>1. p # NoProc
      BY ProcsAssumption DEF Procs, NoProc
    <3>2. pc'[c] = "removing" /\ shut'[c] = Draining(shut[c], active)
      BY <1>1, <1>2, <1>11, <2>3, <3>1, Zenon DEF RemoveSidecar, Draining, CallersOK, ClosersOK
    <3>3. Draining(shut[c], active).step = "drain" /\ Draining(shut[c], active).of = p
      BY <1>1, <1>2, <2>3, DrainingTyped, Zenon DEF ClosersOK
    <3> QED BY <3>2, <3>3, Zenon DEF Removes
  <2>4. CASE p # active
    BY <1>2, <2>1, <2>2, <2>4, Zenon DEF Removes, Unpooled
  <2> QED BY <2>3, <2>4, Zenon
<1>12. ASSUME NEW c \in Delegates, GiveUp(c) \/ Retry(c) PROVE Kept(p)'
  <2>1. /\ pc[c] \notin Unpooled /\ UNCHANGED <<active, shut, ag>> /\ \A d \in Callers \ {c} : pc'[d] = pc[d]
        /\ pc[c] = "check" \/ shut[c].step = "done"
    BY <1>1, <1>2, <1>12, Zenon DEF GiveUp, Retry, Return, CallersOK, Unpooled, pool
  <2> QED BY <1>2, <2>1, Zenon DEF Removes
<1>13. ASSUME NEW q \in Procs, Crash(q) \/ CtxKill(q) \/ Reap(q) PROVE UNCHANGED <<pc, ag, active, shut>>
  BY <1>13, Zenon DEF Crash, CtxKill, Reap, callerVars, pool
<1>14. ASSUME UNCHANGED vars \/ \E c \in Callers : CtxEnd(c) PROVE UNCHANGED <<pc, ag, active, shut>>
  BY <1>14, Zenon DEF CtxEnd, vars, callerVars, pool
<1>15. ASSUME NEW k \in Closers, Close(k) PROVE Kept(p)'
  <2>1. UNCHANGED <<pc, ag, active>> /\ \A j \in Closers \ {k} : shut'[j] = shut[j]
    BY <1>1, <1>15, Zenon DEF Close, ShutDrain, ShutClose, ShutReaped, ShutTimeout, AfterShut, Stop, ClosersOK, callerVars, pool
  <2>2. ASSUME k \in Delegates, Removes(k, p) PROVE Removes(k, p)'
    <3>1. CASE ShutDrain(k) \/ ShutClose(k)
      <4>1. shut'[k].step \in {"close", "wait"} /\ shut'[k].of = shut[k].of
        BY <1>1, <3>1, Zenon DEF ShutDrain, ShutClose, ClosersOK, CloserState
      <4> QED BY <2>1, <2>2, <4>1, Zenon DEF Removes
    <3>2. CASE ShutReaped(k) \/ ShutTimeout(k)
      BY <1>1, <2>2, <3>2, Zenon DEF ShutReaped, ShutTimeout, Exit, Removes, ProcsOK
    <3>3. CASE Stop(k)
      BY <2>2, <3>3, Zenon DEF Stop, Removes
    <3> QED BY <1>15, <3>1, <3>2, <3>3, Zenon DEF Close
  <2>3. CASE \E d \in Delegates : Removes(d, p)
    <3>1. PICK d \in Delegates : Removes(d, p)
      BY <2>3, Zenon
    <3>2. Removes(d, p)'
      BY <1>2, <2>1, <2>2, <3>1, Zenon DEF Removes
    <3> QED BY <3>2, Zenon
  <2> QED BY <2>1, <2>3, Zenon
<1> HIDE DEF Kept
<1> QED BY <1>3, <1>5, <1>6, <1>7, <1>8, <1>9, <1>10, <1>11, <1>12, <1>13, <1>14, <1>15, Zenon DEF Next, Attempt

\* Orchestrator.Shutdown is called once.
LEMMA ShutdownOnce ==
  ASSUME TypeOK, [Next]_vars, shut'[Main].step = "idle"
  PROVE  shut[Main].step = "idle" /\ ~Shutdown
<1>1. ClosersOK /\ PoolOK
  BY TypeParts, Zenon
<1>2. Main \in Closers /\ Main \notin Delegates \cup Procs
  BY CallersAssumption, ProcsAssumption DEF Closers, Procs
<1>3. ASSUME NEW k \in Closers, Close(k) PROVE shut'[Main] = shut[Main]
  <2>1. CASE k = Main
    <3>1. shut'[Main].step \in {"close", "wait", "stop", "done", "drain"}
      BY <1>1, <1>2, <1>3, <2>1
         DEF Close, ShutDrain, ShutClose, ShutReaped, ShutTimeout, AfterShut, Stop, ClosersOK, CloserState
    <3> QED BY <3>1, Zenon
  <2>2. CASE k # Main
    BY <1>1, <1>2, <1>3, <2>2, Zenon
       DEF Close, ShutDrain, ShutClose, ShutReaped, ShutTimeout, AfterShut, Stop, ClosersOK
  <2> QED BY <2>1, <2>2, Zenon
<1>4. ASSUME NEW c \in Callers, GetStart(c) PROVE shut'[Main] = shut[Main]
  BY <1>1, <1>2, <1>4, Zenon DEF GetStart, ClosersOK, PoolOK
<1>5. ASSUME NEW c \in Delegates, RemoveSidecar(c) PROVE shut'[Main] = shut[Main]
  BY <1>1, <1>2, <1>5, Zenon DEF RemoveSidecar, ClosersOK
<1>6. ASSUME NEW c \in Callers,
             \/ Begin(c) \/ Reject(c) \/ CtxEnd(c) \/ GetReuse(c) \/ Spawn(c) \/ SpawnFail(c) \/ HandshakeOk(c)
             \/ HandshakeFail(c) \/ Store(c) \/ Cache(c) \/ CallSend(c) \/ CallLost(c) \/ AwaitFail(c)
             \/ AnswerOk(c) \/ AnswerError(c)
      PROVE  UNCHANGED shut
  BY <1>6, Zenon DEF Begin, Reject, CtxEnd, GetReuse, Spawn, SpawnFail, HandshakeOk, HandshakeFail, Store, Cache,
       CallSend, CallLost, AwaitFail, AnswerOk, AnswerError
<1>7. ASSUME NEW c \in Delegates, GiveUp(c) \/ Retry(c) PROVE UNCHANGED shut
  BY <1>7, Zenon DEF GiveUp, Retry
<1>8. ASSUME NEW p \in Procs, Crash(p) \/ CtxKill(p) \/ Reap(p) PROVE UNCHANGED shut
  BY <1>8, Zenon DEF Crash, CtxKill, Reap
<1>9. ASSUME Shutdown PROVE FALSE
  BY <1>1, <1>2, <1>9, Zenon DEF Shutdown, ClosersOK, CloserState
<1>10. ASSUME UNCHANGED vars PROVE UNCHANGED shut
  BY <1>10, Zenon DEF vars
<1> QED BY <1>3, <1>4, <1>5, <1>6, <1>7, <1>8, <1>9, <1>10, Zenon DEF Next, Attempt

SoloInv == OneBusy /\ Emptied /\ AllKept /\ LastShut /\ OneUp

\* Every step keeps the facts about one invocation at a time.
LEMMA SoloStep ==
  ASSUME MaxConcurrent = 1, QuietShutdown, TypeOK, SoloInv, [Next]_vars
  PROVE  SoloInv'
<1> USE DEF SoloInv
<1>1. OneBusy' /\ Emptied' /\ LastShut'
  BY OneBusyStep, EmptiedStep, LastShutStep, Zenon
<1>2. AllKept'
  <2> SUFFICES ASSUME shut'[Main].step = "idle", NEW p \in Procs, os'[p] = "up" PROVE Kept(p)'
    BY Zenon DEF AllKept
  <2>1. shut[Main].step = "idle" /\ ~Shutdown
    BY ShutdownOnce, Zenon
  <2>2. CASE os[p] = "up"
    BY <2>1, <2>2, KeptStep, Zenon DEF AllKept
  <2>3. CASE os[p] # "up"
    <3>1. PICK c \in Callers : Spawn(c) /\ p = spawned + 1
      BY <2>3, UpSteps, Zenon
    <3>2. pc'[c] = "handshake" /\ ag'[c] = p
      BY <3>1, TypeParts, Zenon DEF Spawn, CallersOK
    <3> QED BY <3>2, Zenon DEF Kept, Unpooled
  <2> QED BY <2>2, <2>3, Zenon
<1>3. OneUp'
  <2>1. CASE \A p \in Procs : os'[p] = "up" => os[p] = "up"
    BY <2>1, Zenon DEF OneUp
  <2>2. ASSUME NEW n \in Procs, os'[n] = "up", os[n] # "up" PROVE OneUp'
    <3>1. PICK c \in Callers : Spawn(c)
      BY <2>2, UpSteps, Zenon
    <3>2. pc[c] = "spawn" /\ active = NoProc /\ \A d \in Callers : pc[d] # "spawn" => ~Busy(d)
      BY <3>1, Zenon DEF Spawn, Emptied, OneBusy, Busy
    <3>3. shut[Main].step = "idle"
      BY <3>2, Zenon DEF LastShut
    <3>4. \A p \in Procs : ~Kept(p)
      BY <3>2, CallersAssumption, ProcsAssumption DEF Kept, Removes, Busy, Unpooled, Procs, NoProc, Callers
    <3>5. \A p \in Procs : os[p] # "up"
      BY <3>3, <3>4, Zenon DEF AllKept
    <3>6. \A p \in Procs : os'[p] = "up" => p = spawned + 1
      BY <3>5, UpSteps, Zenon
    <3> QED BY <3>6, Zenon DEF OneUp
  <2> QED BY <2>1, <2>2, Zenon
<1> QED BY <1>1, <1>2, <1>3, Zenon

\* When invocations come one at a time and Shutdown comes last, the kind never
\* has two running sidecars: getOrStartSidecar starts one only after the pool
\* was emptied and the removed process was killed or has exited, whatever
\* crashes, retries and clean-up goroutines of earlier sidecars do.
THEOREM NeverTwoSidecars ==
  ASSUME MaxConcurrent = 1, QuietShutdown
  PROVE  Spec => []OneLiveSidecar
<1>1. Init => SoloInv
  BY ProcsAssumption DEF Init, SoloInv, OneBusy, Busy, Emptied, AllKept, LastShut, OneUp, Unpooled, Closers
<1>2. TypeOK /\ SoloInv /\ [Next]_vars => SoloInv'
  BY SoloStep, Zenon
<1>3. SoloInv => OneLiveSidecar
  <2> SUFFICES ASSUME SoloInv PROVE OneLiveSidecar
    BY Zenon
  <2> DEFINE Up == {p \in Procs : os[p] = "up"}
  <2>1. CASE Up = {}
    BY <2>1, FS_EmptySet DEF OneLiveSidecar
  <2>2. ASSUME NEW p \in Up PROVE OneLiveSidecar
    <3>1. Up = {p}
      BY <2>2, Zenon DEF SoloInv, OneUp
    <3> HIDE DEF Up
    <3>2. Cardinality(Up) = 1
      BY <3>1, FS_Singleton, Zenon
    <3> QED BY <3>2 DEF OneLiveSidecar, Up
  <2> QED BY <2>1, <2>2, Zenon
<1> QED BY <1>1, <1>2, <1>3, TypeCorrect, PTL DEF Spec
=============================================================================
