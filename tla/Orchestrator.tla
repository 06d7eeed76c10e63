---------------------------- MODULE Orchestrator ----------------------------
(***************************************************************************)
(* The sidecar pool of one specialist kind: kernel/orchestrator.go over    *)
(* kernel/process_runner.go.  The orchestrator keeps the pooled sidecar of *)
(* the kind in active (guarded by o.mu), the runner keeps the last one it  *)
(* started in processes (guarded by r.mu); the two locks are never held    *)
(* together, and no lock is held while a sidecar starts, works or stops.   *)
(*                                                                         *)
(* Callers are Delegate and CallTool invocations, each on a goroutine of   *)
(* its own (the agent loop, and the reverse-RPC handlers of other          *)
(* sidecars).  Processes are numbered in the order they are spawned.       *)
(***************************************************************************)
EXTENDS Integers, FiniteSets

CONSTANTS
    Delegates,      \* Delegate invocations (retried once)
    ToolCalls,      \* CallTool invocations (never retried)
    Budgeted,       \* the Delegates whose request carries a Budget.Timeout
    MaxProcs,       \* bound on the processes spawned
    MaxConcurrent,  \* bound on the invocations in progress at a time
    QuietShutdown,  \* Shutdown is called after every invocation returned
    Main            \* the goroutine that calls Orchestrator.Shutdown

ASSUME CallersAssumption ==
    /\ Delegates \cap ToolCalls = {} /\ Budgeted \subseteq Delegates
    /\ Main \notin Delegates \cup ToolCalls
    /\ (Delegates \cup ToolCalls \cup {Main}) \cap Nat = {}
    /\ IsFiniteSet(Delegates \cup ToolCalls)
    /\ QuietShutdown \in BOOLEAN

ASSUME ProcsAssumption == MaxProcs \in Nat /\ MaxConcurrent \in Nat

-----------------------------------------------------------------------------
(* The host-side state machine of one sidecar (protocol/lifecycle.go): the  *)
(* states, the table of allowed edges, and what TransitionTo does with a    *)
(* candidate edge.                                                          *)

SidecarStates ==
    {"starting", "running", "draining", "closed", "waited", "reaped"}

\* validTransitions, edge by edge; the edges into "waited" from every
\* non-terminal state are the safety valve for a process that already died.
validTransitions ==
    {<<"starting", "running">>, <<"starting", "draining">>,
     <<"running", "draining">>, <<"draining", "closed">>,
     <<"waited", "reaped">>}
    \cup {<<s, "waited">> : s \in {"starting", "running", "draining", "closed"}}

IsValidTransition(from, to) == <<from, to>> \in validTransitions

\* Mutant of TransitionTo: the table is not consulted.
TransitionToForced(from, to) == to

\* The state after TransitionTo(to) on an instance in state from: the target
\* when the edge is allowed, otherwise an error that leaves the state alone
\* (every caller in package kernel drops the error).
TransitionTo(from, to) == IF IsValidTransition(from, to) THEN to ELSE from

\* The position of a state on the way from spawn to reaped.
Progress(s) ==
    CASE s = "starting" -> 0 [] s = "running" -> 1 [] s = "draining" -> 2
      [] s = "closed" -> 3   [] s = "waited" -> 4  [] s = "reaped" -> 5

-----------------------------------------------------------------------------
Callers == Delegates \cup ToolCalls
Procs   == 1 .. MaxProcs
NoProc  == 0

(* Goroutines that shut a sidecar down: a Delegate before its retry, the   *)
(* clean-up goroutine getOrStartSidecar starts for a dead sidecar (named   *)
(* by that sidecar), and the caller of Orchestrator.Shutdown.              *)
Closers == Delegates \cup Procs \cup {Main}

VARIABLES
    pc,         \* where each caller is
    ag,         \* the sidecar of a caller's current attempt
    firstTry,   \* a Delegate's failed first attempt: its sidecar, or -1
    ctxLive,    \* whether a caller's context is neither cancelled nor expired
    result,     \* what a returned caller got
    available,  \* Orchestrator.available[kind]: the binary was seen on disk
    active,     \* Orchestrator.active[kind]
    processes,  \* ProcessRunner.processes[kind]
    spawned,    \* number of processes spawned so far
    os,         \* "none", "up", "zombie" (exited, not waited for) or "reaped"
    life,       \* the processAgent's SidecarInstance state
    owner,      \* the caller in whose context a process was spawned
    waited,     \* the processes some goroutine calls cmd.Wait on
    shut        \* where each closer is, and which sidecar it is stopping

callerVars == <<pc, ag, firstTry, ctxLive, result>>
pool       == <<available, active, processes>>
procVars   == <<spawned, os, life, owner, waited>>
vars       == <<callerVars, pool, procVars, shut>>

InProgress == {c \in Callers : pc[c] \notin {"idle", "returned"}}

Init ==
    /\ pc = [c \in Callers |-> "idle"]
    /\ ag = [c \in Callers |-> NoProc]
    /\ firstTry = [c \in Callers |-> -1]
    /\ ctxLive = [c \in Callers |-> TRUE]
    /\ result = [c \in Callers |-> "none"]
    /\ available \in BOOLEAN
    /\ active = NoProc
    /\ processes = NoProc
    /\ spawned = 0
    /\ os = [p \in Procs |-> "none"]
    /\ life = [p \in Procs |-> "starting"]
    /\ owner = [p \in Procs |-> Main]
    /\ waited = {}
    /\ shut = [c \in Closers |-> [step |-> "idle", of |-> NoProc, round |-> 1]]

-----------------------------------------------------------------------------
(* Outcomes of an invocation.                                              *)

\* Delegate's deferred cancel ends the context it made for the budget.
Return(c, r) ==
    /\ pc' = [pc EXCEPT ![c] = "returned"]
    /\ result' = [result EXCEPT ![c] = r]
    /\ ctxLive' = [ctxLive EXCEPT ![c] = @ /\ c \notin Budgeted]

\* An attempt that ends in "failed": a Delegate's first one goes on to the
\* retry decision, every other one is the invocation's result.
Failed(c) ==
    IF c \in Delegates /\ firstTry[c] = -1
    THEN /\ pc' = [pc EXCEPT ![c] = "check"]
         /\ firstTry' = [firstTry EXCEPT ![c] = ag[c]]
         /\ UNCHANGED <<ctxLive, result>>
    ELSE Return(c, "failed") /\ UNCHANGED firstTry

-----------------------------------------------------------------------------
(* Environment.                                                            *)

\* A caller's context is cancelled or its deadline passes.
CtxEnd(c) ==
    /\ pc[c] # "idle" /\ ctxLive[c]
    /\ ctxLive' = [ctxLive EXCEPT ![c] = FALSE]
    /\ UNCHANGED <<pc, ag, firstTry, result, pool, procVars, shut>>

Exit(p) == os' = [os EXCEPT ![p] = IF @ = "up" THEN "zombie" ELSE @]

\* A sidecar process dies of its own accord.
Crash(p) ==
    /\ os[p] = "up" /\ Exit(p)
    /\ UNCHANGED <<callerVars, pool, spawned, life, owner, waited, shut>>

\* exec.CommandContext kills the process once the context it was created with
\* has ended, whoever uses the process by then.
CtxKill(p) ==
    /\ os[p] = "up" /\ owner[p] \in Callers /\ ~ctxLive[owner[p]]
    /\ Exit(p)
    /\ UNCHANGED <<callerVars, pool, spawned, life, owner, waited, shut>>

\* A cmd.Wait in progress collects the exited process.
Reap(p) ==
    /\ os[p] = "zombie" /\ p \in waited
    /\ os' = [os EXCEPT ![p] = "reaped"]
    /\ UNCHANGED <<callerVars, pool, spawned, life, owner, waited, shut>>

-----------------------------------------------------------------------------
(* getOrStartSidecar and ProcessRunner.Start.                              *)

\* CanDelegate: a cached yes, or the binary is found now.
Begin(c) ==
    /\ pc[c] = "idle" /\ Cardinality(InProgress) < MaxConcurrent
    /\ pc' = [pc EXCEPT ![c] = "get"]
    /\ available' = TRUE
    /\ UNCHANGED <<ag, firstTry, ctxLive, result, active, processes, procVars, shut>>

\* CanDelegate: no binary, now or before.
Reject(c) ==
    /\ pc[c] = "idle" /\ Cardinality(InProgress) < MaxConcurrent
    /\ ~available
    /\ Return(c, "rejected")
    /\ UNCHANGED <<ag, firstTry, pool, procVars, shut>>

\* Signal 0 reaches a process that exited but was not waited for, so only a
\* reaped process counts as exited.
ProcessExited(p) == os[p] = "reaped"

isAlive(p) == ~ProcessExited(p)

\* The locked part of getOrStartSidecar, first outcome: reuse.
GetReuse(c) ==
    /\ pc[c] = "get" /\ active # NoProc /\ isAlive(active)
    /\ ag' = [ag EXCEPT ![c] = active]
    /\ pc' = [pc EXCEPT ![c] = "call"]
    /\ UNCHANGED <<firstTry, ctxLive, result, pool, procVars, shut>>

\* Second outcome: nothing pooled, or a dead sidecar that leaves the pool and
\* gets a clean-up goroutine of its own.
GetStart(c) ==
    /\ pc[c] = "get" /\ ~(active # NoProc /\ isAlive(active))
    /\ pc' = [pc EXCEPT ![c] = "spawn"]
    /\ ag' = [ag EXCEPT ![c] = NoProc]
    /\ active' = NoProc
    /\ shut' = IF active = NoProc THEN shut
               ELSE [shut EXCEPT ![active] = [@ EXCEPT !.step = "drain", !.of = active]]
    /\ UNCHANGED <<firstTry, ctxLive, result, available, processes, procVars>>

\* cmd.Start, in the caller's context.
Spawn(c) ==
    /\ pc[c] = "spawn" /\ ctxLive[c] /\ spawned < MaxProcs
    /\ spawned' = spawned + 1
    /\ os' = [os EXCEPT ![spawned'] = "up"]
    /\ owner' = [owner EXCEPT ![spawned'] = c]
    /\ ag' = [ag EXCEPT ![c] = spawned']
    /\ pc' = [pc EXCEPT ![c] = "handshake"]
    /\ UNCHANGED <<firstTry, ctxLive, result, pool, life, waited, shut>>

\* Start fails before a process exists: no binary, no pipe, exec error, or
\* the context has already ended.
SpawnFail(c) ==
    /\ pc[c] = "spawn"
    /\ Failed(c)
    /\ UNCHANGED <<ag, pool, procVars, shut>>

\* The initialize call is answered in time.
HandshakeOk(c) ==
    /\ pc[c] = "handshake" /\ os[ag[c]] = "up"
    /\ life' = [life EXCEPT ![ag[c]] = TransitionTo(@, "running")]
    /\ pc' = [pc EXCEPT ![c] = "store"]
    /\ UNCHANGED <<ag, firstTry, ctxLive, result, pool, spawned, os, owner, waited, shut>>

\* Mutant of HandshakeFail: the process is left running.
HandshakeFailNoKill(c) ==
    /\ pc[c] = "handshake"
    /\ life' = [life EXCEPT ![ag[c]] = TransitionTo(@, "draining")]
    /\ Failed(c)
    /\ UNCHANGED <<ag, pool, spawned, os, owner, waited, shut>>

\* The initialize call fails: an error answer, the process died, InitTimeout
\* or the caller's context.  The process is killed and nobody waits for it.
HandshakeFail(c) ==
    /\ pc[c] = "handshake"
    /\ Exit(ag[c])
    /\ life' = [life EXCEPT ![ag[c]] = TransitionTo(@, "draining")]
    /\ Failed(c)
    /\ UNCHANGED <<ag, pool, spawned, owner, waited, shut>>

\* Start publishes the handle in the runner's map.
Store(c) ==
    /\ pc[c] = "store"
    /\ processes' = ag[c]
    /\ pc' = [pc EXCEPT ![c] = "cache"]
    /\ UNCHANGED <<ag, firstTry, ctxLive, result, available, active, procVars, shut>>

\* The reverse handlers are registered and the sidecar enters the pool.
Cache(c) ==
    /\ pc[c] = "cache"
    /\ active' = ag[c]
    /\ pc' = [pc EXCEPT ![c] = "call"]
    /\ UNCHANGED <<ag, firstTry, ctxLive, result, available, processes, procVars, shut>>

-----------------------------------------------------------------------------
(* The brain/execute or tools/call request.                                *)

\* The request reaches a live sidecar.
CallSend(c) ==
    /\ pc[c] = "call" /\ os[ag[c]] = "up" /\ ctxLive[c]
    /\ pc' = [pc EXCEPT ![c] = "await"]
    /\ UNCHANGED <<ag, firstTry, ctxLive, result, pool, procVars, shut>>

\* The session is gone, or the context has ended, before the request is out.
CallLost(c) ==
    /\ pc[c] = "call" /\ (os[ag[c]] # "up" \/ ~ctxLive[c])
    /\ Failed(c)
    /\ UNCHANGED <<ag, pool, procVars, shut>>

\* The sidecar answers with a result.
AnswerOk(c) ==
    /\ pc[c] = "await" /\ os[ag[c]] = "up"
    /\ Return(c, "completed")
    /\ UNCHANGED <<ag, firstTry, pool, procVars, shut>>

\* The sidecar answers with a JSON-RPC error: its handler failed.
AnswerError(c) ==
    /\ pc[c] = "await" /\ os[ag[c]] = "up"
    /\ Failed(c)
    /\ UNCHANGED <<ag, pool, procVars, shut>>

\* Mutant of AwaitFail: the wait for the answer ignores the context.
AwaitFailIgnoringCtx(c) ==
    /\ pc[c] = "await" /\ os[ag[c]] # "up"
    /\ Failed(c)
    /\ UNCHANGED <<ag, pool, procVars, shut>>

\* The process dies (end of file closes the session) or the context ends
\* while the answer is awaited.
AwaitFail(c) ==
    /\ pc[c] = "await" /\ (os[ag[c]] # "up" \/ ~ctxLive[c])
    /\ Failed(c)
    /\ UNCHANGED <<ag, pool, procVars, shut>>

-----------------------------------------------------------------------------
(* Delegate's retry, removeSidecar, and Shutdown of a processAgent.        *)

\* The context ended: the failure is the result.
GiveUp(c) ==
    /\ pc[c] = "check" /\ ~ctxLive[c]
    /\ Return(c, "failed")
    /\ UNCHANGED <<ag, firstTry, pool, procVars, shut>>

\* Mutant of RemoveSidecar: the sidecar stays in the pool.
RemoveSidecarKept(c) ==
    /\ pc[c] = "check" /\ ctxLive[c]
    /\ IF active = NoProc
       THEN pc' = [pc EXCEPT ![c] = "get"] /\ UNCHANGED shut
       ELSE /\ pc' = [pc EXCEPT ![c] = "removing"]
            /\ shut' = [shut EXCEPT ![c] = [@ EXCEPT !.step = "drain", !.of = active]]
    /\ UNCHANGED <<ag, firstTry, ctxLive, result, pool, procVars>>

\* Otherwise removeSidecar takes whatever the pool holds by now; with an
\* empty pool there is nothing to clean up.
RemoveSidecar(c) ==
    /\ pc[c] = "check" /\ ctxLive[c]
    /\ active' = NoProc
    /\ IF active = NoProc
       THEN pc' = [pc EXCEPT ![c] = "get"] /\ UNCHANGED shut
       ELSE /\ pc' = [pc EXCEPT ![c] = "removing"]
            /\ shut' = [shut EXCEPT ![c] = [@ EXCEPT !.step = "drain", !.of = active]]
    /\ UNCHANGED <<ag, firstTry, ctxLive, result, available, processes, procVars>>

\* removeSidecar returned: the second delegateOnce begins.
Retry(c) ==
    /\ pc[c] = "removing" /\ shut[c].step = "done"
    /\ pc' = [pc EXCEPT ![c] = "get"]
    /\ UNCHANGED <<ag, firstTry, ctxLive, result, pool, procVars, shut>>

\* processAgent.Shutdown, first part: the shutdown notification (sidecar.Run
\* has no handler for its method name, so the process does not react) and the
\* step to Draining.
ShutDrain(k) ==
    /\ shut[k].step = "drain"
    /\ life' = [life EXCEPT ![shut[k].of] = TransitionTo(@, "draining")]
    /\ shut' = [shut EXCEPT ![k].step = "close"]
    /\ UNCHANGED <<callerVars, pool, spawned, os, owner, waited>>

\* Mutant of ShutClose: nobody calls cmd.Wait.
ShutCloseNoWait(k) ==
    /\ shut[k].step = "close"
    /\ life' = [life EXCEPT ![shut[k].of] = TransitionTo(@, "closed")]
    /\ shut' = [shut EXCEPT ![k].step = "wait"]
    /\ UNCHANGED <<callerVars, pool, spawned, os, owner, waited>>

\* Then the transport is closed, the instance steps to Closed and a goroutine
\* calls cmd.Wait.
ShutClose(k) ==
    /\ shut[k].step = "close"
    /\ life' = [life EXCEPT ![shut[k].of] = TransitionTo(@, "closed")]
    /\ waited' = waited \cup {shut[k].of}
    /\ shut' = [shut EXCEPT ![k].step = "wait"]
    /\ UNCHANGED <<callerVars, pool, spawned, os, owner>>

\* Where a goroutine goes after a Shutdown: on to runner.Stop after the
\* agent's own, to its end after the one inside Stop.
AfterShut(k) ==
    shut' = [shut EXCEPT ![k].step = IF shut[k].round = 1 THEN "stop" ELSE "done"]

\* The process was waited for.
ShutReaped(k) ==
    /\ shut[k].step = "wait" /\ os[shut[k].of] = "reaped"
    /\ AfterShut(k)
    /\ UNCHANGED <<callerVars, pool, procVars>>

\* The shutdown timeout passed first: the process is killed.
ShutTimeout(k) ==
    /\ shut[k].step = "wait"
    /\ Exit(shut[k].of)
    /\ AfterShut(k)
    /\ UNCHANGED <<callerVars, pool, spawned, life, owner, waited>>

\* ProcessRunner.Stop: take what the runner's map holds by now and shut it
\* down too; an empty map is an error its callers drop.
Stop(k) ==
    /\ shut[k].step = "stop"
    /\ processes' = NoProc
    /\ shut' = [shut EXCEPT ![k] =
                  IF processes = NoProc
                  THEN [@ EXCEPT !.step = "done"]
                  ELSE [step |-> "drain", of |-> processes, round |-> 2]]
    /\ UNCHANGED <<callerVars, available, active, procVars>>

\* Orchestrator.Shutdown: empty the pool, then Stop every kind it held.
Shutdown ==
    /\ shut[Main].step = "idle"
    /\ QuietShutdown => \A c \in Callers : pc[c] = "returned"
    /\ active' = NoProc
    /\ shut' = [shut EXCEPT ![Main].step = IF active = NoProc THEN "done" ELSE "stop"]
    /\ UNCHANGED <<callerVars, available, processes, procVars>>

-----------------------------------------------------------------------------
Attempt(c) ==
    \/ GetReuse(c) \/ GetStart(c) \/ Spawn(c) \/ SpawnFail(c)
    \/ HandshakeOk(c) \/ HandshakeFail(c) \/ Store(c) \/ Cache(c)
    \/ CallSend(c) \/ CallLost(c) \/ AwaitFail(c)

Close(k) ==
    ShutDrain(k) \/ ShutClose(k) \/ ShutReaped(k) \/ ShutTimeout(k) \/ Stop(k)

Next ==
    \/ \E c \in Callers : \/ Begin(c) \/ Reject(c) \/ CtxEnd(c) \/ Attempt(c)
                          \/ AnswerOk(c) \/ AnswerError(c)
    \/ \E c \in Delegates : GiveUp(c) \/ RemoveSidecar(c) \/ Retry(c)
    \/ \E p \in Procs : Crash(p) \/ CtxKill(p) \/ Reap(p)
    \/ \E k \in Closers : Close(k)
    \/ Shutdown

Spec == Init /\ [][Next]_vars

\* Goroutines keep running, InitTimeout and the shutdown timeouts fire, the
\* operating system delivers kills and wait results.  A sidecar need not
\* answer, crash or let a context end.
FairSpec ==
    /\ Spec
    /\ \A c \in Callers : WF_vars(Attempt(c))
    /\ \A c \in Delegates : WF_vars(GiveUp(c) \/ RemoveSidecar(c) \/ Retry(c))
    /\ \A k \in Closers : WF_vars(Close(k))
    /\ \A p \in Procs : WF_vars(CtxKill(p)) /\ WF_vars(Reap(p))

-----------------------------------------------------------------------------
(* Properties.                                                             *)

\* Every variable stays in its range; a caller past its start and a goroutine
\* inside Shutdown hold a sidecar, never a nil handle.
TypeOK ==
    /\ pc \in [Callers -> {"idle", "get", "spawn", "handshake", "store", "cache",
                           "call", "await", "check", "removing", "returned"}]
    /\ ag \in [Callers -> Procs \cup {NoProc}]
    /\ firstTry \in [Callers -> Procs \cup {NoProc, -1}]
    /\ ctxLive \in [Callers -> BOOLEAN]
    /\ result \in [Callers -> {"none", "completed", "failed", "rejected"}]
    /\ available \in BOOLEAN
    /\ active \in Procs \cup {NoProc} /\ processes \in Procs \cup {NoProc}
    /\ spawned \in 0 .. MaxProcs
    /\ os \in [Procs -> {"none", "up", "zombie", "reaped"}]
    /\ life \in [Procs -> SidecarStates]
    /\ owner \in [Procs -> Callers \cup {Main}]
    /\ waited \subseteq Procs
    /\ shut \in [Closers -> [step : {"idle", "drain", "close", "wait", "stop", "done"},
                             of : Procs \cup {NoProc}, round : {1, 2}]]
    /\ \A c \in Callers :
          pc[c] \in {"handshake", "store", "cache", "call", "await"} => ag[c] \in Procs
    /\ \A k \in Closers :
          shut[k].step \in {"drain", "close", "wait"} => shut[k].of \in Procs

\* A sidecar is published, to the runner's map or to the pool, only after its
\* initialize handshake succeeded: no caller that finds one there can send a
\* request to a sidecar that is still starting (Start and getOrStartSidecar
\* store the handle last).
PublishedAfterHandshake ==
    \A p \in Procs : p \in {active, processes} => life[p] # "starting"

\* However many goroutines shut the same sidecar down, its recorded state only
\* moves forward and only along edges of the table: the second Shutdown never
\* takes a closed instance back to draining.
LifecycleForward ==
    [][\A p \in Procs : life'[p] # life[p] =>
            /\ IsValidTransition(life[p], life'[p])
            /\ Progress(life[p]) < Progress(life'[p])]_vars

\* The retry of a Delegate never lands on the sidecar its first attempt failed
\* on, even when other callers put sidecars into the pool meanwhile.
RetryOnFreshSidecar ==
    \A c \in Delegates :
        firstTry[c] \in Procs /\ pc[c] \in {"handshake", "store", "cache", "call", "await"}
            => ag[c] # firstTry[c]

\* When a Shutdown of a sidecar returns, its process is no longer running: it
\* either exited or was killed at the timeout.
ShutdownLeavesDead ==
    \A k \in Closers :
        shut[k].step \in {"stop", "done"} /\ shut[k].of \in Procs
            => os[shut[k].of] # "up"

\* With one invocation at a time there is never more than one running sidecar
\* of the kind, across crashes, retries, failed handshakes and Shutdown.
OneLiveSidecar == Cardinality({p \in Procs : os[p] = "up"}) <= 1

\* A caller whose context has ended returns, whatever the sidecar does and
\* wherever the invocation is: starting, calling, or removing a sidecar.
DeadlineReleasesCaller ==
    \A c \in Callers : ~ctxLive[c] /\ pc[c] # "idle" ~> pc[c] = "returned"

\* Every sidecar whose Shutdown reaches the wait is eventually reaped: neither
\* the timeout path nor a second Shutdown leaves a zombie behind.
ShutSidecarIsReaped ==
    \A p \in Procs :
        (\E k \in Closers : shut[k].step = "wait" /\ shut[k].of = p) ~> os[p] = "reaped"

=============================================================================
