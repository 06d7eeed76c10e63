----------------------------- MODULE McpAdapter -----------------------------
(***************************************************************************)
(* The adapter that runs an external MCP server and registers its tools.   *)
(* Start holds the adapter's mutex from the fork to the end of the         *)
(* handshake, Stop from the flag to the end of the process; DiscoverTools  *)
(* and Invoke take it only to read or store a field and talk to the server *)
(* without it. The server is the environment: it answers, fails, exits, or *)
(* changes the list of tools it offers.                                    *)
(***************************************************************************)
EXTENDS Integers, Sequences, FiniteSets

CONSTANTS MaCallers, MaStopper,  \* goroutines that use the adapter, that stop it
          MaLists,               \* tool lists the server may offer
          MaSerial,              \* TRUE: one DiscoverTools or RegisterTools at a time
          MaMaxProcs, MaMaxCalls

ASSUME McpAssumption ==
    /\ MaStopper \notin MaCallers /\ "free" \notin MaCallers
    /\ \A list \in MaLists : list \in Seq(STRING)

VARIABLES maProcs,     \* server processes: up, zombie, reaped
          maCmd,       \* index of the adapter's process, 0 before
          maStarted, maShutdown, maTools,
          maMutex,     \* its holder, or "free"
          maCall,      \* caller -> [pc, proc, list, i]
          maRegistry,  \* registered tools: <<name, name it forwards to>>
          maOffer,     \* what the server lists now
          maStopped,   \* Stop has returned
          maCalls

maVars == <<maProcs, maCmd, maStarted, maShutdown, maTools, maMutex, maCall, maRegistry,
            maOffer, maStopped, maCalls>>
maServer == <<maProcs, maOffer>>

MaIdle == [pc |-> "idle", proc |-> 0, list |-> <<>>, i |-> 1]
MaAll == MaCallers \cup {MaStopper}

MaInit == /\ maProcs = <<>> /\ maCmd = 0
          /\ maStarted = FALSE /\ maShutdown = FALSE /\ maTools = <<>>
          /\ maMutex = "free"
          /\ maCall = [c \in MaAll |-> MaIdle]
          /\ maRegistry = {}
          /\ maOffer \in MaLists
          /\ maStopped = FALSE /\ maCalls = 0

MaKilled(p) == IF p \in DOMAIN maProcs /\ maProcs[p] = "up"
               THEN [maProcs EXCEPT ![p] = "zombie"] ELSE maProcs

MaBegin(c) == /\ c \in MaCallers
              /\ maCall[c].pc = "idle"
              /\ maCalls < MaMaxCalls
              /\ maCalls' = maCalls + 1
              /\ maMutex = "free"

\* Start up to the fork; a started adapter refuses, a fork may fail.
MaStart(c) ==
    /\ MaBegin(c)
    /\ ~maStarted
    /\ Len(maProcs) < MaMaxProcs
    /\ maProcs' = Append(maProcs, "up")
    /\ maMutex' = c
    /\ maCall' = [maCall EXCEPT ![c] = [MaIdle EXCEPT !.pc = "handshake", !.proc = Len(maProcs) + 1]]
    /\ UNCHANGED <<maCmd, maStarted, maShutdown, maTools, maRegistry, maOffer, maStopped>>

MaInitialized(c) ==
    /\ maCall[c].pc = "handshake"
    /\ maProcs[maCall[c].proc] = "up"
    /\ maCmd' = maCall[c].proc
    /\ maStarted' = TRUE
    /\ maMutex' = "free"
    /\ maCall' = [maCall EXCEPT ![c] = MaIdle]
    /\ UNCHANGED <<maProcs, maShutdown, maTools, maRegistry, maOffer, maStopped, maCalls>>

\* Mutant: the process of a failed handshake is left alone.
MaLeave(p) == maProcs
MaGiveUp(p) == MaKilled(p)

\* The RPC layer does not start, or initialize fails: the process is killed
\* (nobody waits for it) and the adapter may be started again.
MaHandshakeFails(c) ==
    /\ maCall[c].pc = "handshake"
    /\ maProcs' = MaGiveUp(maCall[c].proc)
    /\ maMutex' = "free"
    /\ maCall' = [maCall EXCEPT ![c] = MaIdle]
    /\ UNCHANGED <<maCmd, maStarted, maShutdown, maTools, maRegistry, maOffer, maStopped, maCalls>>

----------------------------------------------------------------------------
\* DiscoverTools, by itself or for RegisterTools. A stopped adapter still
\* passes the test: only Invoke looks at shutdown.
MaAsk(c) ==
    /\ MaBegin(c)
    /\ maStarted
    /\ MaSerial => \A d \in MaCallers : maCall[d].pc \notin {"ask", "ask_register", "store",
                                                             "store_register", "register"}
    /\ \E pc \in {"ask", "ask_register"} : maCall' = [maCall EXCEPT ![c].pc = pc]
    /\ UNCHANGED <<maServer, maCmd, maStarted, maShutdown, maTools, maMutex, maRegistry, maStopped>>

\* The answer, when the server and the connection are up; else the call fails.
MaListed(c) ==
    /\ maCall[c].pc \in {"ask", "ask_register"}
    /\ maCall' = [maCall EXCEPT ![c] =
           IF maProcs[maCmd] = "up" /\ ~maShutdown
           THEN [@ EXCEPT !.pc = IF maCall[c].pc = "ask" THEN "store" ELSE "store_register",
                          !.list = maOffer]
           ELSE MaIdle]
    /\ UNCHANGED <<maServer, maCmd, maStarted, maShutdown, maTools, maMutex, maRegistry,
                   maStopped, maCalls>>

MaStoreTools(c) ==
    /\ maCall[c].pc \in {"store", "store_register"}
    /\ maMutex = "free"
    /\ maTools' = maCall[c].list
    /\ maCall' = [maCall EXCEPT ![c] = IF @.pc = "store" THEN MaIdle ELSE [@ EXCEPT !.pc = "register"]]
    /\ UNCHANGED <<maServer, maCmd, maStarted, maShutdown, maMutex, maRegistry, maStopped, maCalls>>

\* One round of RegisterTools' loop: the name to forward to is read from the
\* adapter, without the mutex, at the position of the schema.
MaTarget(i) == IF i \in DOMAIN maTools THEN maTools[i] ELSE "panic"

MaRegister(c) ==
    /\ maCall[c].pc = "register"
    /\ LET i == maCall[c].i
           list == maCall[c].list
       IN  IF i > Len(list)
           THEN /\ maCall' = [maCall EXCEPT ![c] = MaIdle]
                /\ UNCHANGED maRegistry
           ELSE /\ maRegistry' = maRegistry \cup {<<list[i], MaTarget(i)>>}
                /\ maCall' = [maCall EXCEPT ![c].i = @ + 1]
    /\ UNCHANGED <<maServer, maCmd, maStarted, maShutdown, maTools, maMutex, maStopped, maCalls>>

\* Invoke: past the test the call goes to the server.
MaInvoke(c) ==
    /\ MaBegin(c)
    /\ maStarted /\ ~maShutdown
    /\ maCall' = [maCall EXCEPT ![c].pc = "invoke"]
    /\ UNCHANGED <<maServer, maCmd, maStarted, maShutdown, maTools, maMutex, maRegistry, maStopped>>

\* It is answered, or fails with the process or with the connection.
MaInvoked(c) ==
    /\ maCall[c].pc = "invoke"
    /\ maCall' = [maCall EXCEPT ![c] = MaIdle]
    /\ UNCHANGED <<maServer, maCmd, maStarted, maShutdown, maTools, maMutex, maRegistry,
                   maStopped, maCalls>>

----------------------------------------------------------------------------
\* Stop: nothing to do before the start or the second time; otherwise the
\* flag, the connection, and the wait for the process.
MaStop ==
    /\ maCall[MaStopper].pc = "idle"
    /\ maMutex = "free"
    /\ maStarted /\ ~maShutdown
    /\ maShutdown' = TRUE
    /\ maMutex' = MaStopper
    /\ maCall' = [maCall EXCEPT ![MaStopper].pc = "wait"]
    /\ UNCHANGED <<maServer, maCmd, maStarted, maTools, maRegistry, maStopped, maCalls>>

\* The process ended and was waited for.
MaStopReaped ==
    /\ maCall[MaStopper].pc = "wait"
    /\ maProcs[maCmd] = "zombie"
    /\ maProcs' = [maProcs EXCEPT ![maCmd] = "reaped"]
    /\ maStopped' = TRUE
    /\ maMutex' = "free"
    /\ maCall' = [maCall EXCEPT ![MaStopper].pc = "done"]
    /\ UNCHANGED <<maCmd, maStarted, maShutdown, maTools, maRegistry, maOffer, maCalls>>

\* The context ends first: kill, and leave the wait to its goroutine.
MaStopKills ==
    /\ maCall[MaStopper].pc = "wait"
    /\ maProcs' = MaKilled(maCmd)
    /\ maStopped' = TRUE
    /\ maMutex' = "free"
    /\ maCall' = [maCall EXCEPT ![MaStopper].pc = "reap"]
    /\ UNCHANGED <<maCmd, maStarted, maShutdown, maTools, maRegistry, maOffer, maCalls>>

MaReap ==
    /\ maCall[MaStopper].pc = "reap"
    /\ maProcs' = [maProcs EXCEPT ![maCmd] = "reaped"]
    /\ maCall' = [maCall EXCEPT ![MaStopper].pc = "done"]
    /\ UNCHANGED <<maCmd, maStarted, maShutdown, maTools, maMutex, maRegistry, maOffer,
                   maStopped, maCalls>>

\* The server exits, or the context it was started with ends and kills it.
MaExit ==
    /\ \E p \in DOMAIN maProcs : maProcs[p] = "up" /\ maProcs' = MaKilled(p)
    /\ UNCHANGED <<maCmd, maStarted, maShutdown, maTools, maMutex, maCall, maRegistry, maOffer,
                   maStopped, maCalls>>

MaChange ==
    /\ maOffer' \in MaLists
    /\ UNCHANGED <<maProcs, maCmd, maStarted, maShutdown, maTools, maMutex, maCall, maRegistry,
                   maStopped, maCalls>>

MaNext == \/ \E c \in MaCallers : \/ MaStart(c) \/ MaInitialized(c) \/ MaHandshakeFails(c)
                                  \/ MaAsk(c) \/ MaListed(c) \/ MaStoreTools(c) \/ MaRegister(c)
                                  \/ MaInvoke(c) \/ MaInvoked(c)
          \/ MaStop \/ MaStopReaped \/ MaStopKills \/ MaReap \/ MaExit \/ MaChange

MaSpec == MaInit /\ [][MaNext]_maVars

----------------------------------------------------------------------------
\* No server process runs without an owner: one that is up is the adapter's
\* own or is being started, there is none once Stop has returned, and no call
\* starts a second one beside it. While tools are discovered one caller at a
\* time every registered tool forwards to the name it was listed under.
MaNoOrphan ==
    /\ \A p \in DOMAIN maProcs : maProcs[p] = "up" =>
          \/ p = maCmd /\ ~maStopped
          \/ \E c \in MaCallers : maCall[c].pc = "handshake" /\ maCall[c].proc = p
    /\ Cardinality({p \in DOMAIN maProcs : maProcs[p] = "up"}) <= 1
    /\ \A r \in maRegistry : r[1] = r[2]
=============================================================================
