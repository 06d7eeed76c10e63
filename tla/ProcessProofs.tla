--------------------------- MODULE ProcessProofs ----------------------------
(***************************************************************************)
(* What watches over processes and runs, for every value of the constants: *)
(* an MCP server that runs is owned by the adapter or by the call that     *)
(* started it, and a browser by its holder or by the request that is       *)
(* launching it; the heartbeat, the loop detector and the error decision   *)
(* judge from counters and agree with the whole history.                   *)
(***************************************************************************)
EXTENDS McpAdapter, BrowserBrain, Heartbeat, MCLoopDetector, ErrorModel, FiniteSetTheorems,
        TLAPS

-----------------------------------------------------------------------------
(* The MCP adapter: no server runs without an owner.                       *)

MaStages == {"idle", "handshake", "ask", "ask_register", "store", "store_register", "register",
             "invoke", "wait", "reap", "done"}

MaDiscovering == {"ask", "ask_register", "store", "store_register", "register"}

MaCallType == [pc : MaStages, proc : Nat, list : Seq(STRING), i : Nat \ {0}]

MaTypes ==
  /\ maProcs \in Seq({"up", "zombie", "reaped"}) /\ maCmd \in Nat
  /\ maStarted \in BOOLEAN /\ maShutdown \in BOOLEAN /\ maStopped \in BOOLEAN
  /\ maTools \in Seq(STRING) /\ maOffer \in Seq(STRING)
  /\ maCall \in [MaAll -> MaCallType]

\* Start keeps the mutex during the handshake, and only the adapter that is
\* not started yet is in one.
MaHandshakes ==
  \A c \in MaAll : maCall[c].pc = "handshake" =>
     /\ c \in MaCallers /\ maMutex = c /\ ~maStarted
     /\ maCall[c].proc \in DOMAIN maProcs

\* A process that is up is the adapter's own, started and not stopped, or the
\* one of a handshake.
MaOwned ==
  \A p \in DOMAIN maProcs : maProcs[p] = "up" =>
     \/ p = maCmd /\ maStarted /\ ~maStopped
     \/ \E c \in MaCallers : maCall[c].pc = "handshake" /\ maCall[c].proc = p

\* How far Stop is.
MaStopping ==
  /\ maCall[MaStopper].pc \in {"idle", "wait", "reap", "done"}
  /\ maCall[MaStopper].pc # "idle" => maShutdown
  /\ maShutdown => maStarted
  /\ maStopped => maShutdown
  /\ maStarted => maCmd \in DOMAIN maProcs

\* One caller at a time discovers tools, and while it registers them the
\* adapter holds the list it was given.
MaOneDiscovery ==
  /\ \A c, d \in MaCallers : maCall[c].pc \in MaDiscovering /\ maCall[d].pc \in MaDiscovering => c = d
  /\ \A c \in MaCallers : maCall[c].pc = "register" => maTools = maCall[c].list
  /\ \A r \in maRegistry : r[1] = r[2]

McpInv == MaTypes /\ MaHandshakes /\ MaOwned /\ MaStopping /\ MaOneDiscovery

-----------------------------------------------------------------------------
\* The adapter starts with no process, no call and no registered tool.
LEMMA McpInit == MaInit => McpInv
<1> SUFFICES ASSUME MaInit PROVE McpInv BY Zenon
<1>1. MaIdle \in MaCallType
  BY DEF MaIdle, MaCallType, MaStages
<1>2. MaTypes
  <2>1. maOffer \in Seq(STRING)
    BY McpAssumption, Zenon DEF MaInit
  <2>2. maCall \in [MaAll -> MaCallType]
    BY <1>1, Zenon DEF MaInit
  <2>3. maProcs \in Seq({"up", "zombie", "reaped"})
    BY DEF MaInit
  <2>4. maTools \in Seq(STRING)
    BY DEF MaInit
  <2> QED BY <2>1, <2>2, <2>3, <2>4, Zenon DEF MaInit, MaTypes
<1>3. MaHandshakes /\ MaOwned /\ MaStopping /\ MaOneDiscovery
  BY DEF MaInit, MaHandshakes, MaOwned, MaStopping, MaOneDiscovery, MaIdle, MaDiscovering, MaAll
<1> QED BY <1>2, <1>3, Zenon DEF McpInv

-----------------------------------------------------------------------------
(* What a step does to the processes and to the calls.                     *)

\* A kill changes no process but the one it is meant for.
LEMMA Killed ==
  ASSUME MaTypes, NEW p \in Nat
  PROVE  /\ MaKilled(p) \in Seq({"up", "zombie", "reaped"})
         /\ DOMAIN MaKilled(p) = DOMAIN maProcs
         /\ \A q \in DOMAIN maProcs : MaKilled(p)[q] = "up" => maProcs[q] = "up" /\ q # p
<1>0. maProcs \in Seq({"up", "zombie", "reaped"})
  BY Zenon DEF MaTypes
<1>1. CASE p \in DOMAIN maProcs /\ maProcs[p] = "up"
  <2>1. MaKilled(p) = [maProcs EXCEPT ![p] = "zombie"]
    BY <1>1, Zenon DEF MaKilled
  <2>2. /\ [maProcs EXCEPT ![p] = "zombie"] \in Seq({"up", "zombie", "reaped"})
        /\ DOMAIN [maProcs EXCEPT ![p] = "zombie"] = DOMAIN maProcs
    BY <1>0, <1>1
  <2>3. \A q \in DOMAIN maProcs : [maProcs EXCEPT ![p] = "zombie"][q] = "up" => maProcs[q] = "up" /\ q # p
    BY <1>1, Zenon
  <2> QED BY <2>1, <2>2, <2>3, Zenon
<1>2. CASE ~(p \in DOMAIN maProcs /\ maProcs[p] = "up")
  BY <1>0, <1>2, Zenon DEF MaKilled
<1> QED BY <1>1, <1>2, Zenon

\* The call of one caller goes on, those of the others stay.
MaCallSet(c, x) == maCall' = [maCall EXCEPT ![c] = x]

\* Every action of a caller sets that caller's call to a proper value.
LEMMA CallsTyped ==
  ASSUME MaTypes, NEW c \in MaAll, NEW x \in MaCallType, MaCallSet(c, x)
  PROVE  /\ maCall' \in [MaAll -> MaCallType]
         /\ maCall'[c] = x
         /\ \A d \in MaAll : d # c => maCall'[d] = maCall[d]
BY Zenon DEF MaTypes, MaCallSet

\* Start up to the fork.
LEMMA StartStep ==
  ASSUME McpInv, NEW c \in MaCallers, MaStart(c)
  PROVE  McpInv'
<1> DEFINE x == [MaIdle EXCEPT !.pc = "handshake", !.proc = Len(maProcs) + 1]
<1>1. /\ c \in MaAll /\ MaTypes /\ MaCallSet(c, x) /\ maCall[c].pc = "idle" /\ ~maStarted
      /\ maMutex = "free" /\ maMutex' = c
  BY Zenon DEF McpInv, MaStart, MaBegin, MaCallSet, MaAll
<1>2. x \in MaCallType /\ x.pc = "handshake" /\ x.proc = Len(maProcs) + 1
  <2>1. Len(maProcs) + 1 \in Nat
    BY <1>1 DEF MaTypes
  <2>2. MaIdle \in MaCallType
    BY DEF MaIdle, MaCallType, MaStages
  <2> QED BY <2>1, <2>2, Zenon DEF MaCallType, MaStages
<1> HIDE DEF x
<1>3. /\ maCall' \in [MaAll -> MaCallType] /\ maCall'[c] = x
      /\ \A d \in MaAll : d # c => maCall'[d] = maCall[d]
  BY <1>1, <1>2, CallsTyped, Zenon
<1>4. /\ maProcs' \in Seq({"up", "zombie", "reaped"})
      /\ Len(maProcs') = Len(maProcs) + 1 /\ maProcs'[Len(maProcs) + 1] = "up"
      /\ DOMAIN maProcs' = 1..(Len(maProcs) + 1) /\ DOMAIN maProcs = 1..Len(maProcs)
      /\ \A q \in DOMAIN maProcs : maProcs'[q] = maProcs[q]
  BY DEF McpInv, MaTypes, MaStart
<1>5. MaTypes'
  BY <1>3, <1>4, Zenon DEF McpInv, MaTypes, MaStart
<1>6. \A d \in MaAll : maCall[d].pc # "handshake"
  BY <1>1, McpAssumption, Zenon DEF McpInv, MaHandshakes
<1>7. MaHandshakes'
  BY <1>1, <1>2, <1>3, <1>4, <1>6 DEF MaHandshakes, MaStart, McpInv, MaTypes
<1>8. \A q \in DOMAIN maProcs : maProcs[q] # "up"
  BY <1>1, <1>6, Zenon DEF McpInv, MaOwned, MaAll
<1>9. MaOwned'
  BY <1>2, <1>3, <1>4, <1>8 DEF MaOwned, McpInv, MaTypes
<1>10. MaStopping'
  BY <1>1, <1>3, McpAssumption, Zenon DEF MaStopping, MaStart, McpInv, MaAll
<1>11. MaOneDiscovery'
  BY <1>1, <1>2, <1>3, Zenon DEF MaOneDiscovery, MaStart, McpInv, MaAll, MaDiscovering
<1> QED BY <1>5, <1>7, <1>9, <1>10, <1>11, Zenon DEF McpInv

\* The handshake ends, well or badly.
LEMMA HandshakeStep ==
  ASSUME McpInv, NEW c \in MaCallers, MaInitialized(c) \/ MaHandshakeFails(c)
  PROVE  McpInv'
<1>1. /\ c \in MaAll /\ MaTypes /\ MaCallSet(c, MaIdle) /\ maCall[c].pc = "handshake"
      /\ maMutex = c /\ ~maStarted /\ maCall[c].proc \in DOMAIN maProcs
      /\ maTools' = maTools /\ maOffer' = maOffer /\ maShutdown' = maShutdown
      /\ maStopped' = maStopped /\ maRegistry' = maRegistry
  BY Zenon DEF McpInv, MaInitialized, MaHandshakeFails, MaCallSet, MaAll, MaHandshakes
<1>2. MaIdle \in MaCallType /\ MaIdle.pc = "idle"
  BY DEF MaIdle, MaCallType, MaStages
<1>3. /\ maCall' \in [MaAll -> MaCallType] /\ maCall'[c] = MaIdle
      /\ \A d \in MaAll : d # c => maCall'[d] = maCall[d]
  BY <1>1, <1>2, CallsTyped, Zenon
<1>4. maCall[c].proc \in Nat /\ DOMAIN maProcs \subseteq Nat
  BY <1>1 DEF MaTypes, MaCallType
<1>5. /\ maProcs' \in Seq({"up", "zombie", "reaped"}) /\ DOMAIN maProcs' = DOMAIN maProcs
      /\ \A q \in DOMAIN maProcs : maProcs'[q] = "up" => maProcs[q] = "up"
  BY <1>1, <1>4, Killed, Zenon DEF MaTypes, MaInitialized, MaHandshakeFails, MaGiveUp
<1>6. MaTypes'
  BY <1>1, <1>3, <1>4, <1>5, Zenon DEF MaTypes, MaInitialized, MaHandshakeFails
<1>7. \A d \in MaAll : maCall'[d].pc # "handshake"
  BY <1>1, <1>2, <1>3, Zenon DEF McpInv, MaHandshakes
<1>8. \A q \in DOMAIN maProcs : maProcs[q] = "up" => q = maCall[c].proc
  BY <1>1, Zenon DEF McpInv, MaOwned, MaHandshakes, MaAll
<1>9. ~maShutdown /\ ~maStopped /\ maCall[MaStopper].pc = "idle"
  BY <1>1, Zenon DEF McpInv, MaStopping
<1>10. MaOwned'
  <2>1. CASE MaInitialized(c)
    BY <2>1, <1>1, <1>5, <1>8, <1>9 DEF MaOwned, MaInitialized
  <2>2. CASE MaHandshakeFails(c)
    BY <2>2, <1>4, <1>5, <1>8, Killed, <1>1, Zenon DEF MaOwned, MaHandshakeFails, MaGiveUp
  <2> QED BY <2>1, <2>2, Zenon
<1>11. MaStopping'
  BY <1>1, <1>3, <1>5, <1>9, McpAssumption DEF MaStopping, MaInitialized, MaHandshakeFails, MaAll
<1>12. MaOneDiscovery'
  BY <1>1, <1>2, <1>3, Zenon DEF MaOneDiscovery, McpInv, MaAll, MaDiscovering
<1> QED BY <1>6, <1>7, <1>10, <1>11, <1>12, Zenon DEF McpInv, MaHandshakes

\* What the remaining steps of callers have in common: they neither start nor
\* end a process, and the caller is in no handshake before or after.
LEMMA QuietStep ==
  ASSUME McpInv, NEW c \in MaCallers, NEW x \in MaCallType, MaCallSet(c, x),
         maCall[c].pc # "handshake", x.pc # "handshake", maTools' \in Seq(STRING),
         UNCHANGED <<maProcs, maOffer, maCmd, maStarted, maShutdown, maMutex, maStopped>>
  PROVE  /\ MaTypes' /\ MaHandshakes' /\ MaOwned' /\ MaStopping'
         /\ maCall'[c] = x /\ \A d \in MaAll : d # c => maCall'[d] = maCall[d]
<1>1. /\ c \in MaAll /\ MaTypes /\ MaCallers \subseteq MaAll
      /\ MaStopper \in MaAll /\ MaStopper # c
  BY McpAssumption, Zenon DEF McpInv, MaAll
<1>2. /\ maCall' \in [MaAll -> MaCallType] /\ maCall'[c] = x
      /\ \A d \in MaAll : d # c => maCall'[d] = maCall[d]
  BY <1>1, CallsTyped, Zenon
<1>3. MaTypes'
  BY <1>2, Zenon DEF McpInv, MaTypes
<1>4. MaHandshakes'
  BY <1>1, <1>2, Zenon DEF McpInv, MaHandshakes
<1>5. MaOwned'
  BY <1>1, <1>2 DEF McpInv, MaOwned
<1>6. MaStopping'
  BY <1>1, <1>2, Zenon DEF McpInv, MaStopping
<1> QED BY <1>2, <1>3, <1>4, <1>5, <1>6, Zenon

\* A discovery or a call begins.
LEMMA BeginStep ==
  ASSUME MaSerial, McpInv, NEW c \in MaCallers, MaAsk(c) \/ MaInvoke(c)
  PROVE  McpInv'
<1>1. PICK pc \in {"ask", "ask_register", "invoke"} : maCall' = [maCall EXCEPT ![c].pc = pc]
  BY Zenon DEF MaAsk, MaInvoke
<1> DEFINE x == [maCall[c] EXCEPT !.pc = pc]
<1>2. maCall[c] \in MaCallType /\ c \in MaAll /\ MaCallers \subseteq MaAll
  BY Zenon DEF McpInv, MaTypes, MaAll
<1>3. x \in MaCallType /\ x.pc = pc
  BY <1>2, Zenon DEF MaCallType, MaStages
<1>4. MaCallSet(c, x) /\ maCall[c].pc = "idle"
  BY <1>1, <1>2, Zenon DEF McpInv, MaTypes, MaCallSet, MaAsk, MaInvoke, MaBegin
<1>5. /\ maTools' = maTools /\ maTools' \in Seq(STRING) /\ maRegistry' = maRegistry
      /\ UNCHANGED <<maProcs, maOffer, maCmd, maStarted, maShutdown, maMutex, maStopped>>
  BY Zenon DEF McpInv, MaTypes, MaAsk, MaInvoke, maServer
<1>6. pc # "invoke" => \A d \in MaCallers : maCall[d].pc \notin MaDiscovering
  <2>1. CASE MaAsk(c)
    BY <2>1, Zenon DEF MaAsk, MaDiscovering
  <2>2. CASE MaInvoke(c)
    <3>1. maCall'[c].pc = "invoke"
      BY <2>2, <1>2, Zenon DEF MaInvoke, McpInv, MaTypes, MaCallType
    <3>2. maCall'[c].pc = pc
      BY <1>1, <1>2, Zenon DEF McpInv, MaTypes, MaCallType
    <3> QED BY <3>1, <3>2, Zenon
  <2> QED BY <2>1, <2>2, Zenon
<1> HIDE DEF x
<1>7. /\ MaTypes' /\ MaHandshakes' /\ MaOwned' /\ MaStopping'
      /\ maCall'[c] = x /\ \A d \in MaAll : d # c => maCall'[d] = maCall[d]
  BY <1>3, <1>4, <1>5, QuietStep, Zenon
<1>8. MaOneDiscovery'
  BY <1>2, <1>3, <1>4, <1>5, <1>6, <1>7 DEF McpInv, MaOneDiscovery, MaDiscovering
<1> QED BY <1>7, <1>8, Zenon DEF McpInv

\* The server answers tools/list, or the call fails.
LEMMA ListedStep ==
  ASSUME McpInv, NEW c \in MaCallers, MaListed(c)
  PROVE  McpInv'
<1> DEFINE y == [maCall[c] EXCEPT !.pc = IF maCall[c].pc = "ask" THEN "store" ELSE "store_register",
                                  !.list = maOffer]
           x == IF maProcs[maCmd] = "up" /\ ~maShutdown THEN y ELSE MaIdle
<1>1. /\ maCall[c] \in MaCallType /\ c \in MaAll /\ MaCallers \subseteq MaAll
      /\ maCall[c].pc \in {"ask", "ask_register"} /\ maOffer \in Seq(STRING)
  BY Zenon DEF McpInv, MaTypes, MaAll, MaListed
<1>2. y \in MaCallType /\ y.pc \in {"store", "store_register"}
  BY <1>1, Zenon DEF MaCallType, MaStages
<1>3. MaIdle \in MaCallType /\ MaIdle.pc = "idle"
  BY DEF MaIdle, MaCallType, MaStages
<1>4. MaCallSet(c, x)
  BY <1>1, Zenon DEF McpInv, MaTypes, MaListed, MaCallSet
<1> HIDE DEF y
<1>5. x \in MaCallType /\ x.pc \in {"store", "store_register", "idle"}
  BY <1>2, <1>3, Zenon
<1> HIDE DEF x
<1>6. /\ maTools' = maTools /\ maTools' \in Seq(STRING) /\ maRegistry' = maRegistry
      /\ UNCHANGED <<maProcs, maOffer, maCmd, maStarted, maShutdown, maMutex, maStopped>>
  BY Zenon DEF McpInv, MaTypes, MaListed, maServer
<1>7. /\ MaTypes' /\ MaHandshakes' /\ MaOwned' /\ MaStopping'
      /\ maCall'[c] = x /\ \A d \in MaAll : d # c => maCall'[d] = maCall[d]
  BY <1>1, <1>4, <1>5, <1>6, QuietStep, Zenon
<1>8. MaOneDiscovery'
  BY <1>1, <1>5, <1>6, <1>7 DEF McpInv, MaOneDiscovery, MaDiscovering
<1> QED BY <1>7, <1>8, Zenon DEF McpInv

\* DiscoverTools stores the list; no other caller is registering one.
LEMMA StoreStep ==
  ASSUME McpInv, NEW c \in MaCallers, MaStoreTools(c)
  PROVE  McpInv'
<1> DEFINE y == [maCall[c] EXCEPT !.pc = "register"]
           x == IF maCall[c].pc = "store" THEN MaIdle ELSE y
<1>1. /\ maCall[c] \in MaCallType /\ c \in MaAll /\ MaCallers \subseteq MaAll
      /\ maCall[c].pc \in {"store", "store_register"} /\ maCall[c].list \in Seq(STRING)
  BY Zenon DEF McpInv, MaTypes, MaAll, MaStoreTools, MaCallType
<1>2. y \in MaCallType /\ y.pc = "register" /\ y.list = maCall[c].list
  BY <1>1, Zenon DEF MaCallType, MaStages
<1>3. MaIdle \in MaCallType /\ MaIdle.pc = "idle"
  BY DEF MaIdle, MaCallType, MaStages
<1>4. MaCallSet(c, x)
  BY <1>1, Zenon DEF McpInv, MaTypes, MaStoreTools, MaCallSet
<1> HIDE DEF y
<1>5. x \in MaCallType /\ x.pc \in {"register", "idle"} /\ (x.pc = "register" => x.list = maCall[c].list)
  BY <1>2, <1>3, Zenon
<1> HIDE DEF x
<1>6. /\ maTools' = maCall[c].list /\ maTools' \in Seq(STRING) /\ maRegistry' = maRegistry
      /\ UNCHANGED <<maProcs, maOffer, maCmd, maStarted, maShutdown, maMutex, maStopped>>
  BY <1>1, Zenon DEF MaStoreTools, maServer
<1>7. /\ MaTypes' /\ MaHandshakes' /\ MaOwned' /\ MaStopping'
      /\ maCall'[c] = x /\ \A d \in MaAll : d # c => maCall'[d] = maCall[d]
  BY <1>1, <1>4, <1>5, <1>6, QuietStep, Zenon
<1>8. \A d \in MaCallers : d # c => maCall[d].pc \notin MaDiscovering
  BY <1>1, Zenon DEF McpInv, MaOneDiscovery, MaDiscovering
<1>9. MaOneDiscovery'
  BY <1>1, <1>5, <1>6, <1>7, <1>8, Zenon DEF McpInv, MaOneDiscovery, MaDiscovering
<1> QED BY <1>7, <1>9, Zenon DEF McpInv

\* RegisterTools registers one tool under the name at its position in the
\* adapter's list, or is done.
LEMMA RegisterStep ==
  ASSUME McpInv, NEW c \in MaCallers, MaRegister(c)
  PROVE  McpInv'
<1> DEFINE y == [maCall[c] EXCEPT !.i = @ + 1]
           x == IF maCall[c].i > Len(maCall[c].list) THEN MaIdle ELSE y
<1>1. /\ maCall[c] \in MaCallType /\ c \in MaAll /\ MaCallers \subseteq MaAll
      /\ maCall[c].pc = "register" /\ maTools = maCall[c].list
  BY Zenon DEF McpInv, MaTypes, MaAll, MaRegister, MaOneDiscovery
<1>2. y \in MaCallType /\ y.pc = "register" /\ y.list = maCall[c].list
  BY <1>1 DEF MaCallType, MaStages
<1>3. MaIdle \in MaCallType /\ MaIdle.pc = "idle"
  BY DEF MaIdle, MaCallType, MaStages
<1>4. MaCallSet(c, x)
  BY <1>1, Zenon DEF McpInv, MaTypes, MaRegister, MaCallSet
<1> HIDE DEF y
<1>5. x \in MaCallType /\ x.pc \in {"register", "idle"} /\ (x.pc = "register" => x.list = maCall[c].list)
  BY <1>2, <1>3, Zenon
<1> HIDE DEF x
<1>6. /\ maTools' = maTools /\ maTools' \in Seq(STRING)
      /\ UNCHANGED <<maProcs, maOffer, maCmd, maStarted, maShutdown, maMutex, maStopped>>
  BY Zenon DEF McpInv, MaTypes, MaRegister, maServer
<1>7. /\ MaTypes' /\ MaHandshakes' /\ MaOwned' /\ MaStopping'
      /\ maCall'[c] = x /\ \A d \in MaAll : d # c => maCall'[d] = maCall[d]
  BY <1>1, <1>4, <1>5, <1>6, QuietStep, Zenon
<1>8. \A r \in maRegistry' : r[1] = r[2]
  <2>1. CASE maCall[c].i > Len(maCall[c].list)
    BY <2>1, Zenon DEF MaRegister, McpInv, MaOneDiscovery
  <2>2. CASE ~(maCall[c].i > Len(maCall[c].list))
    <3>1. maCall[c].i \in DOMAIN maTools
      BY <1>1, <2>2 DEF MaCallType
    <3>2. maRegistry' = maRegistry \cup {<<maTools[maCall[c].i], maTools[maCall[c].i]>>}
      BY <1>1, <2>2, <3>1, Zenon DEF MaRegister, MaTarget
    <3> QED BY <3>2 DEF McpInv, MaOneDiscovery
  <2> QED BY <2>1, <2>2, Zenon
<1>9. MaOneDiscovery'
  BY <1>1, <1>5, <1>6, <1>7, <1>8, Zenon DEF McpInv, MaOneDiscovery, MaDiscovering
<1> QED BY <1>7, <1>9, Zenon DEF McpInv

\* Invoke returns.
LEMMA InvokedStep ==
  ASSUME McpInv, NEW c \in MaCallers, MaInvoked(c)
  PROVE  McpInv'
<1>1. MaIdle \in MaCallType /\ MaIdle.pc = "idle" /\ MaCallers \subseteq MaAll
  BY DEF MaIdle, MaCallType, MaStages, MaAll
<1>2. /\ MaCallSet(c, MaIdle) /\ maCall[c].pc = "invoke"
      /\ maTools' = maTools /\ maTools' \in Seq(STRING) /\ maRegistry' = maRegistry
      /\ UNCHANGED <<maProcs, maOffer, maCmd, maStarted, maShutdown, maMutex, maStopped>>
  BY Zenon DEF McpInv, MaTypes, MaInvoked, maServer, MaCallSet
<1>3. /\ MaTypes' /\ MaHandshakes' /\ MaOwned' /\ MaStopping'
      /\ maCall'[c] = MaIdle /\ \A d \in MaAll : d # c => maCall'[d] = maCall[d]
  BY <1>1, <1>2, QuietStep, Zenon
<1>4. MaOneDiscovery'
  BY <1>1, <1>2, <1>3, Zenon DEF McpInv, MaOneDiscovery, MaDiscovering
<1> QED BY <1>3, <1>4, Zenon DEF McpInv

-----------------------------------------------------------------------------
(* The stopper, the server and the result.                                 *)

\* Stop takes the mutex: nobody is in a handshake from then on.
LEMMA StopStep ==
  ASSUME McpInv, MaStop \/ MaStopReaped \/ MaStopKills \/ MaReap
  PROVE  McpInv'
<1>1. /\ MaStopper \in MaAll /\ MaStopper \notin MaCallers /\ MaCallers \subseteq MaAll
      /\ MaTypes /\ maCall[MaStopper] \in MaCallType
  BY McpAssumption, Zenon DEF McpInv, MaAll, MaTypes
<1>2. PICK pc \in {"wait", "done", "reap"} : maCall' = [maCall EXCEPT ![MaStopper].pc = pc]
  BY Zenon DEF MaStop, MaStopReaped, MaStopKills, MaReap
<1> DEFINE x == [maCall[MaStopper] EXCEPT !.pc = pc]
<1>3. x \in MaCallType /\ x.pc = pc
  BY <1>1, Zenon DEF MaCallType, MaStages
<1>4. MaCallSet(MaStopper, x)
  BY <1>1, <1>2, Zenon DEF MaTypes, MaCallSet
<1> HIDE DEF x
<1>5. /\ maCall' \in [MaAll -> MaCallType] /\ maCall'[MaStopper] = x
      /\ \A d \in MaAll : d # MaStopper => maCall'[d] = maCall[d]
  BY <1>1, <1>3, <1>4, CallsTyped, Zenon
<1>6. maStarted /\ maCmd \in DOMAIN maProcs /\ maCmd \in Nat
  BY Zenon DEF McpInv, MaTypes, MaStopping, MaStop, MaStopReaped, MaStopKills, MaReap
<1>7. \A d \in MaAll : maCall[d].pc # "handshake"
  BY <1>6, Zenon DEF McpInv, MaHandshakes
<1>8. /\ maProcs' \in Seq({"up", "zombie", "reaped"}) /\ DOMAIN maProcs' = DOMAIN maProcs
      /\ \A q \in DOMAIN maProcs : maProcs'[q] = "up" => maProcs[q] = "up"
      /\ ~MaStop => \A q \in DOMAIN maProcs : maProcs'[q] = "up" => q # maCmd
  <2>1. CASE MaStop
    BY <2>1, <1>1, Zenon DEF MaStop, maServer, MaTypes
  <2>2. CASE MaStopKills
    BY <2>2, <1>1, <1>6, Killed, Zenon DEF MaStopKills
  <2>3. CASE MaStopReaped \/ MaReap
    <3>1. maProcs' = [maProcs EXCEPT ![maCmd] = "reaped"]
      BY <2>3, Zenon DEF MaStopReaped, MaReap
    <3> QED BY <3>1, <1>1, <1>6 DEF MaTypes
  <2> QED BY <2>1, <2>2, <2>3, Zenon
<1>9. /\ maTools' = maTools /\ maOffer' = maOffer /\ maRegistry' = maRegistry
      /\ maCmd' = maCmd /\ maStarted' = maStarted
      /\ maShutdown' /\ maShutdown' \in BOOLEAN /\ maStopped' \in BOOLEAN
  BY <1>1, Zenon DEF McpInv, MaTypes, MaStopping, MaStop, MaStopReaped, MaStopKills, MaReap, maServer
<1>10. MaTypes'
  BY <1>1, <1>5, <1>8, <1>9, Zenon DEF MaTypes
<1>11. MaHandshakes'
  BY <1>1, <1>3, <1>5, <1>7, Zenon DEF MaHandshakes
<1>12. \A q \in DOMAIN maProcs : maProcs[q] = "up" => q = maCmd /\ ~maStopped
  BY <1>1, <1>7, Zenon DEF McpInv, MaOwned
<1>13. MaOwned'
  <2>1. CASE MaStop
    BY <2>1, <1>6, <1>8, <1>9, <1>12 DEF MaOwned, MaStop
  <2>2. CASE ~MaStop
    BY <2>2, <1>8, <1>12, Zenon DEF MaOwned
  <2> QED BY <2>1, <2>2, Zenon
<1>14. MaStopping'
  BY <1>3, <1>5, <1>6, <1>8, <1>9, Zenon DEF MaStopping
<1>15. MaOneDiscovery'
  BY <1>1, <1>5, <1>9, Zenon DEF McpInv, MaOneDiscovery
<1> QED BY <1>10, <1>11, <1>13, <1>14, <1>15, Zenon DEF McpInv

\* The server ends or changes its tools.
LEMMA ServerStep ==
  ASSUME McpInv, MaExit \/ MaChange
  PROVE  McpInv'
<1>1. /\ maProcs' \in Seq({"up", "zombie", "reaped"}) /\ DOMAIN maProcs' = DOMAIN maProcs
      /\ \A q \in DOMAIN maProcs : maProcs'[q] = "up" => maProcs[q] = "up"
  <2>1. CASE MaExit
    <3>1. PICK p \in DOMAIN maProcs : maProcs' = MaKilled(p)
      BY <2>1, Zenon DEF MaExit
    <3>2. p \in Nat /\ MaTypes
      BY DEF McpInv, MaTypes
    <3> QED BY <3>1, <3>2, Killed, Zenon
  <2>2. CASE MaChange
    BY <2>2, Zenon DEF MaChange, McpInv, MaTypes
  <2> QED BY <2>1, <2>2, Zenon
<1>2. /\ UNCHANGED <<maCmd, maStarted, maShutdown, maTools, maMutex, maCall, maRegistry, maStopped>>
      /\ maOffer' \in Seq(STRING)
  BY McpAssumption, Zenon DEF MaExit, MaChange, McpInv, MaTypes
<1>3. MaTypes'
  BY <1>1, <1>2, Zenon DEF McpInv, MaTypes
<1>4. MaHandshakes' /\ MaOwned' /\ MaStopping' /\ MaOneDiscovery'
  BY <1>1, <1>2 DEF McpInv, MaHandshakes, MaOwned, MaStopping, MaOneDiscovery
<1> QED BY <1>3, <1>4, Zenon DEF McpInv

\* The invariant leaves at most one process up, and gives it an owner.
LEMMA McpOwned == McpInv => MaNoOrphan
<1> SUFFICES ASSUME McpInv PROVE MaNoOrphan BY Zenon
<1> DEFINE Up == {p \in DOMAIN maProcs : maProcs[p] = "up"}
<1>1. \A p, q \in Up : p = q
  <2> SUFFICES ASSUME NEW p \in Up, NEW q \in Up PROVE p = q BY Zenon
  <2>1. MaCallers \subseteq MaAll
    BY Zenon DEF MaAll
  <2>2. CASE maStarted
    BY <2>1, <2>2, Zenon DEF McpInv, MaOwned, MaHandshakes
  <2>3. CASE ~maStarted
    <3>1. PICK c \in MaCallers : maCall[c].pc = "handshake" /\ maCall[c].proc = p
      BY <2>3, Zenon DEF McpInv, MaOwned
    <3>2. PICK d \in MaCallers : maCall[d].pc = "handshake" /\ maCall[d].proc = q
      BY <2>3, Zenon DEF McpInv, MaOwned
    <3>3. c = d
      BY <2>1, <3>1, <3>2, Zenon DEF McpInv, MaHandshakes
    <3> QED BY <3>1, <3>2, <3>3, Zenon
  <2> QED BY <2>2, <2>3, Zenon
<1>2. Cardinality(Up) <= 1
  <2>1. CASE Up = {}
    BY <2>1, FS_EmptySet
  <2>2. CASE Up # {}
    <3>1. PICK p \in Up : TRUE
      BY <2>2, Zenon
    <3>2. Up = {p}
      BY <1>1, <3>1, Zenon
    <3>3. Cardinality({p}) = 1
      BY FS_Singleton, Zenon
    <3> QED BY <3>2, <3>3
  <2> QED BY <2>1, <2>2, Zenon
<1> QED BY <1>2, Zenon DEF McpInv, MaOwned, MaOneDiscovery, MaNoOrphan

\* No MCP server is left without an owner: one that is up belongs to the
\* adapter or to a Start in progress, none is up once Stop has returned, there
\* are never two, and every registered tool forwards to the name it was listed
\* under, while tools are discovered by one caller at a time.
THEOREM ServersAreOwned ==
  ASSUME MaSerial
  PROVE  MaSpec => []MaNoOrphan
<1>1. McpInv /\ [MaNext]_maVars => McpInv'
  <2> SUFFICES ASSUME McpInv, [MaNext]_maVars PROVE McpInv' BY Zenon
  <2>1. ASSUME NEW c \in MaCallers,
               \/ MaStart(c) \/ MaInitialized(c) \/ MaHandshakeFails(c)
               \/ MaAsk(c) \/ MaListed(c) \/ MaStoreTools(c) \/ MaRegister(c)
               \/ MaInvoke(c) \/ MaInvoked(c)
        PROVE  McpInv'
    BY <2>1, StartStep, HandshakeStep, BeginStep, ListedStep, StoreStep, RegisterStep, InvokedStep, Zenon
  <2>2. CASE MaStop \/ MaStopReaped \/ MaStopKills \/ MaReap
    BY <2>2, StopStep, Zenon
  <2>3. CASE MaExit \/ MaChange
    BY <2>3, ServerStep, Zenon
  <2>4. CASE UNCHANGED maVars
    BY <2>4, Zenon DEF maVars, McpInv, MaTypes, MaHandshakes, MaOwned, MaStopping, MaOneDiscovery
  <2> QED BY <2>1, <2>2, <2>3, <2>4, Zenon DEF MaNext
<1> QED BY <1>1, McpInit, McpOwned, PTL DEF MaSpec

-----------------------------------------------------------------------------
(* The browser brain: no browser and no key is forgotten.                  *)

BbCommands == [op : {"query", "do", "down", "up"},
               key : {"", "left", "right", "ctrl+a", "backspace", "key"}, must : BOOLEAN]

\* A command whose refusal ends the tool.
BbMayStop(cmd) == cmd.op = "query" /\ cmd.must

\* Position j releases the key, and without a fault the tool gets there from i.
BbReleasedAt(p, key, i, j) ==
    /\ p[j].op = "up" /\ p[j].key = key
    /\ \A n \in i .. j : ~BbMayStop(p[n])

\* The rest of a tool releases the key.
BbReleases(p, key) == \E j \in 1 .. Len(p) : BbReleasedAt(p, key, 1, j)

\* Whatever a tool presses it releases.
BbBalanced(p) ==
    \A i \in 1 .. Len(p) : p[i].op = "down" =>
        \E j \in i + 1 .. Len(p) : BbReleasedAt(p, p[i].key, i, j)

BbPrograms == {p \in Seq(BbCommands) : BbBalanced(p)}

\* A program after a program releases what it presses.
LEMMA BbBalancedConcat ==
  ASSUME NEW p \in BbPrograms, NEW q \in BbPrograms
  PROVE  p \o q \in BbPrograms
<1>1. p \o q \in Seq(BbCommands) /\ Len(p \o q) = Len(p) + Len(q) /\ Len(p) \in Nat /\ Len(q) \in Nat
  BY DEF BbPrograms
<1>2. \A i \in 1 .. Len(p) : (p \o q)[i] = p[i]
  BY DEF BbPrograms
<1>3. \A i \in 1 .. Len(q) : (p \o q)[Len(p) + i] = q[i]
  BY DEF BbPrograms
<1> DEFINE s == p \o q
<1> HIDE DEF s
<1>4. ASSUME NEW i \in 1 .. Len(s), s[i].op = "down"
      PROVE  \E j \in i + 1 .. Len(s) : BbReleasedAt(s, s[i].key, i, j)
  <2>1. CASE i <= Len(p)
    <3>1. s[i] = p[i] /\ i \in 1 .. Len(p)
      BY <1>1, <1>2, <2>1 DEF s
    <3>2. PICK j \in i + 1 .. Len(p) : BbReleasedAt(p, p[i].key, i, j)
      BY <1>4, <3>1, Zenon DEF BbPrograms, BbBalanced
    <3>3. \A n \in i .. j : s[n] = p[n]
      BY <1>1, <1>2, <3>1, <3>2 DEF s
    <3>4. j \in i + 1 .. Len(s) /\ j \in i .. j
      BY <1>1, <3>1, <3>2 DEF s
    <3> QED BY <3>1, <3>2, <3>3, <3>4, Zenon DEF BbReleasedAt
  <2>2. CASE i > Len(p)
    <3> DEFINE k == i - Len(p)
    <3>1. k \in 1 .. Len(q) /\ i = Len(p) + k
      BY <1>1, <2>2 DEF s
    <3>2. s[i] = q[k]
      BY <1>3, <3>1, Zenon DEF s
    <3>3. PICK j \in k + 1 .. Len(q) : BbReleasedAt(q, q[k].key, k, j)
      BY <1>4, <3>1, <3>2, Zenon DEF BbPrograms, BbBalanced
    <3>4. \A n \in i .. Len(p) + j : n - Len(p) \in k .. j /\ s[n] = q[n - Len(p)]
      <4> TAKE n \in i .. Len(p) + j
      <4>1. n - Len(p) \in k .. j /\ n - Len(p) \in 1 .. Len(q) /\ n = Len(p) + (n - Len(p))
        BY <1>1, <3>1, <3>3
      <4> QED BY <4>1, <1>3, Zenon DEF s
    <3>5. Len(p) + j \in i + 1 .. Len(s) /\ Len(p) + j \in i .. Len(p) + j /\ (Len(p) + j) - Len(p) = j
      BY <1>1, <3>1, <3>3 DEF s
    <3>6. s[Len(p) + j] = q[j]
      BY <3>4, <3>5, Zenon
    <3>7. \A n \in i .. Len(p) + j : ~BbMayStop(s[n])
      BY <3>3, <3>4, Zenon DEF BbReleasedAt
    <3> QED BY <3>2, <3>3, <3>5, <3>6, <3>7, Zenon DEF BbReleasedAt
  <2> QED BY <1>1, <2>1, <2>2 DEF s
<1> QED BY <1>1, <1>4, Zenon DEF BbPrograms, BbBalanced, s

\* The rest of a balanced program is balanced, and what the rest of a program
\* releases after a command that cannot stop it is released by the whole.
LEMMA BbTail ==
  ASSUME NEW p \in BbPrograms, p # <<>>
  PROVE  /\ Tail(p) \in BbPrograms /\ Head(p) \in BbCommands
         /\ Head(p).op = "down" => BbReleases(Tail(p), Head(p).key)
         /\ \A key : BbReleases(p, key) =>
              /\ ~BbMayStop(Head(p))
              /\ BbReleases(Tail(p), key) \/ (Head(p).op = "up" /\ Head(p).key = key)
<1> DEFINE t == Tail(p)
<1>1. /\ t \in Seq(BbCommands) /\ Len(t) = Len(p) - 1 /\ Len(p) \in Nat /\ Len(p) > 0
      /\ Head(p) = p[1] /\ p[1] \in BbCommands
      /\ \A i \in 1 .. Len(t) : t[i] = p[i + 1]
  BY DEF BbPrograms
<1> HIDE DEF t
<1>s. ASSUME NEW key, NEW i \in 2 .. Len(p), NEW j \in i .. Len(p), BbReleasedAt(p, key, i, j)
      PROVE  j - 1 \in 1 .. Len(t) /\ BbReleasedAt(t, key, i - 1, j - 1)
  <2>1. \A n \in i - 1 .. j - 1 : n + 1 \in i .. j /\ n \in 1 .. Len(t)
    BY <1>1
  <2>2. j - 1 \in 1 .. Len(t) /\ (j - 1) + 1 = j
    BY <1>1
  <2>3. t[j - 1] = p[j]
    BY <1>1, <2>2, Zenon
  <2>4. \A n \in i - 1 .. j - 1 : ~BbMayStop(t[n])
    BY <1>1, <1>s, <2>1, Zenon DEF BbReleasedAt
  <2> QED BY <1>s, <2>2, <2>3, <2>4, Zenon DEF BbReleasedAt
<1>2. BbBalanced(t)
  <2> SUFFICES ASSUME NEW i \in 1 .. Len(t), t[i].op = "down"
               PROVE  \E j \in i + 1 .. Len(t) : BbReleasedAt(t, t[i].key, i, j)
    BY Zenon DEF BbBalanced
  <2>1. i + 1 \in 2 .. Len(p) /\ i + 1 \in 1 .. Len(p) /\ t[i] = p[i + 1] /\ (i + 1) - 1 = i
    BY <1>1
  <2>2. PICK j \in (i + 1) + 1 .. Len(p) : BbReleasedAt(p, p[i + 1].key, i + 1, j)
    BY <2>1, Zenon DEF BbPrograms, BbBalanced
  <2>3. j \in i + 1 .. Len(p) /\ j - 1 \in i + 1 .. Len(t)
    BY <1>1, <2>1, <2>2
  <2>4. BbReleasedAt(t, t[i].key, i, j - 1)
    BY <1>s, <2>1, <2>2, <2>3, Zenon
  <2> QED BY <2>3, <2>4, Zenon
<1>3. ASSUME p[1].op = "down" PROVE BbReleases(t, p[1].key)
  <2>1. PICK j \in 2 .. Len(p) : BbReleasedAt(p, p[1].key, 1, j)
    BY <1>1, <1>3 DEF BbPrograms, BbBalanced
  <2>2. BbReleasedAt(p, p[1].key, 2, j) /\ 2 \in 2 .. Len(p) /\ 2 - 1 = 1
    BY <1>1, <2>1 DEF BbReleasedAt
  <2>3. j - 1 \in 1 .. Len(t) /\ BbReleasedAt(t, p[1].key, 1, j - 1)
    BY <1>s, <2>1, <2>2, Zenon
  <2> QED BY <2>3, Zenon DEF BbReleases
<1>4. ASSUME NEW key, BbReleases(p, key)
      PROVE  /\ ~BbMayStop(p[1])
             /\ BbReleases(t, key) \/ (p[1].op = "up" /\ p[1].key = key)
  <2>1. PICK j \in 1 .. Len(p) : BbReleasedAt(p, key, 1, j)
    BY <1>4, Zenon DEF BbReleases
  <2>2. ~BbMayStop(p[1])
    BY <1>1, <2>1 DEF BbReleasedAt
  <2>3. CASE j = 1
    BY <2>1, <2>2, <2>3, Zenon DEF BbReleasedAt
  <2>4. CASE j > 1
    <3>1. BbReleasedAt(p, key, 2, j) /\ j \in 2 .. Len(p) /\ 2 \in 2 .. Len(p) /\ 2 - 1 = 1
      BY <1>1, <2>1, <2>4 DEF BbReleasedAt
    <3>2. j - 1 \in 1 .. Len(t) /\ BbReleasedAt(t, key, 1, j - 1)
      BY <1>s, <3>1, Zenon
    <3> QED BY <2>2, <3>2, Zenon DEF BbReleases
  <2> QED BY <1>1, <2>3, <2>4
<1> QED BY <1>1, <1>2, <1>3, <1>4, Zenon DEF BbPrograms, t

\* A list of commands that press nothing, and a stroke.
LEMMA BbHarmless ==
  ASSUME NEW p \in Seq(BbCommands), \A i \in 1 .. Len(p) : p[i].op # "down"
  PROVE  p \in BbPrograms
BY Zenon DEF BbPrograms, BbBalanced

\* A stroke: the key goes down and comes up.
LEMMA BbPair ==
  ASSUME NEW a \in BbCommands, NEW b \in BbCommands, a.op = "down", b.op = "up", a.key = b.key
  PROVE  <<a, b>> \in BbPrograms
<1> DEFINE p == <<a, b>>
<1>1. p \in Seq(BbCommands) /\ Len(p) = 2 /\ p[1] = a /\ p[2] = b
  OBVIOUS
<1> HIDE DEF p
<1>2. ASSUME NEW i \in 1 .. Len(p), p[i].op = "down"
      PROVE  \E j \in i + 1 .. Len(p) : BbReleasedAt(p, p[i].key, i, j)
  <2>1. i = 1 
    BY <1>1, <1>2
  <2>2. 2 \in i + 1 .. Len(p) /\ \A n \in i .. 2 : n = 1 \/ n = 2
    BY <1>1, <2>1
  <2>3. BbReleasedAt(p, p[i].key, i, 2)
    BY <1>1, <2>1, <2>2, Zenon DEF BbReleasedAt, BbMayStop
  <2> QED BY <2>2, <2>3, Zenon
<1> QED BY <1>1, <1>2, Zenon DEF BbPrograms, BbBalanced, p

\* A function on 1 .. n is a sequence.
LEMMA BbListed ==
  ASSUME NEW S, NEW n \in Nat, NEW s \in [1 .. n -> S]
  PROVE  s \in Seq(S)
  OBVIOUS

\* Short lists of commands that press nothing.
LEMMA BbOne ==
  ASSUME NEW a \in BbCommands, a.op # "down"
  PROVE  <<a>> \in BbPrograms /\ <<a>> # <<>>
<1> DEFINE p == <<a>>
<1>1. p \in Seq(BbCommands) /\ Len(p) = 1 /\ p[1] = a
  OBVIOUS
<1>2. p # <<>>
  BY Zenon
<1> HIDE DEF p
<1>3. \A i \in 1 .. Len(p) : p[i].op # "down"
  BY <1>1
<1> QED BY <1>1, <1>2, <1>3, BbHarmless, Zenon DEF p

\* Two commands that press nothing.
LEMMA BbTwo ==
  ASSUME NEW a \in BbCommands, NEW b \in BbCommands, a.op # "down", b.op # "down"
  PROVE  <<a, b>> \in BbPrograms /\ <<a, b>> # <<>>
<1> DEFINE p == <<a, b>>
<1>1. p \in Seq(BbCommands) /\ Len(p) = 2 /\ p[1] = a /\ p[2] = b
  OBVIOUS
<1>2. p # <<>>
  BY Zenon
<1> HIDE DEF p
<1>3. \A i \in 1 .. Len(p) : i = 1 \/ i = 2
  BY <1>1
<1>4. \A i \in 1 .. Len(p) : p[i].op # "down"
  BY <1>1, <1>3, Zenon
<1> QED BY <1>1, <1>2, <1>4, BbHarmless, Zenon DEF p

\* Three commands that press nothing.
LEMMA BbThree ==
  ASSUME NEW a \in BbCommands, NEW b \in BbCommands, NEW c \in BbCommands,
         a.op # "down", b.op # "down", c.op # "down"
  PROVE  <<a, b, c>> \in BbPrograms /\ <<a, b, c>> # <<>>
<1> DEFINE p == <<a, b, c>>
<1>1. p \in Seq(BbCommands) /\ Len(p) = 3 /\ p[1] = a /\ p[2] = b /\ p[3] = c
  OBVIOUS
<1>2. p # <<>>
  BY Zenon
<1> HIDE DEF p
<1>3. \A i \in 1 .. Len(p) : i = 1 \/ i = 2 \/ i = 3
  BY <1>1
<1>4. \A i \in 1 .. Len(p) : p[i].op # "down"
  BY <1>1, <1>3, Zenon
<1> QED BY <1>1, <1>2, <1>4, BbHarmless, Zenon DEF p

\* One tool step after another is a step.
LEMMA BbNotEmpty ==
  ASSUME NEW p \in BbPrograms, NEW q \in BbPrograms, p # <<>>
  PROVE  p \o q \in BbPrograms /\ p \o q # <<>>
<1>1. p \in Seq(BbCommands) /\ q \in Seq(BbCommands)
  BY Zenon DEF BbPrograms
<1>2. Len(p) \in Nat /\ Len(q) \in Nat /\ Len(p) # 0 /\ Len(p \o q) = Len(p) + Len(q)
  BY <1>1
<1>3. Len(p \o q) # 0 /\ Len(<<>>) = 0
  BY <1>2
<1>4. p \o q # <<>>
  BY <1>3, Zenon
<1> QED BY <1>4, BbBalancedConcat, Zenon

\* Every tool releases what it presses.
LEMMA BbToolsBalanced ==
  ASSUME NEW tool \in DOMAIN BbProgram
  PROVE  BbProgram[tool] \in BbPrograms /\ BbProgram[tool] # <<>>
<1>c. BbQuery \in BbCommands /\ BbDo \in BbCommands /\ BbTryDo \in BbCommands
      /\ BbCmd("query", "", FALSE) \in BbCommands
  BY Zenon DEF BbQuery, BbDo, BbTryDo, BbCmd, BbCommands
<1>o. BbQuery.op # "down" /\ BbDo.op # "down" /\ BbTryDo.op # "down"
      /\ BbCmd("query", "", FALSE).op # "down"
  BY Zenon DEF BbQuery, BbDo, BbTryDo, BbCmd
<1>k. \A op \in {"down", "up"}, must \in BOOLEAN,
         key \in {"", "left", "right", "ctrl+a", "backspace", "key"} :
           /\ BbCmd(op, key, must) \in BbCommands
           /\ BbCmd(op, key, must).op = op /\ BbCmd(op, key, must).key = key
  BY Zenon DEF BbCmd, BbCommands
<1>cl. \A b \in {"left", "right"} : BbClick(b) \in BbPrograms
  BY <1>k, BbPair, Zenon DEF BbClick
<1>st. \A b \in {"ctrl+a", "backspace", "key"} : BbStroke(b) \in BbPrograms
  BY <1>k, BbPair, Zenon DEF BbStroke
<1> HIDE DEF BbCmd
<1>q. <<BbQuery>> \in BbPrograms /\ <<BbDo>> \in BbPrograms /\ <<BbQuery>> # <<>> /\ <<BbDo>> # <<>>
  BY <1>c, <1>o, BbOne, Zenon
<1>1. BbOpen \in BbPrograms /\ BbOpen # <<>>
  BY <1>c, <1>o, BbTwo, Zenon DEF BbOpen
<1>2. BbBack \in BbPrograms /\ BbBack # <<>>
  BY <1>c, <1>o, BbTwo, Zenon DEF BbBack
<1>3. BbSwitchTab \in BbPrograms /\ BbSwitchTab # <<>>
  <2> DEFINE a == <<BbDo, BbDo>>  b == [i \in 1 .. 5 |-> BbTryDo]
  <2>1. a \in BbPrograms /\ a # <<>>
    BY <1>c, <1>o, BbTwo, Zenon
  <2>2. b \in Seq(BbCommands)
    <3>1. b \in [1 .. 5 -> BbCommands] /\ 5 \in Nat
      BY <1>c, Zenon
    <3> HIDE DEF b
    <3> QED BY <3>1, BbListed, Zenon
  <2>3. \A i \in 1 .. Len(b) : b[i].op # "down"
    <3>1. DOMAIN b = 1 .. 5 /\ \A i \in 1 .. 5 : b[i] = BbTryDo
      BY Zenon
    <3>2. DOMAIN b = 1 .. Len(b)
      <4> HIDE DEF b
      <4> QED BY <2>2
    <3> HIDE DEF b
    <3> QED BY <3>1, <3>2, <1>o, Zenon
  <2> HIDE DEF a, b
  <2>4. b \in BbPrograms
    BY <2>2, <2>3, BbHarmless, Zenon
  <2> QED BY <2>1, <2>4, BbNotEmpty, Zenon DEF BbSwitchTab, a, b
<1>4. \A b \in {"left", "right"} : <<BbQuery>> \o BbClick(b) \in BbPrograms
                                    /\ <<BbQuery>> \o BbClick(b) # <<>>
  BY <1>cl, <1>q, BbNotEmpty, Zenon
<1>5. BbTypeTool \in BbPrograms /\ BbTypeTool # <<>>
  <2> DEFINE a == BbStroke("ctrl+a")  b == BbStroke("backspace")
             q == <<BbQuery>>  d == <<BbDo>>
  <2>1. a \in BbPrograms /\ b \in BbPrograms /\ q \in BbPrograms /\ d \in BbPrograms /\ q # <<>>
    BY <1>st, <1>q, Zenon
  <2> HIDE DEF a, b, q, d
  <2>3. q \o a \in BbPrograms /\ q \o a # <<>>
    BY <2>1, BbNotEmpty, Zenon
  <2>4. (q \o a) \o b \in BbPrograms /\ (q \o a) \o b # <<>>
    BY <2>1, <2>3, BbNotEmpty, Zenon
  <2>5. ((q \o a) \o b) \o d \in BbPrograms /\ ((q \o a) \o b) \o d # <<>>
    BY <2>1, <2>4, BbNotEmpty, Zenon
  <2> QED BY <2>5, Zenon DEF BbTypeTool, a, b, q, d
<1>6. BbPressKeyTool \in BbPrograms /\ BbPressKeyTool # <<>>
  BY <1>st, Zenon DEF BbPressKeyTool, BbStroke
<1>7. BbScrollTool \in BbPrograms /\ BbScrollTool # <<>>
  BY <1>c, <1>o, BbTwo, Zenon DEF BbScrollTool
<1>8. BbHoverTool \in BbPrograms /\ BbHoverTool # <<>> /\ BbScreenshotTool \in BbPrograms
      /\ BbScreenshotTool # <<>>
  BY <1>c, <1>o, BbTwo, Zenon DEF BbHoverTool, BbScreenshotTool
<1>9. BbDragTool \in BbPrograms /\ BbDragTool # <<>>
  <2> DEFINE a == BbCmd("down", "left", FALSE)  b == BbCmd("up", "left", FALSE)
             q == BbQuery  t == BbTryDo
             p == <<q, q, a, t, b>>
  <2>1. a \in BbCommands /\ b \in BbCommands /\ a.op = "down" /\ b.op = "up" /\ a.key = b.key
        /\ q \in BbCommands /\ t \in BbCommands /\ q.op # "down"
    BY <1>k, <1>c, <1>o, Zenon
  <2>t. t.op = "do"
    BY Zenon DEF BbTryDo, BbCmd
  <2> HIDE DEF a, b, q, t
  <2>s. p \in Seq(BbCommands) /\ Len(p) = 5
    BY <2>1
  <2>p. p[1] = q /\ p[2] = q /\ p[3] = a /\ p[4] = t /\ p[5] = b
    BY Zenon
  <2>2. /\ p \in Seq(BbCommands)
        /\ Len(p) = 5 /\ p[1] = q /\ p[2] = q /\ p[3] = a /\ p[4] = t /\ p[5] = b
    BY <2>s, <2>p, Zenon
  <2>e. p # <<>>
    BY Zenon
  <2> HIDE DEF p
  <2>3. ASSUME NEW i \in 1 .. Len(p), p[i].op = "down"
        PROVE  \E j \in i + 1 .. Len(p) : BbReleasedAt(p, p[i].key, i, j)
    <3>0. i = 1 \/ i = 2 \/ i = 3 \/ i = 4 \/ i = 5
      BY <2>2
    <3>1. i = 3
      BY <3>0, <2>1, <2>t, <2>2, <2>3, Zenon
    <3>2. 5 \in i + 1 .. Len(p) /\ \A n \in i .. 5 : n = 3 \/ n = 4 \/ n = 5
      BY <2>2, <3>1
    <3>3. BbReleasedAt(p, p[i].key, i, 5)
      BY <2>1, <2>2, <2>t, <3>1, <3>2, Zenon DEF BbReleasedAt, BbMayStop
    <3> QED BY <3>2, <3>3, Zenon
  <2>4. p \in BbPrograms
    BY <2>2, <2>3, Zenon DEF BbPrograms, BbBalanced
  <2> QED BY <2>4, <2>e, Zenon DEF p, a, b, q, t, BbDragTool
<1>10. BbSelectTool \in BbPrograms /\ BbSelectTool # <<>> /\ BbEvalTool \in BbPrograms
       /\ BbEvalTool # <<>> /\ BbWaitTool \in BbPrograms /\ BbWaitTool # <<>>
  BY <1>q, Zenon DEF BbSelectTool, BbEvalTool, BbWaitTool
<1>11. BbUploadTool \in BbPrograms /\ BbUploadTool # <<>>
  BY <1>c, <1>o, BbThree, Zenon DEF BbUploadTool
<1>12. /\ BbClickTool \in BbPrograms /\ BbClickTool # <<>> /\ BbDoubleClickTool \in BbPrograms
       /\ BbDoubleClickTool # <<>> /\ BbRightClickTool \in BbPrograms /\ BbRightClickTool # <<>>
  BY <1>4, Zenon DEF BbClickTool, BbDoubleClickTool, BbRightClickTool
<1> QED BY <1>1, <1>2, <1>3, <1>5, <1>6, <1>7, <1>8, <1>9, <1>10, <1>11, <1>12 DEF BbProgram

BbKeys == {"", "left", "right", "ctrl+a", "backspace", "key"}

BbTypes ==
    /\ bbAt \in [BbRequests -> {"new", "loop", "start", "wait", "tool", "close", "done"}]
    /\ bbUses \in [BbRequests -> BbHolders] /\ bbCurrent \in BbHolders
    /\ bbSession \in [BbHolders -> BOOLEAN] /\ bbDir \in [BbHolders -> BOOLEAN]
    /\ bbLock \in [BbHolders -> BbRequests \cup {"free"}]
    /\ bbProc \in [BbHolders -> {"none", "up", "dead"}]
    /\ bbProg \in [BbRequests -> BbPrograms]
    /\ bbHeld \in [BbHolders -> SUBSET BbKeys]
    /\ bbFaults \in Nat

\* A launch keeps the mutex of its holder and begins where there is no process;
\* a session has a browser, and its mutex is free.
BbLaunches ==
    /\ \A r \in BbRequests :
         /\ bbAt[r] \in {"start", "wait"} => bbLock[bbUses[r]] = r
         /\ bbAt[r] = "start" => bbProc[bbUses[r]] = "none"
         /\ bbAt[r] \in {"start", "wait", "tool"} => bbProg[r] # <<>>
    /\ \A h \in BbHolders :
         /\ bbSession[h] => bbLock[h] = "free" /\ bbProc[h] # "none"
         /\ bbProc[h] # "none" \/ bbDir[h] => bbSession[h] \/ bbLock[h] # "free"
         /\ ~bbSession[h] => bbHeld[h] = {}

\* Without a fault no browser is dead, and whatever is pressed will be released
\* by the tool of some request that uses the holder.
BbWillRelease ==
    bbFaults = 0 => \A h \in BbHolders :
        /\ bbProc[h] # "dead"
        /\ \A key \in bbHeld[h] : \E r \in BbRequests :
               bbUses[r] = h /\ bbAt[r] = "tool" /\ BbReleases(bbProg[r], key)

BbInv == BbTypes /\ BbLaunches /\ BbWillRelease

\* The program of a tool that has finished.
LEMMA BbEmptyProgram == <<>> \in BbPrograms
<1>1. <<>> \in Seq(BbCommands) /\ Len(<<>>) = 0
  OBVIOUS
<1> QED BY <1>1 DEF BbPrograms, BbBalanced

\* What a command does to the keys held leaves a set of keys.
LEMMA BbEffectType ==
  ASSUME NEW cmd \in BbCommands, NEW held \in SUBSET BbKeys
  PROVE  BbEffect(cmd, held) \in SUBSET BbKeys
BY Zenon DEF BbEffect, BbCommands, BbKeys

\* The types are kept by every step.
LEMMA BbTypesStep == BbInv /\ [BbNext]_bbVars => BbTypes'
<1> SUFFICES ASSUME BbInv, [BbNext]_bbVars PROVE BbTypes'
  BY Zenon
<1> USE DEF BbTypes
<1>i. BbTypes /\ BbLaunches
  BY Zenon DEF BbInv
<1>1. ASSUME NEW r \in BbRequests, NEW kind \in {"execute", "call"}, BbBuildRegistry(r, kind)
      PROVE  BbTypes'
  BY <1>i, <1>1, Zenon DEF BbBuildRegistry, bbBrowser, BbHolders
<1>2. ASSUME NEW r \in BbRequests, BbCallOnBoot(r) PROVE BbTypes'
  BY <1>i, <1>2, Zenon DEF BbCallOnBoot, bbBrowser
<1>3. ASSUME NEW r \in BbRequests, BbStart(r) PROVE BbTypes'
  <2>1. CASE /\ bbProc' = [bbProc EXCEPT ![bbUses[r]] = "up"]
             /\ bbAt' = [bbAt EXCEPT ![r] = "wait"]
             /\ UNCHANGED <<bbDir, bbProg, bbLock>>
    BY <1>i, <1>3, <2>1, Zenon DEF BbStart
  <2>2. CASE BbLaunchFails(r) /\ bbDir' = [bbDir EXCEPT ![bbUses[r]] = FALSE]
    BY <1>i, <1>3, <2>2, BbEmptyProgram, Zenon DEF BbStart, BbLaunchFails
  <2> QED BY <1>3, <2>1, <2>2, Zenon DEF BbStart
<1>4. ASSUME NEW r \in BbRequests, BbWait(r) PROVE BbTypes'
  <2>1. CASE /\ bbSession' = [bbSession EXCEPT ![bbUses[r]] = TRUE]
             /\ bbLock' = [bbLock EXCEPT ![bbUses[r]] = "free"]
             /\ bbAt' = [bbAt EXCEPT ![r] = "tool"]
             /\ UNCHANGED <<bbProg, bbProc, bbDir, bbHeld>>
    BY <1>i, <1>4, <2>1, Zenon DEF BbWait
  <2>2. CASE BbLaunchFails(r) /\ BbReap(bbUses[r]) /\ UNCHANGED bbSession
    BY <1>i, <1>4, <2>2, BbEmptyProgram, Zenon DEF BbWait, BbLaunchFails, BbReap
  <2> QED BY <1>4, <2>1, <2>2, Zenon DEF BbWait
<1>5. ASSUME NEW r \in BbRequests, BbCommand(r) PROVE BbTypes'
  <2>1. Tail(bbProg[r]) \in BbPrograms /\ Head(bbProg[r]) \in BbCommands
    BY <1>i, <1>5, BbTail, Zenon DEF BbCommand, BbLaunches
  <2>2. BbEffect(Head(bbProg[r]), bbHeld[bbUses[r]]) \in SUBSET BbKeys
    BY <1>i, <2>1, BbEffectType, Zenon
  <2>3. ASSUME NEW rest \in BbPrograms, BbAdvance(r, rest)
        PROVE  /\ bbProg' \in [BbRequests -> BbPrograms]
               /\ bbAt' \in [BbRequests -> {"new", "loop", "start", "wait", "tool", "close", "done"}]
    BY <1>i, <2>3, Zenon DEF BbAdvance
  <2>4. bbHeld' \in [BbHolders -> SUBSET BbKeys]
    BY <1>i, <1>5, <2>2, Zenon DEF BbCommand
  <2>5. /\ bbProg' \in [BbRequests -> BbPrograms]
        /\ bbAt' \in [BbRequests -> {"new", "loop", "start", "wait", "tool", "close", "done"}]
    BY <1>5, <2>1, <2>3, BbEmptyProgram, Zenon DEF BbCommand
  <2> QED BY <1>i, <1>5, <2>4, <2>5, Zenon DEF BbCommand
<1>6. ASSUME NEW r \in BbRequests, BbCommandFails(r) PROVE BbTypes'
  <2>1. Tail(bbProg[r]) \in BbPrograms
    BY <1>i, <1>6, BbTail, Zenon DEF BbCommandFails, BbLaunches
  <2> QED BY <1>i, <1>6, <2>1, BbEmptyProgram DEF BbCommandFails, BbAdvance, bbBrowser
<1>7. ASSUME NEW r \in BbRequests, BbFinish(r) PROVE BbTypes'
  BY <1>i, <1>7, Zenon DEF BbFinish, bbBrowser
<1>8. ASSUME NEW r \in BbRequests, BbClose(r) PROVE BbTypes'
  BY <1>i, <1>8, Zenon DEF BbClose, BbReap
<1>9. ASSUME NEW r \in BbRequests, NEW tool \in BbChosen, BbTool(r, tool) PROVE BbTypes'
  <2>1. BbProgram[tool] \in BbPrograms
    BY BbToolsBalanced, BbAssumption, Zenon
  <2> HIDE DEF BbProgram
  <2> QED BY <1>i, <1>9, <2>1, Zenon DEF BbTool, bbBrowser
<1>10. ASSUME NEW h \in BbHolders, BbCrash(h) PROVE BbTypes'
  BY <1>i, <1>10 DEF BbCrash
<1>11. CASE UNCHANGED bbVars
  BY <1>i, <1>11, Zenon DEF bbVars
<1> QED BY <1>1, <1>2, <1>3, <1>4, <1>5, <1>6, <1>7, <1>8, <1>9, <1>10, <1>11, Zenon DEF BbNext

\* Launches in flight and the browser kept are what accounts for the processes.
LEMMA BbLaunchesStep == BbInv /\ [BbNext]_bbVars => BbLaunches'
<1> SUFFICES ASSUME BbInv, [BbNext]_bbVars PROVE BbLaunches'
  BY Zenon
<1> USE BbAssumption DEF BbTypes, BbLaunches
<1> HIDE DEF BbProgram
<1>i. BbTypes /\ BbLaunches
  BY Zenon DEF BbInv
<1>1. ASSUME NEW r \in BbRequests, NEW kind \in {"execute", "call"}, BbBuildRegistry(r, kind)
      PROVE  BbLaunches'
  BY <1>i, <1>1 DEF BbBuildRegistry, bbBrowser, BbHolders
<1>2. ASSUME NEW r \in BbRequests, BbCallOnBoot(r) PROVE BbLaunches'
  BY <1>i, <1>2 DEF BbCallOnBoot, bbBrowser
<1>3. ASSUME NEW r \in BbRequests, BbStart(r) PROVE BbLaunches'
  BY <1>i, <1>3 DEF BbStart, BbLaunchFails
<1>4. ASSUME NEW r \in BbRequests, BbWait(r) PROVE BbLaunches'
  BY <1>i, <1>4 DEF BbWait, BbLaunchFails, BbReap
<1>5. ASSUME NEW r \in BbRequests, BbCommand(r) PROVE BbLaunches'
  BY <1>i, <1>5 DEF BbCommand, BbAdvance
<1>6. ASSUME NEW r \in BbRequests, BbCommandFails(r) PROVE BbLaunches'
  BY <1>i, <1>6 DEF BbCommandFails, BbAdvance, bbBrowser
<1>7. ASSUME NEW r \in BbRequests, BbFinish(r) PROVE BbLaunches'
  BY <1>i, <1>7 DEF BbFinish, bbBrowser
<1>8. ASSUME NEW r \in BbRequests, BbClose(r) PROVE BbLaunches'
  BY <1>i, <1>8 DEF BbClose, BbReap
<1>9. ASSUME NEW r \in BbRequests, NEW tool \in BbChosen, BbTool(r, tool) PROVE BbLaunches'
  <2>1. BbProgram[tool] # <<>>
    BY BbToolsBalanced, Zenon
  <2> QED BY <1>i, <1>9, <2>1 DEF BbTool, bbBrowser
<1>10. ASSUME NEW h \in BbHolders, BbCrash(h) PROVE BbLaunches'
  BY <1>i, <1>10, Zenon DEF BbCrash
<1>11. CASE UNCHANGED bbVars
  BY <1>i, <1>11, Zenon DEF bbVars
<1> QED BY <1>1, <1>2, <1>3, <1>4, <1>5, <1>6, <1>7, <1>8, <1>9, <1>10, <1>11, Zenon DEF BbNext

\* A step that presses nothing and disturbs no tool at work.
LEMMA BbQuiet ==
  ASSUME BbInv, bbFaults' = bbFaults,
         \A h \in BbHolders : bbProc'[h] # "dead" \/ bbProc'[h] = bbProc[h],
         \A h \in BbHolders : bbHeld'[h] = {} \/ bbHeld'[h] = bbHeld[h],
         \A r \in BbRequests : bbAt[r] = "tool" =>
             bbAt'[r] = "tool" /\ bbUses'[r] = bbUses[r] /\ bbProg'[r] = bbProg[r]
  PROVE  BbWillRelease'
<1> SUFFICES ASSUME bbFaults' = 0, NEW h \in BbHolders'
             PROVE  /\ bbProc'[h] # "dead"
                    /\ \A key \in bbHeld'[h] : \E r \in BbRequests :
                          bbUses'[r] = h /\ bbAt'[r] = "tool" /\ BbReleases(bbProg'[r], key)
  BY Zenon DEF BbWillRelease
<1>1. h \in BbHolders
  BY Zenon DEF BbHolders
<1>2. /\ bbProc[h] # "dead"
      /\ \A key \in bbHeld[h] : \E r \in BbRequests :
            bbUses[r] = h /\ bbAt[r] = "tool" /\ BbReleases(bbProg[r], key)
  BY <1>1, Zenon DEF BbInv, BbWillRelease
<1>3. ASSUME NEW key \in bbHeld'[h]
      PROVE  \E r \in BbRequests :
                bbUses'[r] = h /\ bbAt'[r] = "tool" /\ BbReleases(bbProg'[r], key)
  <2>1. key \in bbHeld[h]
    BY <1>1, <1>3, Zenon
  <2>2. PICK r \in BbRequests : bbUses[r] = h /\ bbAt[r] = "tool" /\ BbReleases(bbProg[r], key)
    BY <1>2, <2>1, Zenon
  <2> QED BY <2>2, Zenon
<1> QED BY <1>1, <1>2, <1>3, Zenon

\* A key that is down will be released by the tool that pressed it.
LEMMA BbReleaseStep == BbInv /\ [BbNext]_bbVars => BbWillRelease'
<1> SUFFICES ASSUME BbInv, [BbNext]_bbVars PROVE BbWillRelease'
  BY Zenon
<1> HIDE DEF BbProgram
<1>i. BbTypes /\ BbLaunches /\ BbWillRelease
  BY Zenon DEF BbInv
<1>1. ASSUME NEW r \in BbRequests, NEW kind \in {"execute", "call"}, BbBuildRegistry(r, kind)
      PROVE  BbWillRelease'
  BY <1>i, <1>1, BbQuiet, Zenon DEF BbBuildRegistry, bbBrowser, BbTypes
<1>2. ASSUME NEW r \in BbRequests, BbCallOnBoot(r) PROVE BbWillRelease'
  BY <1>i, <1>2, BbQuiet, Zenon DEF BbCallOnBoot, bbBrowser, BbTypes
<1>3. ASSUME NEW r \in BbRequests, BbStart(r) PROVE BbWillRelease'
  BY <1>i, <1>3, BbQuiet DEF BbStart, BbLaunchFails, BbTypes
<1>4. ASSUME NEW r \in BbRequests, BbWait(r) PROVE BbWillRelease'
  BY <1>i, <1>4, BbQuiet DEF BbWait, BbLaunchFails, BbReap, BbTypes
<1>5. ASSUME NEW r \in BbRequests, BbCommand(r) PROVE BbWillRelease'
  <2> DEFINE g == bbUses[r]  cmd == Head(bbProg[r])  p == bbProg[r]  t == Tail(bbProg[r])
  <2>1. p \in BbPrograms /\ p # <<>>
    BY <1>i, <1>5, Zenon DEF BbTypes, BbLaunches, BbCommand
  <2>2. /\ cmd.op = "down" => BbReleases(t, cmd.key)
        /\ \A key : BbReleases(p, key) =>
             /\ ~BbMayStop(cmd)
             /\ BbReleases(t, key) \/ (cmd.op = "up" /\ cmd.key = key)
    BY <2>1, BbTail, Zenon
  <2>n. \A key : ~BbReleases(<<>>, key)
    <3>1. Len(<<>>) = 0
      BY Zenon
    <3> QED BY <3>1 DEF BbReleases
  <2> SUFFICES ASSUME bbFaults' = 0, NEW h \in BbHolders, NEW key \in bbHeld'[h]
               PROVE  \E q \in BbRequests :
                          bbUses'[q] = h /\ bbAt'[q] = "tool" /\ BbReleases(bbProg'[q], key)
    BY <1>i, <1>5, Zenon DEF BbCommand, BbWillRelease
  <2>f. bbFaults = 0 /\ bbUses' = bbUses
    BY <1>5, Zenon DEF BbCommand
  <2>3. ASSUME NEW q \in BbRequests, q # r
        PROVE  bbAt'[q] = bbAt[q] /\ bbProg'[q] = bbProg[q]
    BY <1>i, <1>5, <2>3 DEF BbCommand, BbAdvance, BbTypes
  <2>4. CASE /\ BbAdvance(r, t)
             /\ bbHeld' = [bbHeld EXCEPT ![g] = BbEffect(cmd, @)]
    <3>1. bbProg'[r] = t /\ (t # <<>> => bbAt'[r] = "tool")
      BY <1>i, <2>4, Zenon DEF BbAdvance, BbTypes
    <3>2. CASE key \in bbHeld[h] /\ ~(h = g /\ cmd.op = "up" /\ cmd.key = key)
      <4>1. PICK q \in BbRequests : bbUses[q] = h /\ bbAt[q] = "tool" /\ BbReleases(bbProg[q], key)
        BY <1>i, <2>f, <3>2, Zenon DEF BbWillRelease
      <4>2. CASE q # r
        BY <2>3, <2>f, <4>1, <4>2, Zenon
      <4>3. CASE q = r
        <5>1. BbReleases(t, key)
          BY <2>2, <3>2, <4>1, <4>3, Zenon
        <5>2. t # <<>>
          BY <5>1, <2>n, Zenon
        <5> QED BY <3>1, <4>1, <4>3, <5>1, <5>2, <2>f, Zenon
      <4> QED BY <4>2, <4>3, Zenon
    <3>3. CASE ~(key \in bbHeld[h] /\ ~(h = g /\ cmd.op = "up" /\ cmd.key = key))
      <4>1. h = g /\ cmd.op = "down" /\ key = cmd.key
        BY <1>i, <2>4, <3>3, Zenon DEF BbEffect, BbTypes
      <4>2. BbReleases(t, key)
        BY <2>2, <4>1, Zenon
      <4>3. t # <<>>
        BY <4>2, <2>n, Zenon
      <4> QED BY <3>1, <4>1, <4>2, <4>3, <2>f, Zenon
    <3> QED BY <3>2, <3>3, Zenon
  <2>5. CASE /\ cmd.op = "query"
             /\ BbAdvance(r, IF cmd.must THEN <<>> ELSE t)
             /\ UNCHANGED bbHeld
    <3>1. PICK q \in BbRequests : bbUses[q] = h /\ bbAt[q] = "tool" /\ BbReleases(bbProg[q], key)
      BY <1>i, <2>f, <2>5, Zenon DEF BbWillRelease
    <3>2. CASE q # r
      BY <2>3, <2>f, <3>1, <3>2, Zenon
    <3>3. CASE q = r
      <4>1. ~cmd.must /\ BbReleases(t, key)
        BY <2>2, <2>5, <3>1, <3>3, Zenon DEF BbMayStop
      <4>2. t # <<>>
        BY <4>1, <2>n, Zenon
      <4>3. bbProg'[r] = t /\ bbAt'[r] = "tool"
        BY <1>i, <2>5, <4>1, <4>2, Zenon DEF BbAdvance, BbTypes
      <4> QED BY <3>1, <3>3, <4>1, <4>3, <2>f, Zenon
    <3> QED BY <3>2, <3>3, Zenon
  <2> QED BY <1>5, <2>4, <2>5, Zenon DEF BbCommand
<1>6. ASSUME NEW r \in BbRequests, BbCommandFails(r) PROVE BbWillRelease'
  <2> SUFFICES ASSUME bbFaults' = 0 PROVE BbWillRelease'
    BY Zenon DEF BbWillRelease
  <2>1. bbFaults = 0 /\ (~bbSession[bbUses[r]] \/ bbProc[bbUses[r]] # "up")
    BY <1>i, <1>6 DEF BbCommandFails, BbTypes
  <2>2. bbHeld[bbUses[r]] = {}
    BY <1>i, <2>1 DEF BbTypes, BbLaunches, BbWillRelease
  <2>3. \A h \in BbHolders : \A key \in bbHeld[h] : h # bbUses[r]
    BY <2>2, Zenon
  <2>4. /\ bbHeld' = bbHeld /\ bbProc' = bbProc /\ bbUses' = bbUses
        /\ \A q \in BbRequests : q # r => bbAt'[q] = bbAt[q] /\ bbProg'[q] = bbProg[q]
    BY <1>i, <1>6, Zenon DEF BbCommandFails, BbAdvance, bbBrowser, BbTypes
  <2>5. ASSUME NEW h \in BbHolders, NEW key \in bbHeld'[h]
        PROVE  \E q \in BbRequests :
                  bbUses'[q] = h /\ bbAt'[q] = "tool" /\ BbReleases(bbProg'[q], key)
    <3>1. PICK q \in BbRequests : bbUses[q] = h /\ bbAt[q] = "tool" /\ BbReleases(bbProg[q], key)
      BY <1>i, <2>1, <2>4, <2>5, Zenon DEF BbWillRelease
    <3>2. q # r
      BY <2>3, <2>4, <2>5, <3>1, Zenon
    <3> QED BY <2>4, <3>1, <3>2, Zenon
  <2> QED BY <1>i, <2>1, <2>4, <2>5, Zenon DEF BbWillRelease
<1>7. ASSUME NEW r \in BbRequests, BbFinish(r) PROVE BbWillRelease'
  BY <1>i, <1>7, BbQuiet, Zenon DEF BbFinish, bbBrowser, BbTypes
<1>8. ASSUME NEW r \in BbRequests, BbClose(r) PROVE BbWillRelease'
  BY <1>i, <1>8, BbQuiet DEF BbClose, BbReap, BbTypes
<1>9. ASSUME NEW r \in BbRequests, NEW tool \in BbChosen, BbTool(r, tool) PROVE BbWillRelease'
  BY <1>i, <1>9, BbQuiet, Zenon DEF BbTool, bbBrowser, BbTypes
<1>10. ASSUME NEW h \in BbHolders, BbCrash(h) PROVE BbWillRelease'
  BY <1>i, <1>10 DEF BbCrash, BbWillRelease, BbTypes
<1>11. CASE UNCHANGED bbVars
  BY <1>i, <1>11, BbQuiet, Zenon DEF bbVars
<1> QED BY <1>1, <1>2, <1>3, <1>4, <1>5, <1>6, <1>7, <1>8, <1>9, <1>10, <1>11, Zenon DEF BbNext

\* For every set of requests and every choice of tools: a running Chrome is the
\* brain's own or one a launch in flight will keep or stop, and when no tool is
\* at work no key or button is left pressed, unless a command failed.
THEOREM BrowsersAreAccounted == BbSpec => []BbBrowserAccounted
<1>1. BbInit => BbInv
  BY BbEmptyProgram DEF BbInit, BbInv, BbTypes, BbLaunches, BbWillRelease, BbHolders
<1>2. BbInv /\ [BbNext]_bbVars => BbInv'
  BY BbTypesStep, BbLaunchesStep, BbReleaseStep, Zenon DEF BbInv
<1>3. BbInv => BbBrowserAccounted
  BY DEF BbInv, BbTypes, BbLaunches, BbWillRelease, BbBrowserAccounted
<1> QED BY <1>1, <1>2, <1>3, PTL DEF BbSpec

-----------------------------------------------------------------------------
(* The heartbeat: its verdicts follow from the pings.                      *)

\* The stale responses in the window that ends with e.
HbUpTo(all, e) == {f \in all : f[2] <= e[2] /\ f[1] >= e[1] - HbWindow}

\* The pings: none is kept for longer than the pruning allows, and each that is
\* kept counts as lost until OnHung is called.
HbPings ==
  /\ hbNow \in Nat /\ hbHung \in Nat
  /\ hbPending \subseteq 1 .. hbNow /\ hbLost \subseteq 1 .. hbNow
  /\ \A s \in hbPending : hbNow - s <= 2 * HbMiss
  /\ hbHung = 0 => hbPending \subseteq hbLost

\* OnHung is called in time and not without cause.
HbHungOnTime ==
  hbNow >= HbMiss + 2 /\ (hbNow - HbMiss - 1)..hbNow \subseteq hbPending => hbHung # 0
HbHungJustified ==
  hbHung # 0 => Cardinality({s \in hbLost : hbHung - s \in 1..(2 * HbMiss + 1)}) >= HbMiss

\* The stale responses are numbered in the order of their times, and the
\* tracker keeps all that may still count.
HbEvents ==
  /\ IsFiniteSet(hbAll)
  /\ \A e \in hbAll : e[1] \in 0 .. hbNow /\ e[2] \in Nat /\ e[2] < Cardinality(hbAll)
  /\ hbStale \subseteq hbAll
  /\ \A e \in hbAll : e[1] >= hbNow - HbWindow => e \in hbStale

HbDegradedJustified ==
  hbDegraded <=> \E e \in hbAll : Cardinality(HbUpTo(hbAll, e)) >= HbThreshold

HbInv ==
  /\ HbPings /\ HbHungOnTime /\ HbHungJustified /\ HbEvents
  /\ HbDegradedJustified /\ hbDegraded \in BOOLEAN

\* A tick judges the pings rightly.
LEMMA HbTickStep ==
  ASSUME HbPings, HbHungOnTime, HbHungJustified, HbTick
  PROVE  HbPings' /\ HbHungOnTime' /\ HbHungJustified'
<1> DEFINE now == hbNow + 1
           sent == hbPending \union {now}
<1>0. HbMiss \in Nat /\ hbNow \in Nat /\ hbHung \in Nat
  BY HbAssumption, Zenon DEF HbPings
<1>1. PICK missed \in HbMissed(sent, now) : \E old \in HbOlder(sent, now, 2 * HbMiss) :
             /\ hbPending' = sent \ old
             /\ hbHung' = IF hbHung = 0 /\ Cardinality(missed) >= HbMiss THEN now ELSE hbHung
             /\ hbLost' = IF hbHung = 0 THEN hbLost \union sent ELSE hbLost
  BY Zenon DEF HbTick
<1>2. PICK old \in HbOlder(sent, now, 2 * HbMiss) :
             /\ hbPending' = sent \ old
             /\ hbHung' = IF hbHung = 0 /\ Cardinality(missed) >= HbMiss THEN now ELSE hbHung
             /\ hbLost' = IF hbHung = 0 THEN hbLost \union sent ELSE hbLost
  BY <1>1, Zenon
<1>3. hbNow' = now
  BY Zenon DEF HbTick
<1>4. /\ {s \in sent : now - s > 1} \subseteq missed
      /\ missed \subseteq {s \in sent : now - s >= 1}
  <2>1. \/ missed = {s \in sent : now - s > 1} \/ missed = {s \in sent : now - s >= 1}
    BY <1>1, Zenon DEF HbMissed, HbOlder
  <2>2. \A s \in sent : s \in Int
    BY <1>0 DEF HbPings
  <2> QED BY <1>0, <2>1, <2>2
<1>5. {s \in sent : now - s > 2 * HbMiss} \subseteq old
  <2>1. \/ old = {s \in sent : now - s > 2 * HbMiss} \/ old = {s \in sent : now - s >= 2 * HbMiss}
    BY <1>2, Zenon DEF HbOlder
  <2>2. \A s \in sent : s \in Int
    BY <1>0 DEF HbPings
  <2> QED BY <1>0, <2>1, <2>2
<1>6. sent \subseteq 1 .. now /\ IsFiniteSet(sent) /\ \A s \in sent : now - s <= 2 * HbMiss + 1
  <2>1. sent \subseteq 1 .. now /\ \A s \in sent : now - s <= 2 * HbMiss + 1
    BY <1>0 DEF HbPings
  <2>2. IsFiniteSet(1 .. now)
    BY <1>0, FS_Interval
  <2> QED BY <2>1, <2>2, FS_Subset, Zenon
<1> HIDE DEF sent
<1>7. HbPings'
  <2>1. hbPending' \subseteq sent /\ \A s \in hbPending' : now - s <= 2 * HbMiss
    <3>1. \A s \in sent : s \in Int
      BY <1>6
    <3> QED BY <1>0, <1>2, <1>5, <3>1
  <2>2. hbLost' \subseteq 1 .. now
    <3>1. 1 .. hbNow \subseteq 1 .. now
      BY <1>0
    <3> QED BY <1>2, <1>6, <3>1, Zenon DEF HbPings
  <2>3. hbHung' = 0 => hbPending' \subseteq hbLost'
    BY <1>0, <1>2, <2>1, Zenon
  <2>4. hbHung' \in Nat /\ now \in Nat
    BY <1>0, <1>2
  <2> QED BY <1>3, <1>6, <2>1, <2>2, <2>3, <2>4, Zenon DEF HbPings
<1>8. IsFiniteSet(missed)
  BY <1>4, <1>6, FS_Subset, Zenon
<1>9. HbHungOnTime'
  <2> SUFFICES ASSUME now >= HbMiss + 2, (now - HbMiss - 1)..now \subseteq hbPending', hbHung = 0
               PROVE  hbHung' # 0
    BY <1>0, <1>2, <1>3, Zenon DEF HbHungOnTime
  <2> DEFINE gap == (now - HbMiss - 1)..(now - 2)
  <2>1. gap \subseteq missed
    <3>1. \A s \in gap : s \in (now - HbMiss - 1)..now /\ now - s > 1
      BY <1>0
    <3>2. \A s \in gap : s \in sent
      BY <1>2, <3>1, Zenon
    <3> QED BY <1>4, <3>1, <3>2, Zenon
  <2>2. Cardinality(gap) = HbMiss
    <3>1. now - HbMiss - 1 \in Int /\ now - 2 \in Int
      BY <1>0
    <3>2. Cardinality(gap) = IF now - HbMiss - 1 > now - 2 THEN 0
                             ELSE (now - 2) - (now - HbMiss - 1) + 1
      BY <3>1, FS_Interval, Zenon
    <3> HIDE DEF gap
    <3> QED BY <1>0, <3>2
  <2> HIDE DEF gap
  <2>3. Cardinality(gap) <= Cardinality(missed)
    BY <1>8, <2>1, FS_Subset, Zenon
  <2>4. Cardinality(missed) \in Nat
    BY <1>8, FS_CardinalityType, Zenon
  <2>5. Cardinality(missed) >= HbMiss
    BY <1>0, <2>2, <2>3, <2>4, Zenon
  <2> QED BY <1>0, <1>2, <2>5
<1>10. HbHungJustified'
  <2>1. CASE hbHung # 0
    BY <1>2, <2>1, Zenon DEF HbHungJustified
  <2>2. CASE hbHung = 0 /\ ~(Cardinality(missed) >= HbMiss)
    BY <1>2, <2>2, Zenon DEF HbHungJustified
  <2>3. CASE hbHung = 0 /\ Cardinality(missed) >= HbMiss
    <3> DEFINE lost == {s \in hbLost' : now - s \in 1..(2 * HbMiss + 1)}
    <3>1. hbHung' = now /\ hbLost' = hbLost \union sent
      BY <1>2, <2>3, Zenon
    <3>2. missed \subseteq lost
      <4>1. \A s \in missed : s \in sent /\ s \in Int /\ now - s >= 1 /\ now - s <= 2 * HbMiss + 1
        BY <1>4, <1>6
      <4> QED BY <1>0, <3>1, <4>1
    <3>3. IsFiniteSet(lost)
      <4>1. lost \subseteq 1 .. now
        BY <1>3, <1>7, Zenon DEF HbPings
      <4>2. IsFiniteSet(1 .. now)
        BY <1>0, FS_Interval
      <4> QED BY <4>1, <4>2, FS_Subset, Zenon
    <3>4. Cardinality(missed) <= Cardinality(lost) /\ Cardinality(lost) \in Nat /\ Cardinality(missed) \in Nat
      BY <1>8, <3>2, <3>3, FS_Subset, FS_CardinalityType, Zenon
    <3>5. Cardinality(lost) >= HbMiss
      BY <1>0, <2>3, <3>4
    <3> QED BY <3>1, <3>5, Zenon DEF HbHungJustified
  <2> QED BY <2>1, <2>2, <2>3, Zenon
<1> QED BY <1>7, <1>9, <1>10, Zenon

\* A stale response is judged by its window.
LEMMA HbObserveStep ==
  ASSUME HbPings, HbEvents, HbDegradedJustified, hbDegraded \in BOOLEAN, HbObserve
  PROVE  HbEvents' /\ HbDegradedJustified' /\ hbDegraded' \in BOOLEAN
<1> DEFINE n == Cardinality(hbAll)
           e == <<hbNow, n>>
           events == HbFresh(hbStale) \union {e}
<1>0. HbWindow \in Nat /\ hbNow \in Nat /\ n \in Nat
  BY HbAssumption, FS_CardinalityType, Zenon DEF HbPings, HbEvents
<1>1. /\ hbStale' = events /\ hbAll' = hbAll \union {e} /\ hbNow' = hbNow
      /\ hbDegraded' = (hbDegraded \/ Cardinality(events) >= HbThreshold)
  BY Zenon DEF HbObserve
<1>2. e[1] = hbNow /\ e[2] = n
  BY Zenon
<1> HIDE DEF e
<1>3. \A f \in hbAll : f[1] \in 0 .. hbNow /\ f[2] \in Nat /\ f[2] < n /\ f # e
  BY <1>0, <1>2 DEF HbEvents
<1>4. IsFiniteSet(hbAll') /\ Cardinality(hbAll') = n + 1
  BY <1>1, <1>3, FS_AddElement, Zenon DEF HbEvents
<1>5. HbFresh(hbStale) = {f \in hbAll : f[1] >= hbNow - HbWindow}
  BY Zenon DEF HbFresh, HbEvents
<1> HIDE DEF n
<1>6. events = HbUpTo(hbAll', e)
  <2>1. \A f \in hbAll : f[2] <= e[2]
    BY <1>0, <1>2, <1>3
  <2>2. e[2] <= e[2] /\ e[1] >= e[1] - HbWindow
    BY <1>0, <1>2
  <2> QED BY <1>1, <1>2, <1>5, <2>1, <2>2, Zenon DEF HbUpTo
<1>7. \A f \in hbAll : HbUpTo(hbAll', f) = HbUpTo(hbAll, f)
  <2>1. \A f \in hbAll : ~(e[2] <= f[2])
    BY <1>0, <1>2, <1>3
  <2> QED BY <1>1, <2>1, Zenon DEF HbUpTo
<1>8. HbEvents'
  <2>1. \A f \in hbAll' : f[1] \in 0 .. hbNow' /\ f[2] \in Nat /\ f[2] < n + 1
    BY <1>0, <1>1, <1>2, <1>3
  <2>2. hbStale' \subseteq hbAll'
    BY <1>1, <1>5, Zenon
  <2>3. \A f \in hbAll' : f[1] >= hbNow' - HbWindow => f \in hbStale'
    BY <1>1, <1>5, Zenon
  <2> QED BY <1>4, <2>1, <2>2, <2>3, Zenon DEF HbEvents
<1>9. hbDegraded' \in BOOLEAN
  BY <1>1, Zenon
<1> HIDE DEF events
<1>10. HbDegradedJustified'
  <2>1. (\E f \in hbAll' : Cardinality(HbUpTo(hbAll', f)) >= HbThreshold)
          <=> \/ \E f \in hbAll : Cardinality(HbUpTo(hbAll, f)) >= HbThreshold
              \/ Cardinality(events) >= HbThreshold
    BY <1>1, <1>6, <1>7, Zenon
  <2> QED BY <1>1, <2>1, Zenon DEF HbDegradedJustified
<1> QED BY <1>8, <1>9, <1>10, Zenon

\* Both detectors keep the invariant.
LEMMA HbStepKeeps == HbInv /\ [HbNext]_hbVars => HbInv'
<1> SUFFICES ASSUME HbInv, [HbNext]_hbVars PROVE HbInv'
  BY Zenon
<1>0. /\ HbPings /\ HbHungOnTime /\ HbHungJustified /\ HbEvents
      /\ HbDegradedJustified /\ hbDegraded \in BOOLEAN
  BY Zenon DEF HbInv
<1>1. ASSUME UNCHANGED <<hbStale, hbAll, hbDegraded>>, hbNow' \in Nat, hbNow <= hbNow', hbNow \in Nat
      PROVE  HbEvents' /\ HbDegradedJustified' /\ hbDegraded' \in BOOLEAN
  <2>1. HbEvents'
    <3>1. \A f \in hbAll : /\ f[1] \in 0 .. hbNow /\ f[1] \in 0 .. hbNow'
                           /\ f[1] >= hbNow' - HbWindow => f[1] >= hbNow - HbWindow
      BY <1>0, <1>1, HbAssumption DEF HbEvents
    <3> QED BY <1>0, <1>1, <3>1, Zenon DEF HbEvents
  <2>2. HbDegradedJustified' /\ hbDegraded' \in BOOLEAN
    BY <1>0, <1>1, Zenon DEF HbDegradedJustified
  <2> QED BY <2>1, <2>2, Zenon
<1>2. ASSUME UNCHANGED <<hbNow, hbHung>>, hbPending' \subseteq hbPending,
             hbHung # 0 => hbLost' = hbLost, hbLost' \subseteq hbLost,
             hbHung = 0 => hbPending' \subseteq hbLost'
      PROVE  HbPings' /\ HbHungOnTime' /\ HbHungJustified'
  BY <1>0, <1>2, Zenon DEF HbPings, HbHungOnTime, HbHungJustified
<1>n. hbNow \in Nat
  BY <1>0, Zenon DEF HbPings
<1>3. CASE HbTick
  <2>1. HbPings' /\ HbHungOnTime' /\ HbHungJustified'
    BY <1>0, <1>3, HbTickStep, Zenon
  <2>2. UNCHANGED <<hbStale, hbAll, hbDegraded>> /\ hbNow' = hbNow + 1
    BY <1>3, Zenon DEF HbTick
  <2>3. HbEvents' /\ HbDegradedJustified' /\ hbDegraded' \in BOOLEAN
    BY <1>1, <1>n, <2>2
  <2> QED BY <2>1, <2>3, Zenon DEF HbInv
<1>4. ASSUME NEW s \in hbWire, HbPong(s) \/ HbLose(s) PROVE HbInv'
  <2>1. HbPings' /\ HbHungOnTime' /\ HbHungJustified'
    <3>1. /\ UNCHANGED <<hbNow, hbHung>> /\ hbPending' \subseteq hbPending
          /\ hbHung # 0 => hbLost' = hbLost
          /\ hbLost' \subseteq hbLost
          /\ hbHung = 0 => hbPending' \subseteq hbLost'
      BY <1>0, <1>4, Zenon DEF HbPong, HbLose, HbPings
    <3> QED BY <1>2, <3>1, Zenon
  <2>2. UNCHANGED <<hbStale, hbAll, hbDegraded, hbNow>>
    BY <1>4, Zenon DEF HbPong, HbLose
  <2>3. HbEvents' /\ HbDegradedJustified' /\ hbDegraded' \in BOOLEAN
    BY <1>1, <1>n, <2>2
  <2> QED BY <2>1, <2>3, Zenon DEF HbInv
<1>5. CASE HbStopLoop \/ UNCHANGED hbVars
  <2>1. UNCHANGED <<hbNow, hbPending, hbLost, hbHung, hbStale, hbAll, hbDegraded>>
    BY <1>5, Zenon DEF HbStopLoop, hbVars
  <2>2. HbPings' /\ HbHungOnTime' /\ HbHungJustified'
    BY <1>0, <2>1, Zenon DEF HbPings, HbHungOnTime, HbHungJustified
  <2>3. HbEvents' /\ HbDegradedJustified' /\ hbDegraded' \in BOOLEAN
    BY <1>1, <1>n, <2>1
  <2> QED BY <2>2, <2>3, Zenon DEF HbInv
<1>6. CASE HbObserve
  <2>1. UNCHANGED <<hbNow, hbPending, hbLost, hbHung>>
    BY <1>6, Zenon DEF HbObserve
  <2>2. HbPings' /\ HbHungOnTime' /\ HbHungJustified'
    BY <1>0, <2>1, Zenon DEF HbPings, HbHungOnTime, HbHungJustified
  <2>3. HbEvents' /\ HbDegradedJustified' /\ hbDegraded' \in BOOLEAN
    BY <1>0, <1>6, HbObserveStep, Zenon
  <2> QED BY <2>2, <2>3, Zenon DEF HbInv
<1>7. CASE HbReset
  <2>1. UNCHANGED <<hbNow, hbPending, hbLost, hbHung>> /\ hbStale' = {} /\ hbAll' = {} /\ hbDegraded' = FALSE
    BY <1>7, Zenon DEF HbReset
  <2>2. HbPings' /\ HbHungOnTime' /\ HbHungJustified'
    BY <1>0, <2>1, Zenon DEF HbPings, HbHungOnTime, HbHungJustified
  <2>3. HbEvents' /\ HbDegradedJustified' /\ hbDegraded' \in BOOLEAN
    BY <2>1, FS_EmptySet, Zenon DEF HbEvents, HbDegradedJustified
  <2> QED BY <2>2, <2>3, Zenon DEF HbInv
<1> QED BY <1>3, <1>4, <1>5, <1>6, <1>7, Zenon DEF HbNext

\* PingScheduler and StaleResponseTracker, for any thresholds and windows: both
\* verdicts are given in time and never without cause.
THEOREM HeartbeatJustified == HbSpec => []HbVerdictsJustified
<1>1. HbInit => HbInv
  <2> SUFFICES ASSUME HbInit PROVE HbInv
    BY Zenon
  <2>1. HbPings /\ HbHungOnTime /\ HbHungJustified
    BY HbAssumption DEF HbInit, HbPings, HbHungOnTime, HbHungJustified
  <2>2. HbEvents /\ HbDegradedJustified /\ hbDegraded \in BOOLEAN
    BY FS_EmptySet, Zenon DEF HbInit, HbEvents, HbDegradedJustified
  <2> QED BY <2>1, <2>2, Zenon DEF HbInv
<1>2. HbInv => HbVerdictsJustified
  BY Zenon DEF HbInv, HbVerdictsJustified, HbHungOnTime, HbHungJustified, HbDegradedJustified, HbUpTo
<1> QED BY <1>1, <1>2, HbStepKeeps, PTL DEF HbSpec

-----------------------------------------------------------------------------
(* The loop detector: its verdict is what the history shows.               *)

\* The events of a window are finitely many.
LEMMA LdWindow ==
  ASSUME NEW n \in Nat, NEW j \in Nat, NEW of
  PROVE  IsFiniteSet(of \cap (j .. n)) /\ Cardinality(of \cap (j .. n)) \in Nat
<1>1. IsFiniteSet(j .. n) /\ of \cap (j .. n) \subseteq j .. n
  BY FS_Interval
<1> QED BY <1>1, FS_Subset, FS_CardinalityType, Zenon

\* An event that does not count leaves every streak as it is.
LEMMA StreakOther ==
  ASSUME NEW n \in Nat, NEW of, NEW of2, NEW same, NEW same2, NEW k \in Nat,
         of \subseteq 1 .. n, of2 = of, same2 \cap of = same \cap of
  PROVE  Streak(n + 1, of2, same2, k) <=> Streak(n, of, same, k)
<1>0. \A j \in 1 .. n + 1 : of2 \cap (j .. n + 1) = of \cap (j .. n)
  OBVIOUS
<1>1. ASSUME Streak(n, of, same, k) PROVE Streak(n + 1, of2, same2, k)
  <2>1. PICK j \in 1 .. n : of \cap (j .. n) \subseteq same /\ Cardinality(of \cap (j .. n)) >= k
    BY <1>1, Zenon DEF Streak
  <2>2. j \in 1 .. n + 1 /\ of2 \cap (j .. n + 1) \subseteq same2
    BY <1>0, <2>1
  <2> QED BY <1>0, <1>1, <2>1, <2>2, Zenon DEF Streak
<1>2. ASSUME Streak(n + 1, of2, same2, k) PROVE Streak(n, of, same, k)
  <2>1. PICK j \in 1 .. n + 1 : of2 \cap (j .. n + 1) \subseteq same2 /\ Cardinality(of2 \cap (j .. n + 1)) >= k
    BY <1>2, Zenon DEF Streak
  <2>2. k > 0
    BY <1>2, Zenon DEF Streak
  <2>3. j # n + 1
    <3> SUFFICES ASSUME j = n + 1 PROVE FALSE
      BY Zenon
    <3>1. of \cap (j .. n) = {}
      OBVIOUS
    <3> QED BY <1>0, <2>1, <2>2, <3>1, FS_EmptySet
  <2>4. j \in 1 .. n /\ of \cap (j .. n) \subseteq same
    BY <1>0, <2>1, <2>3
  <2> QED BY <1>0, <2>1, <2>2, <2>4, Zenon DEF Streak
<1> QED BY <1>1, <1>2, Zenon

\* An event that counts and is not of the kind ends the streak.
LEMMA StreakEnds ==
  ASSUME NEW n \in Nat, NEW of2, NEW same2, NEW k \in Nat, n + 1 \in of2, n + 1 \notin same2
  PROVE  ~Streak(n + 1, of2, same2, k)
<1>1. \A j \in 1 .. n + 1 : n + 1 \in of2 \cap (j .. n + 1)
  OBVIOUS
<1> QED BY <1>1, Zenon DEF Streak

\* An event of the kind makes the streak longer by one.
LEMMA StreakGrows ==
  ASSUME NEW n \in Nat, NEW of, NEW of2, NEW same, NEW same2, NEW k \in Nat, k > 0,
         of \subseteq 1 .. n, of2 = of \cup {n + 1}, n + 1 \in same2,
         same2 \cap of = same \cap of
  PROVE  Streak(n + 1, of2, same2, k) <=> k = 1 \/ Streak(n, of, same, k - 1)
<1>0. \A j \in 1 .. n + 1 : /\ of2 \cap (j .. n + 1) = (of \cap (j .. n)) \cup {n + 1}
                            /\ n + 1 \notin of \cap (j .. n)
  OBVIOUS
<1>1. ASSUME NEW j \in 1 .. n + 1
      PROVE  /\ Cardinality(of2 \cap (j .. n + 1)) = Cardinality(of \cap (j .. n)) + 1
             /\ Cardinality(of \cap (j .. n)) \in Nat
             /\ of2 \cap (j .. n + 1) \subseteq same2 <=> of \cap (j .. n) \subseteq same
  <2>1. IsFiniteSet(of \cap (j .. n)) /\ Cardinality(of \cap (j .. n)) \in Nat
    BY LdWindow
  <2>2. Cardinality((of \cap (j .. n)) \cup {n + 1}) = Cardinality(of \cap (j .. n)) + 1
    BY <1>0, <2>1, FS_AddElement, Zenon
  <2> QED BY <1>0, <2>1, <2>2, Zenon
<1>2. ASSUME Streak(n + 1, of2, same2, k), k # 1 PROVE Streak(n, of, same, k - 1)
  <2>1. PICK j \in 1 .. n + 1 : of2 \cap (j .. n + 1) \subseteq same2 /\ Cardinality(of2 \cap (j .. n + 1)) >= k
    BY <1>2, Zenon DEF Streak
  <2>2. Cardinality(of \cap (j .. n)) >= k - 1 /\ of \cap (j .. n) \subseteq same
    BY <1>1, <2>1
  <2>3. j # n + 1
    <3> SUFFICES ASSUME j = n + 1 PROVE FALSE
      BY Zenon
    <3>1. of \cap (j .. n) = {}
      OBVIOUS
    <3> QED BY <1>2, <2>2, <3>1, FS_EmptySet
  <2>4. k - 1 > 0 /\ j \in 1 .. n
    BY <1>2, <2>3
  <2> QED BY <2>2, <2>4, Zenon DEF Streak
<1>3. ASSUME k = 1 PROVE Streak(n + 1, of2, same2, k)
  <2>1. of \cap (n + 1 .. n) = {}
    OBVIOUS
  <2>2. of2 \cap (n + 1 .. n + 1) \subseteq same2 /\ Cardinality(of2 \cap (n + 1 .. n + 1)) >= k
    BY <1>1, <1>3, <2>1, FS_EmptySet
  <2>3. n + 1 \in 1 .. n + 1
    OBVIOUS
  <2> QED BY <2>2, <2>3, Zenon DEF Streak
<1>4. ASSUME Streak(n, of, same, k - 1), k # 1 PROVE Streak(n + 1, of2, same2, k)
  <2>1. PICK j \in 1 .. n : of \cap (j .. n) \subseteq same /\ Cardinality(of \cap (j .. n)) >= k - 1
    BY <1>4, Zenon DEF Streak
  <2>2. j \in 1 .. n + 1 /\ of2 \cap (j .. n + 1) \subseteq same2 /\ Cardinality(of2 \cap (j .. n + 1)) >= k
    BY <1>1, <2>1
  <2> QED BY <2>2, Zenon DEF Streak
<1> QED BY <1>2, <1>3, <1>4, Zenon

\* Positions of one tool call, of thoughts, and of one hash.
LdCalls(sig) == {i \in Relevant : ldEvents[i].type = "tool_call" /\ <<ldEvents[i].name, ldEvents[i].hash>> = sig}
LdThoughts == {i \in Relevant : ldEvents[i].type = "content"}
LdHashedAs(h) == {i \in Hashed : ldEvents[i].hash = h}

LdSignatures == {NoSignature} \cup (Names \X Hashes)

LdBooks ==
  [lastToolSignature : LdSignatures, repeatCount : Nat, lastContentHash : Hashes \cup {NoHash},
   noProgressCount : Nat, thoughtOnlyCount : Nat]

LdTypes == ldEvents \in Seq(Events) /\ ldState \in LdBooks

\* Every counter is the length of its streak.
LdCounters ==
  /\ \A sig \in Names \X Hashes, k \in Nat \ {0} :
        Streak(Len(ldEvents), Relevant, LdCalls(sig), k)
          <=> sig = ldState.lastToolSignature /\ ldState.repeatCount >= k
  /\ \A k \in Nat \ {0} :
        Streak(Len(ldEvents), Relevant, LdThoughts, k) <=> ldState.thoughtOnlyCount >= k
  /\ \A h \in Hashes, k \in Nat \ {0} :
        Streak(Len(ldEvents), Hashed, LdHashedAs(h), k)
          <=> h # NoHash /\ h = ldState.lastContentHash /\ ldState.noProgressCount >= k

LdLatest ==
  /\ ldEvents # <<>> /\ Latest.type = "tool_call" =>
        ldState.lastToolSignature = <<Latest.name, Latest.hash>>
  /\ ldState.lastContentHash = NoHash => ldState.noProgressCount = 0

LdInv == LdTypes /\ LdCounters /\ LdLatest

\* The kinds of events.
LEMMA LdEventTypes ==
  \A e \in Events : /\ e.type \in {"tool_call", "content", "llm_call"}
                    /\ e.hash \in Hashes \cup {NoHash}
                    /\ e.type = "tool_call" =>
                         /\ e.name \in Names /\ e.hash \in Hashes
                         /\ e = [type |-> "tool_call", name |-> e.name, hash |-> e.hash]
<1> SUFFICES ASSUME NEW e \in Events
             PROVE  /\ e.type \in {"tool_call", "content", "llm_call"}
                    /\ e.hash \in Hashes \cup {NoHash}
                    /\ e.type = "tool_call" =>
                         /\ e.name \in Names /\ e.hash \in Hashes
                         /\ e = [type |-> "tool_call", name |-> e.name, hash |-> e.hash]
  BY Zenon
<1>1. CASE \E n \in Names, h \in Hashes : e = [type |-> "tool_call", name |-> n, hash |-> h]
  BY <1>1
<1>2. CASE \E n, h : h \in Hashes \cup {NoHash} /\ e = [type |-> "content", name |-> n, hash |-> h]
  BY <1>2
<1>3. CASE \E n : e = [type |-> "llm_call", name |-> n, hash |-> NoHash]
  BY <1>3
<1>4. \/ \E n \in Names, h \in Hashes : e = [type |-> "tool_call", name |-> n, hash |-> h]
      \/ \E h \in Hashes \cup {NoHash} : e = [type |-> "content", name |-> NoName, hash |-> h]
      \/ e = [type |-> "llm_call", name |-> NoName, hash |-> NoHash]
  BY DEF Events
<1> QED BY <1>1, <1>2, <1>3, <1>4, Zenon

\* The fields of the bookkeeping can be set one by one.
LEMMA LdFields ==
  ASSUME NEW s \in LdBooks
  PROVE  /\ \A x \in LdSignatures :
              LET t == [s EXCEPT !.lastToolSignature = x] IN
                /\ t \in LdBooks /\ t.lastToolSignature = x /\ t.repeatCount = s.repeatCount
                /\ t.lastContentHash = s.lastContentHash /\ t.noProgressCount = s.noProgressCount
                /\ t.thoughtOnlyCount = s.thoughtOnlyCount
         /\ \A x \in Nat :
              LET t == [s EXCEPT !.repeatCount = x] IN
                /\ t \in LdBooks /\ t.lastToolSignature = s.lastToolSignature /\ t.repeatCount = x
                /\ t.lastContentHash = s.lastContentHash /\ t.noProgressCount = s.noProgressCount
                /\ t.thoughtOnlyCount = s.thoughtOnlyCount
         /\ \A x \in Nat :
              LET t == [s EXCEPT !.thoughtOnlyCount = x] IN
                /\ t \in LdBooks /\ t.lastToolSignature = s.lastToolSignature
                /\ t.repeatCount = s.repeatCount /\ t.thoughtOnlyCount = x
                /\ t.lastContentHash = s.lastContentHash /\ t.noProgressCount = s.noProgressCount
         /\ \A x \in Hashes \cup {NoHash} :
              LET t == [s EXCEPT !.lastContentHash = x] IN
                /\ t \in LdBooks /\ t.lastToolSignature = s.lastToolSignature
                /\ t.repeatCount = s.repeatCount /\ t.thoughtOnlyCount = s.thoughtOnlyCount
                /\ t.lastContentHash = x /\ t.noProgressCount = s.noProgressCount
         /\ \A x \in Nat :
              LET t == [s EXCEPT !.noProgressCount = x] IN
                /\ t \in LdBooks /\ t.lastToolSignature = s.lastToolSignature
                /\ t.repeatCount = s.repeatCount /\ t.thoughtOnlyCount = s.thoughtOnlyCount
                /\ t.lastContentHash = s.lastContentHash /\ t.noProgressCount = x
BY Zenon DEF LdBooks

\* bumpNoProgress counts a hash that repeats.
LEMMA LdBump ==
  ASSUME NEW s \in LdBooks, NEW h \in Hashes \cup {NoHash}
  PROVE  LET t == bumpNoProgress(s, h) IN
           /\ t \in LdBooks
           /\ t.lastToolSignature = s.lastToolSignature /\ t.repeatCount = s.repeatCount
           /\ t.thoughtOnlyCount = s.thoughtOnlyCount
           /\ t.lastContentHash = IF h = NoHash THEN s.lastContentHash ELSE h
           /\ t.noProgressCount = IF h = NoHash THEN s.noProgressCount
                                  ELSE IF h = s.lastContentHash THEN s.noProgressCount + 1 ELSE 1
<1>1. CASE h = NoHash
  BY <1>1, Zenon DEF bumpNoProgress
<1>2. CASE h # NoHash
  <2> DEFINE one == [s EXCEPT !.lastContentHash = h]
             c == IF h = s.lastContentHash THEN s.noProgressCount + 1 ELSE 1
             two == [one EXCEPT !.noProgressCount = c]
  <2>1. /\ one \in LdBooks /\ one.lastToolSignature = s.lastToolSignature
        /\ one.repeatCount = s.repeatCount /\ one.thoughtOnlyCount = s.thoughtOnlyCount
        /\ one.lastContentHash = h /\ one.noProgressCount = s.noProgressCount
    BY LdFields, Zenon
  <2>2. bumpNoProgress(s, h) = two
    BY <1>2, <2>1, Zenon DEF bumpNoProgress
  <2>3. c \in Nat
    BY DEF LdBooks
  <2> HIDE DEF one, c
  <2>4. /\ two \in LdBooks /\ two.lastToolSignature = one.lastToolSignature
        /\ two.repeatCount = one.repeatCount /\ two.thoughtOnlyCount = one.thoughtOnlyCount
        /\ two.lastContentHash = one.lastContentHash /\ two.noProgressCount = c
    BY <2>1, <2>3, LdFields
  <2> HIDE DEF two
  <2> QED BY <1>2, <2>1, <2>2, <2>4, Zenon DEF c
<1> QED BY <1>1, <1>2, Zenon

\* What Observe makes of the bookkeeping.
LEMMA LdObserved ==
  ASSUME NEW s \in LdBooks, NEW e \in Events
  PROVE  LET t == Observe(s, e) IN
           /\ t \in LdBooks
           /\ e.type = "llm_call" => t = s
           /\ e.type = "tool_call" =>
                /\ t.lastToolSignature = <<e.name, e.hash>> /\ t.thoughtOnlyCount = 0
                /\ t.repeatCount = IF <<e.name, e.hash>> = s.lastToolSignature THEN s.repeatCount + 1 ELSE 1
           /\ e.type = "content" =>
                /\ t.lastToolSignature = NoSignature /\ t.repeatCount = 0
                /\ t.thoughtOnlyCount = s.thoughtOnlyCount + 1
           /\ e.type # "llm_call" =>
                /\ t.lastContentHash = IF e.hash = NoHash THEN s.lastContentHash ELSE e.hash
                /\ t.noProgressCount = IF e.hash = NoHash THEN s.noProgressCount
                                       ELSE IF e.hash = s.lastContentHash THEN s.noProgressCount + 1 ELSE 1
<1> DEFINE t == Observe(s, e)
           sig == <<e.name, e.hash>>
<1>0. /\ e.hash \in Hashes \cup {NoHash} /\ e.type \in {"tool_call", "content", "llm_call"}
      /\ (e.type = "tool_call" => sig \in LdSignatures)
  BY LdEventTypes, Zenon DEF LdSignatures
<1>1. CASE e.type = "llm_call"
  BY <1>1, Zenon DEF Observe
<1>2. CASE e.type = "tool_call"
  <2> DEFINE one == [s EXCEPT !.lastToolSignature = sig]
             c == IF sig = s.lastToolSignature THEN s.repeatCount + 1 ELSE 1
             two == [one EXCEPT !.repeatCount = c]
             m == [two EXCEPT !.thoughtOnlyCount = 0]
  <2> HIDE DEF sig
  <2>2. /\ one \in LdBooks /\ one.lastToolSignature = sig /\ one.repeatCount = s.repeatCount
        /\ one.lastContentHash = s.lastContentHash /\ one.noProgressCount = s.noProgressCount
        /\ one.thoughtOnlyCount = s.thoughtOnlyCount
    BY <1>0, <1>2, LdFields, Zenon
  <2>1. t = bumpNoProgress(m, e.hash)
    BY <1>2, <2>2, Zenon DEF Observe, ObserveToolCall, sig
  <2>3. c \in Nat
    BY DEF LdBooks
  <2> HIDE DEF one, c
  <2>4. /\ two \in LdBooks /\ two.lastToolSignature = one.lastToolSignature /\ two.repeatCount = c
        /\ two.lastContentHash = one.lastContentHash /\ two.noProgressCount = one.noProgressCount
        /\ two.thoughtOnlyCount = one.thoughtOnlyCount
    BY <2>2, <2>3, LdFields, Zenon
  <2> HIDE DEF two
  <2>5. /\ m \in LdBooks /\ m.lastToolSignature = two.lastToolSignature
        /\ m.repeatCount = two.repeatCount /\ m.thoughtOnlyCount = 0
        /\ m.lastContentHash = two.lastContentHash /\ m.noProgressCount = two.noProgressCount
    BY <2>4, LdFields
  <2>6. /\ m \in LdBooks
        /\ m.lastToolSignature = sig /\ m.thoughtOnlyCount = 0
        /\ m.repeatCount = IF sig = s.lastToolSignature THEN s.repeatCount + 1 ELSE 1
        /\ m.lastContentHash = s.lastContentHash /\ m.noProgressCount = s.noProgressCount
    BY <2>2, <2>4, <2>5, Zenon DEF c
  <2> HIDE DEF m, t
  <2> QED BY <1>0, <1>2, <2>1, <2>6, LdBump DEF t, sig
<1>3. CASE e.type = "content"
  <2> DEFINE c == s.thoughtOnlyCount + 1
             one == [s EXCEPT !.thoughtOnlyCount = c]
             two == [one EXCEPT !.lastToolSignature = NoSignature]
             m == [two EXCEPT !.repeatCount = 0]
  <2>1. t = bumpNoProgress(m, e.hash)
    BY <1>3, Zenon DEF Observe, ObserveContent
  <2>2. c \in Nat /\ NoSignature \in LdSignatures
    BY DEF LdBooks, LdSignatures
  <2> HIDE DEF c
  <2>3. /\ one \in LdBooks /\ one.lastToolSignature = s.lastToolSignature
        /\ one.repeatCount = s.repeatCount /\ one.thoughtOnlyCount = c
        /\ one.lastContentHash = s.lastContentHash /\ one.noProgressCount = s.noProgressCount
    BY <2>2, LdFields, Zenon
  <2> HIDE DEF one
  <2>4. /\ two \in LdBooks /\ two.lastToolSignature = NoSignature /\ two.repeatCount = one.repeatCount
        /\ two.lastContentHash = one.lastContentHash /\ two.noProgressCount = one.noProgressCount
        /\ two.thoughtOnlyCount = one.thoughtOnlyCount
    BY <2>2, <2>3, LdFields, Zenon
  <2> HIDE DEF two
  <2>5. /\ m \in LdBooks /\ m.lastToolSignature = two.lastToolSignature /\ m.repeatCount = 0
        /\ m.lastContentHash = two.lastContentHash /\ m.noProgressCount = two.noProgressCount
        /\ m.thoughtOnlyCount = two.thoughtOnlyCount
    BY <2>4, LdFields
  <2>6. /\ m \in LdBooks
        /\ m.lastToolSignature = NoSignature /\ m.thoughtOnlyCount = s.thoughtOnlyCount + 1
        /\ m.repeatCount = 0
        /\ m.lastContentHash = s.lastContentHash /\ m.noProgressCount = s.noProgressCount
    BY <2>3, <2>4, <2>5, Zenon DEF c
  <2> HIDE DEF m, t
  <2> QED BY <1>0, <1>3, <2>1, <2>6, LdBump DEF t
<1> QED BY <1>0, <1>1, <1>2, <1>3, Zenon

\* What one more event adds to the positions.
LEMMA LdPositions ==
  ASSUME LdTypes, NEW e \in Events, ldEvents' = Append(ldEvents, e)
  PROVE  LET n == Len(ldEvents) IN
           /\ n \in Nat /\ Len(ldEvents') = n + 1 /\ ldEvents' # <<>> /\ ldEvents'[n + 1] = e
           /\ Relevant \subseteq 1 .. n /\ Hashed \subseteq 1 .. n
           /\ Relevant' = Relevant \cup (IF e.type = "llm_call" THEN {} ELSE {n + 1})
           /\ Hashed' = Hashed \cup (IF e.type = "llm_call" \/ e.hash = NoHash THEN {} ELSE {n + 1})
           /\ \A sig : LdCalls(sig)' = LdCalls(sig)
                \cup (IF e.type = "tool_call" /\ <<e.name, e.hash>> = sig THEN {n + 1} ELSE {})
           /\ LdThoughts' = LdThoughts \cup (IF e.type = "content" THEN {n + 1} ELSE {})
           /\ \A h : LdHashedAs(h)' = LdHashedAs(h)
                \cup (IF e.type # "llm_call" /\ e.hash # NoHash /\ e.hash = h THEN {n + 1} ELSE {})
           /\ \A sig : LdCalls(sig) \subseteq Relevant
           /\ LdThoughts \subseteq Relevant
           /\ \A h : LdHashedAs(h) \subseteq Hashed
<1> DEFINE n == Len(ldEvents)
<1>1. /\ n \in Nat /\ Len(ldEvents') = n + 1 /\ ldEvents' # <<>> /\ ldEvents'[n + 1] = e
      /\ DOMAIN ldEvents = 1 .. n /\ DOMAIN ldEvents' = (1 .. n) \cup {n + 1} /\ n + 1 \notin 1 .. n
      /\ \A i \in 1 .. n : ldEvents'[i] = ldEvents[i]
  BY DEF LdTypes
<1> HIDE DEF n
<1>2. /\ Relevant \subseteq 1 .. n
      /\ Relevant' = Relevant \cup (IF e.type = "llm_call" THEN {} ELSE {n + 1})
  BY <1>1 DEF Relevant
<1>3. /\ Hashed \subseteq 1 .. n
      /\ Hashed' = Hashed \cup (IF e.type = "llm_call" \/ e.hash = NoHash THEN {} ELSE {n + 1})
  BY <1>1, <1>2, Zenon DEF Hashed
<1>4. ASSUME NEW sig
      PROVE  LdCalls(sig)' = LdCalls(sig)
               \cup (IF e.type = "tool_call" /\ <<e.name, e.hash>> = sig THEN {n + 1} ELSE {})
  BY <1>1, <1>2, Zenon DEF LdCalls
<1>5. LdThoughts' = LdThoughts \cup (IF e.type = "content" THEN {n + 1} ELSE {})
  BY <1>1, <1>2, Zenon DEF LdThoughts
<1>6. ASSUME NEW h
      PROVE  LdHashedAs(h)' = LdHashedAs(h)
               \cup (IF e.type # "llm_call" /\ e.hash # NoHash /\ e.hash = h THEN {n + 1} ELSE {})
  BY <1>1, <1>3, Zenon DEF LdHashedAs
<1>7. /\ \A sig : LdCalls(sig) \subseteq Relevant
      /\ LdThoughts \subseteq Relevant
      /\ \A h : LdHashedAs(h) \subseteq Hashed
  BY Zenon DEF LdCalls, LdThoughts, LdHashedAs
<1> QED BY <1>1, <1>2, <1>3, <1>4, <1>5, <1>6, <1>7, Zenon DEF n

\* A streak of n + 1 events from a streak of n: the last event does not count,
\* counts and is of another kind, or is of the kind.
LEMMA LdStreak ==
  ASSUME NEW n \in Nat, NEW of \in SUBSET (1 .. n), NEW same \in SUBSET of, NEW k \in Nat \ {0}
  PROVE  /\ Streak(n + 1, of, same, k) <=> Streak(n, of, same, k)
         /\ ~Streak(n + 1, of \cup {n + 1}, same, k)
         /\ Streak(n + 1, of \cup {n + 1}, same \cup {n + 1}, k) <=> k = 1 \/ Streak(n, of, same, k - 1)
<1>1. /\ n + 1 \notin of /\ n + 1 \notin same /\ k \in Nat /\ k > 0 /\ of \subseteq 1 .. n
      /\ (same \cup {n + 1}) \cap of = same \cap of
  OBVIOUS
<1>2. Streak(n + 1, of, same, k) <=> Streak(n, of, same, k)
  BY <1>1, StreakOther, Zenon
<1>3. ~Streak(n + 1, of \cup {n + 1}, same, k)
  BY <1>1, StreakEnds, Zenon
<1>4. Streak(n + 1, of \cup {n + 1}, same \cup {n + 1}, k) <=> k = 1 \/ Streak(n, of, same, k - 1)
  <2> DEFINE of2 == of \cup {n + 1}
             same2 == same \cup {n + 1}
  <2>1. of2 = of \cup {n + 1} /\ n + 1 \in same2 /\ same2 \cap of = same \cap of
    BY <1>1, Zenon
  <2> HIDE DEF of2, same2
  <2>2. Streak(n + 1, of2, same2, k) <=> k = 1 \/ Streak(n, of, same, k - 1)
    BY <1>1, <2>1, StreakGrows, Zenon
  <2> QED BY <2>2, Zenon DEF of2, same2
<1> QED BY <1>2, <1>3, <1>4, Zenon

\* The empty signature is no tool call's.
LEMMA LdNoSignature == \A sig \in Names \X Hashes : sig # NoSignature
BY DEF NoSignature

\* Every event keeps the counters equal to the streaks.
LEMMA LdStep ==
  ASSUME LdInv, NEW e \in Events, ldEvents' = Append(ldEvents, e), ldState' = Observe(ldState, e)
  PROVE  LdInv'
<1> DEFINE n == Len(ldEvents)
           s == ldState
           t == ldState'
           counts == e.type # "llm_call"
           hashes == counts /\ e.hash # NoHash
<1>1. /\ n \in Nat /\ Len(ldEvents') = n + 1 /\ ldEvents' # <<>> /\ ldEvents'[n + 1] = e
      /\ Relevant \subseteq 1 .. n /\ Hashed \subseteq 1 .. n
      /\ Relevant' = Relevant \cup (IF counts THEN {n + 1} ELSE {})
      /\ Hashed' = Hashed \cup (IF hashes THEN {n + 1} ELSE {})
      /\ LdThoughts' = LdThoughts \cup (IF e.type = "content" THEN {n + 1} ELSE {})
      /\ LdThoughts \subseteq Relevant
  BY LdPositions, Zenon DEF LdInv
<1>2. ASSUME NEW sig
      PROVE  /\ LdCalls(sig) \subseteq Relevant
             /\ LdCalls(sig)' = LdCalls(sig)
                  \cup (IF e.type = "tool_call" /\ <<e.name, e.hash>> = sig THEN {n + 1} ELSE {})
  BY LdPositions, Zenon DEF LdInv
<1>3. ASSUME NEW h
      PROVE  /\ LdHashedAs(h) \subseteq Hashed
             /\ LdHashedAs(h)' = LdHashedAs(h) \cup (IF hashes /\ e.hash = h THEN {n + 1} ELSE {})
  BY LdPositions, Zenon DEF LdInv
<1>4. /\ s \in LdBooks /\ t \in LdBooks
      /\ e.type = "llm_call" => t = s
      /\ e.type = "tool_call" =>
           /\ t.lastToolSignature = <<e.name, e.hash>> /\ t.thoughtOnlyCount = 0
           /\ t.repeatCount = IF <<e.name, e.hash>> = s.lastToolSignature THEN s.repeatCount + 1 ELSE 1
      /\ e.type = "content" =>
           /\ t.lastToolSignature = NoSignature /\ t.repeatCount = 0
           /\ t.thoughtOnlyCount = s.thoughtOnlyCount + 1
      /\ counts =>
           /\ t.lastContentHash = IF e.hash = NoHash THEN s.lastContentHash ELSE e.hash
           /\ t.noProgressCount = IF e.hash = NoHash THEN s.noProgressCount
                                  ELSE IF e.hash = s.lastContentHash THEN s.noProgressCount + 1 ELSE 1
  BY LdObserved, Zenon DEF LdInv, LdTypes
<1>5. /\ s.repeatCount \in Nat /\ s.thoughtOnlyCount \in Nat /\ s.noProgressCount \in Nat
      /\ e.type \in {"tool_call", "content", "llm_call"}
  BY <1>4, LdEventTypes, Zenon DEF LdBooks
<1> HIDE DEF n, s, t, counts, hashes
<1>6. LdTypes'
  BY <1>4 DEF LdInv, LdTypes, t
<1>7. ASSUME NEW sig \in Names \X Hashes, NEW k \in Nat \ {0}
      PROVE  Streak(n + 1, Relevant', LdCalls(sig)', k) <=> sig = t.lastToolSignature /\ t.repeatCount >= k
  <2> DEFINE match == e.type = "tool_call" /\ <<e.name, e.hash>> = sig
  <2>6. /\ ~(0 >= k)
        /\ k = 1 => s.repeatCount + 1 >= k /\ 1 >= k
    BY <1>5
  <2>7. k = 1 \/ (~(1 >= k) /\ ((s.repeatCount + 1 >= k) <=> (s.repeatCount >= k - 1)))
    BY <1>5
  <2>0. match \in BOOLEAN /\ counts \in BOOLEAN /\ (match => counts)
    BY Zenon DEF counts
  <2>1. /\ ~counts => (Streak(n + 1, Relevant', LdCalls(sig)', k) <=> Streak(n, Relevant, LdCalls(sig), k))
        /\ counts /\ ~match => ~Streak(n + 1, Relevant', LdCalls(sig)', k)
        /\ match => (Streak(n + 1, Relevant', LdCalls(sig)', k)
                       <=> k = 1 \/ Streak(n, Relevant, LdCalls(sig), k - 1))
    <3> HIDE DEF match
    <3>1. /\ n \in Nat /\ Relevant \in SUBSET (1 .. n) /\ LdCalls(sig) \in SUBSET Relevant
          /\ Relevant' = Relevant \cup (IF counts THEN {n + 1} ELSE {})
          /\ LdCalls(sig)' = LdCalls(sig) \cup (IF match THEN {n + 1} ELSE {})
      BY <1>1, <1>2, Zenon DEF match
    <3>0. /\ Streak(n + 1, Relevant, LdCalls(sig), k) <=> Streak(n, Relevant, LdCalls(sig), k)
          /\ ~Streak(n + 1, Relevant \cup {n + 1}, LdCalls(sig), k)
          /\ Streak(n + 1, Relevant \cup {n + 1}, LdCalls(sig) \cup {n + 1}, k)
               <=> k = 1 \/ Streak(n, Relevant, LdCalls(sig), k - 1)
      BY <3>1, LdStreak, Zenon
    <3>2. CASE ~counts
      <4>1. Relevant' = Relevant /\ LdCalls(sig)' = LdCalls(sig)
        BY <2>0, <3>1, <3>2, Zenon
      <4> QED BY <2>0, <3>1, <3>2, <3>0, <4>1, Zenon
    <3>3. CASE counts /\ ~match
      <4>1. Relevant' = Relevant \cup {n + 1} /\ LdCalls(sig)' = LdCalls(sig)
        BY <3>1, <3>3, Zenon
      <4> QED BY <3>1, <3>3, <3>0, <4>1, Zenon
    <3>4. CASE match
      <4>1. Relevant' = Relevant \cup {n + 1} /\ LdCalls(sig)' = LdCalls(sig) \cup {n + 1}
        BY <2>0, <3>1, <3>4, Zenon
      <4> QED BY <2>0, <3>1, <3>4, <3>0, <4>1, Zenon
    <3> QED BY <2>0, <3>2, <3>3, <3>4, Zenon
  <2>2. ASSUME NEW m \in Nat \ {0}
        PROVE  Streak(n, Relevant, LdCalls(sig), m) <=> sig = s.lastToolSignature /\ s.repeatCount >= m
    BY Zenon DEF LdInv, LdCounters, n, s
  <2>3. CASE ~counts
    BY <1>4, <2>1, <2>2, <2>3, Zenon DEF counts
  <2>4. CASE counts /\ ~match
    BY <1>4, <1>5, <2>1, <2>4, LdNoSignature, Zenon DEF counts
  <2>5. CASE match
    <3>1. /\ t.lastToolSignature = sig
          /\ t.repeatCount = IF sig = s.lastToolSignature THEN s.repeatCount + 1 ELSE 1
      BY <1>4, <2>5, Zenon
    <3>2. CASE k = 1
      BY <1>5, <2>1, <2>5, <3>1, <3>2, <2>6, Zenon
    <3>3. CASE k # 1
      <4>1. k - 1 \in Nat \ {0}
        BY <3>3
      <4>2. Streak(n, Relevant, LdCalls(sig), k - 1) <=> sig = s.lastToolSignature /\ s.repeatCount >= k - 1
        BY <2>2, <4>1, Zenon
      <4> QED BY <1>5, <2>1, <2>5, <2>7, <3>1, <3>3, <4>2, Zenon
    <3> QED BY <3>2, <3>3, Zenon
  <2> QED BY <2>0, <2>3, <2>4, <2>5, Zenon
<1>8. ASSUME NEW k \in Nat \ {0}
      PROVE  Streak(n + 1, Relevant', LdThoughts', k) <=> t.thoughtOnlyCount >= k
  <2> DEFINE match == e.type = "content"
  <2>6. /\ ~(0 >= k)
        /\ k = 1 => s.thoughtOnlyCount + 1 >= k /\ 1 >= k
    BY <1>5
  <2>7. k = 1 \/ (~(1 >= k) /\ ((s.thoughtOnlyCount + 1 >= k) <=> (s.thoughtOnlyCount >= k - 1)))
    BY <1>5
  <2>0. match \in BOOLEAN /\ counts \in BOOLEAN /\ (match => counts)
    BY Zenon DEF counts
  <2>1. /\ ~counts => (Streak(n + 1, Relevant', LdThoughts', k) <=> Streak(n, Relevant, LdThoughts, k))
        /\ counts /\ ~match => ~Streak(n + 1, Relevant', LdThoughts', k)
        /\ match => (Streak(n + 1, Relevant', LdThoughts', k)
                       <=> k = 1 \/ Streak(n, Relevant, LdThoughts, k - 1))
    <3> HIDE DEF match
    <3>1. /\ n \in Nat /\ Relevant \in SUBSET (1 .. n) /\ LdThoughts \in SUBSET Relevant
          /\ Relevant' = Relevant \cup (IF counts THEN {n + 1} ELSE {})
          /\ LdThoughts' = LdThoughts \cup (IF match THEN {n + 1} ELSE {})
      BY <1>1, Zenon DEF match
    <3>0. /\ Streak(n + 1, Relevant, LdThoughts, k) <=> Streak(n, Relevant, LdThoughts, k)
          /\ ~Streak(n + 1, Relevant \cup {n + 1}, LdThoughts, k)
          /\ Streak(n + 1, Relevant \cup {n + 1}, LdThoughts \cup {n + 1}, k)
               <=> k = 1 \/ Streak(n, Relevant, LdThoughts, k - 1)
      BY <3>1, LdStreak, Zenon
    <3>2. CASE ~counts
      <4>1. Relevant' = Relevant /\ LdThoughts' = LdThoughts
        BY <2>0, <3>1, <3>2, Zenon
      <4> QED BY <2>0, <3>1, <3>2, <3>0, <4>1, Zenon
    <3>3. CASE counts /\ ~match
      <4>1. Relevant' = Relevant \cup {n + 1} /\ LdThoughts' = LdThoughts
        BY <3>1, <3>3, Zenon
      <4> QED BY <3>1, <3>3, <3>0, <4>1, Zenon
    <3>4. CASE match
      <4>1. Relevant' = Relevant \cup {n + 1} /\ LdThoughts' = LdThoughts \cup {n + 1}
        BY <2>0, <3>1, <3>4, Zenon
      <4> QED BY <2>0, <3>1, <3>4, <3>0, <4>1, Zenon
    <3> QED BY <2>0, <3>2, <3>3, <3>4, Zenon
  <2>2. ASSUME NEW m \in Nat \ {0}
        PROVE  Streak(n, Relevant, LdThoughts, m) <=> s.thoughtOnlyCount >= m
    BY Zenon DEF LdInv, LdCounters, n, s
  <2>3. CASE ~counts
    BY <1>4, <2>1, <2>2, <2>3, Zenon DEF counts
  <2>4. CASE counts /\ ~match
    BY <1>4, <1>5, <2>0, <2>1, <2>4, <2>6, Zenon DEF counts
  <2>5. CASE match
    <3>1. t.thoughtOnlyCount = s.thoughtOnlyCount + 1
      BY <1>4, <2>5, Zenon
    <3>2. CASE k = 1
      BY <1>5, <2>1, <2>5, <3>1, <3>2, <2>6, Zenon
    <3>3. CASE k # 1
      <4>1. k - 1 \in Nat \ {0}
        BY <3>3
      <4>2. Streak(n, Relevant, LdThoughts, k - 1) <=> s.thoughtOnlyCount >= k - 1
        BY <2>2, <4>1, Zenon
      <4> QED BY <1>5, <2>1, <2>5, <2>7, <3>1, <3>3, <4>2, Zenon
    <3> QED BY <3>2, <3>3, Zenon
  <2> QED BY <2>0, <2>3, <2>4, <2>5, Zenon
<1>9. ASSUME NEW h \in Hashes, NEW k \in Nat \ {0}
      PROVE  Streak(n + 1, Hashed', LdHashedAs(h)', k)
               <=> h # NoHash /\ h = t.lastContentHash /\ t.noProgressCount >= k
  <2> DEFINE match == hashes /\ e.hash = h
  <2>6. /\ ~(0 >= k)
        /\ k = 1 => s.noProgressCount + 1 >= k /\ 1 >= k
    BY <1>5
  <2>7. k = 1 \/ (~(1 >= k) /\ ((s.noProgressCount + 1 >= k) <=> (s.noProgressCount >= k - 1)))
    BY <1>5
  <2>0. match \in BOOLEAN /\ hashes \in BOOLEAN /\ (match => hashes)
    BY Zenon DEF hashes
  <2>1. /\ ~hashes => (Streak(n + 1, Hashed', LdHashedAs(h)', k) <=> Streak(n, Hashed, LdHashedAs(h), k))
        /\ hashes /\ ~match => ~Streak(n + 1, Hashed', LdHashedAs(h)', k)
        /\ match => (Streak(n + 1, Hashed', LdHashedAs(h)', k)
                       <=> k = 1 \/ Streak(n, Hashed, LdHashedAs(h), k - 1))
    <3> HIDE DEF match
    <3>1. /\ n \in Nat /\ Hashed \in SUBSET (1 .. n) /\ LdHashedAs(h) \in SUBSET Hashed
          /\ Hashed' = Hashed \cup (IF hashes THEN {n + 1} ELSE {})
          /\ LdHashedAs(h)' = LdHashedAs(h) \cup (IF match THEN {n + 1} ELSE {})
      BY <1>1, <1>3, Zenon DEF match
    <3>0. /\ Streak(n + 1, Hashed, LdHashedAs(h), k) <=> Streak(n, Hashed, LdHashedAs(h), k)
          /\ ~Streak(n + 1, Hashed \cup {n + 1}, LdHashedAs(h), k)
          /\ Streak(n + 1, Hashed \cup {n + 1}, LdHashedAs(h) \cup {n + 1}, k)
               <=> k = 1 \/ Streak(n, Hashed, LdHashedAs(h), k - 1)
      BY <3>1, LdStreak, Zenon
    <3>2. CASE ~hashes
      <4>1. Hashed' = Hashed /\ LdHashedAs(h)' = LdHashedAs(h)
        BY <2>0, <3>1, <3>2, Zenon
      <4> QED BY <2>0, <3>1, <3>2, <3>0, <4>1, Zenon
    <3>3. CASE hashes /\ ~match
      <4>1. Hashed' = Hashed \cup {n + 1} /\ LdHashedAs(h)' = LdHashedAs(h)
        BY <3>1, <3>3, Zenon
      <4> QED BY <3>1, <3>3, <3>0, <4>1, Zenon
    <3>4. CASE match
      <4>1. Hashed' = Hashed \cup {n + 1} /\ LdHashedAs(h)' = LdHashedAs(h) \cup {n + 1}
        BY <2>0, <3>1, <3>4, Zenon
      <4> QED BY <2>0, <3>1, <3>4, <3>0, <4>1, Zenon
    <3> QED BY <2>0, <3>2, <3>3, <3>4, Zenon
  <2>2. ASSUME NEW m \in Nat \ {0}
        PROVE  Streak(n, Hashed, LdHashedAs(h), m)
                 <=> h # NoHash /\ h = s.lastContentHash /\ s.noProgressCount >= m
    BY Zenon DEF LdInv, LdCounters, n, s
  <2>3. CASE ~hashes
    <3>1. t.lastContentHash = s.lastContentHash /\ t.noProgressCount = s.noProgressCount
      BY <1>4, <2>3, Zenon DEF hashes, counts
    <3> QED BY <2>1, <2>2, <2>3, <3>1, Zenon
  <2>4. CASE hashes /\ ~match
    BY <1>4, <2>1, <2>4, Zenon DEF hashes, counts
  <2>5. CASE match
    <3>1. /\ t.lastContentHash = h /\ h # NoHash
          /\ t.noProgressCount = IF h = s.lastContentHash THEN s.noProgressCount + 1 ELSE 1
      BY <1>4, <2>5, Zenon DEF hashes, counts
    <3>2. CASE k = 1
      BY <1>5, <2>1, <2>5, <3>1, <3>2, <2>6, Zenon
    <3>3. CASE k # 1
      <4>1. k - 1 \in Nat \ {0}
        BY <3>3
      <4>2. Streak(n, Hashed, LdHashedAs(h), k - 1)
              <=> h # NoHash /\ h = s.lastContentHash /\ s.noProgressCount >= k - 1
        BY <2>2, <4>1, Zenon
      <4> QED BY <1>5, <2>1, <2>5, <2>7, <3>1, <3>3, <4>2, Zenon
    <3> QED BY <3>2, <3>3, Zenon
  <2> QED BY <2>0, <2>3, <2>4, <2>5, Zenon
<1>10. LdCounters'
  <2>1. Len(ldEvents)' = n + 1
    BY <1>1, Zenon
  <2>2. \A sig \in Names \X Hashes, k \in Nat \ {0} :
          Streak(Len(ldEvents)', Relevant', LdCalls(sig)', k)
            <=> sig = ldState'.lastToolSignature /\ ldState'.repeatCount >= k
    BY <1>7, <2>1, Zenon DEF t
  <2>3. \A k \in Nat \ {0} :
          Streak(Len(ldEvents)', Relevant', LdThoughts', k) <=> ldState'.thoughtOnlyCount >= k
    BY <1>8, <2>1, Zenon DEF t
  <2>4. \A h \in Hashes, k \in Nat \ {0} :
          Streak(Len(ldEvents)', Hashed', LdHashedAs(h)', k)
            <=> h # NoHash /\ h = ldState'.lastContentHash /\ ldState'.noProgressCount >= k
    BY <1>9, <2>1, Zenon DEF t
  <2> QED BY <2>2, <2>3, <2>4, Zenon DEF LdCounters
<1>11. LdLatest'
  <2>1. Latest' = e
    BY <1>1, Zenon DEF Latest, n
  <2>2. e.type = "tool_call" => t.lastToolSignature = <<e.name, e.hash>>
    BY <1>4, Zenon
  <2>3. t.lastContentHash = NoHash => t.noProgressCount = 0
    BY <1>4, <1>5, Zenon DEF LdInv, LdLatest, s, counts
  <2> QED BY <2>1, <2>2, <2>3, Zenon DEF LdLatest, t
<1> QED BY <1>6, <1>10, <1>11, Zenon DEF LdInv

\* The counters tell the patterns, and with them the verdict.
LEMMA LdVerdict ==
  ASSUME LdInv
  PROVE  VerdictMatchesHistory
<1> SUFFICES ASSUME ldEvents # <<>> PROVE VerdictMatchesHistory
  BY Zenon DEF VerdictMatchesHistory
<1> DEFINE sig == <<Latest.name, Latest.hash>>
<1>1. /\ Len(ldEvents) \in DOMAIN ldEvents /\ Latest \in Events
      /\ \A i \in DOMAIN ldEvents : ldEvents[i] \in Events
      /\ ldState \in LdBooks
  BY DEF LdInv, LdTypes, Latest
<1>2. /\ Latest.type \in {"tool_call", "content", "llm_call"}
      /\ Latest.type = "tool_call" => Latest.name \in Names /\ Latest.hash \in Hashes
  BY <1>1, LdEventTypes, Zenon
<1>3. Latest.type = "tool_call" =>
        (RepeatedToolCall <=> Reaches(ldState.repeatCount, RepeatedToolCallThreshold))
  <2> SUFFICES ASSUME Latest.type = "tool_call"
               PROVE  RepeatedToolCall <=> Reaches(ldState.repeatCount, RepeatedToolCallThreshold)
    BY Zenon
  <2>1. {i \in Relevant : ldEvents[i] = Latest} = LdCalls(sig)
    <3>1. ASSUME NEW i \in Relevant
          PROVE  ldEvents[i] = Latest
                   <=> ldEvents[i].type = "tool_call" /\ <<ldEvents[i].name, ldEvents[i].hash>> = sig
      <4>1. ldEvents[i] \in Events
        BY <1>1, Zenon DEF Relevant
      <4> QED BY <1>1, <4>1, LdEventTypes, Zenon
    <3> QED BY <3>1, Zenon DEF LdCalls
  <2>2. sig \in Names \X Hashes /\ sig = ldState.lastToolSignature
    BY <1>2, Zenon DEF LdInv, LdLatest
  <2>3. ASSUME NEW k \in Nat \ {0}
        PROVE  Streak(Len(ldEvents), Relevant, LdCalls(sig), k) <=> ldState.repeatCount >= k
    BY <2>2, Zenon DEF LdInv, LdCounters
  <2> HIDE DEF sig
  <2>4. CASE RepeatedToolCallThreshold = 0
    BY <2>4 DEF RepeatedToolCall, Streak, Reaches
  <2>5. CASE RepeatedToolCallThreshold # 0
    <3>1. RepeatedToolCallThreshold \in Nat \ {0} /\ RepeatedToolCallThreshold > 0
      BY <2>5, ThresholdsAssumption
    <3> QED BY <2>1, <2>3, <3>1, Zenon DEF RepeatedToolCall, Reaches
  <2> QED BY <2>4, <2>5, Zenon
<1>4. ThoughtExplosion <=> Reaches(ldState.thoughtOnlyCount, ThoughtOnlyTurnThreshold)
  <2>3. ASSUME NEW k \in Nat \ {0}
        PROVE  Streak(Len(ldEvents), Relevant, LdThoughts, k) <=> ldState.thoughtOnlyCount >= k
    BY Zenon DEF LdInv, LdCounters
  <2>4. CASE ThoughtOnlyTurnThreshold = 0
    BY <2>4 DEF ThoughtExplosion, Streak, Reaches
  <2>5. CASE ThoughtOnlyTurnThreshold # 0
    <3>1. ThoughtOnlyTurnThreshold \in Nat \ {0} /\ ThoughtOnlyTurnThreshold > 0
      BY <2>5, ThresholdsAssumption
    <3> QED BY <2>3, <3>1, Zenon DEF ThoughtExplosion, LdThoughts, Reaches
  <2> QED BY <2>4, <2>5, Zenon
<1>5. NoProgress <=> Reaches(ldState.noProgressCount, NoProgressTurnThreshold)
  <2>3. ASSUME NEW h \in Hashes, NEW k \in Nat \ {0}
        PROVE  Streak(Len(ldEvents), Hashed, LdHashedAs(h), k)
                 <=> h # NoHash /\ h = ldState.lastContentHash /\ ldState.noProgressCount >= k
    BY Zenon DEF LdInv, LdCounters
  <2>4. CASE NoProgressTurnThreshold = 0
    BY <2>4 DEF NoProgress, Streak, Reaches
  <2>5. CASE NoProgressTurnThreshold # 0
    <3>1. NoProgressTurnThreshold \in Nat \ {0} /\ NoProgressTurnThreshold > 0
      BY <2>5, ThresholdsAssumption
    <3>2. ldState.lastContentHash \in Hashes \cup {NoHash}
      BY <1>1, Zenon DEF LdBooks
    <3>3. ldState.noProgressCount >= NoProgressTurnThreshold => ldState.lastContentHash # NoHash
      BY <3>1 DEF LdInv, LdLatest
    <3>4. NoProgress <=> \E h \in Hashes : /\ h # NoHash /\ h = ldState.lastContentHash
                                           /\ ldState.noProgressCount >= NoProgressTurnThreshold
      BY <2>3, <3>1, Zenon DEF NoProgress, LdHashedAs
    <3> QED BY <3>1, <3>2, <3>3, <3>4, Zenon DEF Reaches
  <2> QED BY <2>4, <2>5, Zenon
<1> HIDE DEF sig
<1>6. CASE Latest.type = "tool_call"
  BY <1>3, <1>5, <1>6, Zenon DEF VerdictMatchesHistory, Verdict, OwnPattern
<1>7. CASE Latest.type = "content"
  BY <1>4, <1>5, <1>7, Zenon DEF VerdictMatchesHistory, Verdict, OwnPattern
<1>8. CASE Latest.type = "llm_call"
  BY <1>8, Zenon DEF VerdictMatchesHistory, Verdict, OwnPattern
<1> QED BY <1>2, <1>6, <1>7, <1>8, Zenon

\* MemLoopDetector.Observe, fed one event at a time, reports exactly the
\* patterns that the whole history of the run shows, for any thresholds and
\* however long the run: its five fields lose nothing.
THEOREM DetectorIsExact == LdSpec => []VerdictMatchesHistory
<1>1. LdInit => LdInv
  <2> SUFFICES ASSUME LdInit PROVE LdInv
    BY Zenon
  <2>1. \A of, same, k : ~Streak(Len(ldEvents), of, same, k)
    BY DEF LdInit, Streak
  <2>2. LdTypes
    BY DEF LdInit, LdTypes, LdBooks, FreshLoopState, LdSignatures
  <2>3. /\ ldState.repeatCount = 0 /\ ldState.thoughtOnlyCount = 0 /\ ldState.noProgressCount = 0
        /\ ldEvents = <<>>
    BY Zenon DEF LdInit, FreshLoopState
  <2>4. LdCounters
    BY <2>1, <2>3 DEF LdCounters
  <2> QED BY <2>2, <2>3, <2>4, Zenon DEF LdInv, LdLatest
<1>2. LdInv /\ [LdNext]_ldVars => LdInv'
  <2> SUFFICES ASSUME LdInv, [LdNext]_ldVars PROVE LdInv'
    BY Zenon
  <2>1. CASE LdNext
    BY <2>1, LdStep, Zenon DEF LdNext
  <2>2. CASE UNCHANGED ldVars
    <3>1. UNCHANGED <<ldEvents, ldState>>
      BY <2>2, Zenon DEF ldVars
    <3>2. LdTypes'
      BY <3>1, Zenon DEF LdInv, LdTypes
    <3>3. LdCounters'
      <4>1. /\ Relevant' = Relevant /\ Hashed' = Hashed /\ LdThoughts' = LdThoughts
            /\ \A sig : LdCalls(sig)' = LdCalls(sig)
            /\ \A h : LdHashedAs(h)' = LdHashedAs(h)
        BY <3>1, Zenon DEF Relevant, Hashed, LdCalls, LdThoughts, LdHashedAs
      <4> QED BY <3>1, <4>1, Zenon DEF LdInv, LdCounters
    <3>4. LdLatest'
      BY <3>1, Zenon DEF LdInv, LdLatest, Latest
    <3> QED BY <3>2, <3>3, <3>4, Zenon DEF LdInv
  <2> QED BY <2>1, <2>2, Zenon
<1>3. LdInv => VerdictMatchesHistory
  BY LdVerdict, Zenon
<1> QED BY <1>1, <1>2, <1>3, PTL DEF LdSpec

-----------------------------------------------------------------------------
(* The error model: a verdict survives the hops.                           *)

\* An error is a record with a class of the taxonomy.
ErFormed(err) ==
  /\ err = [code |-> err.code, class |-> err.class, retryable |-> err.retryable,
            cause |-> err.cause, internal |-> err.internal]
  /\ err.class \in ErClasses

\* What has arrived of the error that was raised.
ErArrived ==
  /\ erErr.class = erOrigin.class
  /\ erErr.cause = ErCause(erOrigin.cause)
  /\ ErKnown(erOrigin.code) => erErr.code = erOrigin.code /\ ~erErr.internal

\* An error on its way, and the verdict on it.
ErUnderway ==
  /\ erHops = 0 => erErr = erOrigin /\ ~erWrapped
  /\ erHops > 0 /\ ~erWrapped => ErArrived
  /\ erWrapped => erErr.class = "permanent"

ErJudged ==
  /\ erHops > 0
  /\ erVerdict.action = "retry" => erAttempt < 3
  /\ ~erWrapped =>
       /\ erVerdict.action = "retry" => erOrigin.class = "transient" /\ erVerdict.backoff \in 1 .. 30
       /\ erOrigin.class = "safety_refused" => erVerdict.action = "ask_human"
  /\ erWrapped => erVerdict.action = "fail"

ErInv ==
  /\ erAttempt \in 0 .. 3 /\ erTries = erAttempt + 1
  /\ erPc \in {"run", "wire", "verdict"} /\ erHops \in Nat
  /\ erHealth \in {"healthy", "degraded", "quarantined"}
  /\ ErFormed(erErr) /\ ErFormed(erOrigin)
  /\ erPc \in {"wire", "verdict"} => ErUnderway
  /\ erPc = "verdict" => ErJudged

\* Every code has a class, and a shell is an error of it.
LEMMA ErShellFormed ==
  \A code, known : ErFormed(ErShell(code, known))
<1>1. \A code : ErClassOf(code) \in ErClasses
  BY Zenon DEF ErClassOf, ErClasses
<1> QED BY <1>1, Zenon DEF ErFormed, ErShell

\* Wrap makes an error of the new code's class.
LEMMA ErWrapFormed ==
  ASSUME NEW err, NEW code
  PROVE  ErFormed(ErWrap(err, code)) /\ ErWrap(err, code).class = ErClassOf(code)
<1> DEFINE sh == ErShell(code, TRUE)
<1>1. ErFormed(sh) /\ sh.class = ErClassOf(code)
  BY ErShellFormed, Zenon DEF ErShell
<1> HIDE DEF sh
<1>2. LET w == [sh EXCEPT !.cause = err.code] IN ErFormed(w) /\ w.class = sh.class
  BY <1>1 DEF ErFormed
<1> QED BY <1>1, <1>2, Zenon DEF ErWrap, sh

\* One hop: the class survives, the cause as far as it is known, the code too.
LEMMA ErHop ==
  ASSUME NEW err, ErFormed(err)
  PROVE  LET got == ErDecode(ErEncode(err)) IN
           /\ ErFormed(got) /\ got.class = err.class /\ got.cause = ErCause(err.cause)
           /\ ErKnown(err.code) => got.code = err.code /\ ~got.internal
<1> DEFINE w == ErEncode(err)
           got == ErDecode(w)
           sh == ErShell(err.code, ErKnown(err.code))
<1>1. w.data /\ w.code = err.code /\ w.class = err.class /\ w.cause = err.cause
  BY Zenon DEF ErEncode, ErSanitize, ErFormed
<1> HIDE DEF w
<1>2. got = [sh EXCEPT !.class = IF w.data /\ w.class \in ErClasses THEN w.class ELSE @,
                       !.cause = ErCause(w.cause)]
  BY <1>1, Zenon DEF ErDecode
<1>3. ErFormed(sh) /\ (ErKnown(err.code) => sh.code = err.code /\ ~sh.internal)
  BY ErShellFormed, Zenon DEF ErShell
<1>4. err.class \in ErClasses
  BY Zenon DEF ErFormed
<1> DEFINE mid == [sh EXCEPT !.class = err.class]
<1>5. got = [mid EXCEPT !.cause = ErCause(err.cause)]
  BY <1>1, <1>2, <1>4, Zenon
<1> HIDE DEF sh, got
<1>6. mid = [code |-> sh.code, class |-> err.class, retryable |-> sh.retryable,
             cause |-> sh.cause, internal |-> sh.internal]
  BY <1>3 DEF ErFormed
<1> HIDE DEF mid
<1>7. got = [code |-> sh.code, class |-> err.class, retryable |-> sh.retryable,
             cause |-> ErCause(err.cause), internal |-> sh.internal]
  BY <1>5, <1>6, Zenon
<1>8. ErFormed(got) /\ got.class = err.class /\ got.cause = ErCause(err.cause)
      /\ (ErKnown(err.code) => got.code = err.code /\ ~got.internal)
  BY <1>3, <1>4, <1>7, Zenon DEF ErFormed
<1> QED BY <1>8, Zenon DEF got, w

\* A second hop finds the cause as the first left it.
LEMMA ErCauseTwice == \A code : ErCause(ErCause(code)) = ErCause(code)
BY Zenon DEF ErCause

\* Decide retries a transient error only, and only while attempts are left.
LEMMA ErDecided ==
  ASSUME NEW err, ErFormed(err), NEW attempt \in 0 .. 3,
         NEW health \in {"healthy", "degraded", "quarantined"}
  PROVE  LET v == ErDecide(err, attempt, health) IN
           /\ v.action = "retry" => err.class = "transient" /\ attempt < 3 /\ v.backoff \in 1 .. 30
           /\ err.class = "safety_refused" => v.action = "ask_human"
           /\ err.class = "permanent" => v.action = "fail"
<1> DEFINE v == ErDecide(err, attempt, health)
<1>1. CASE err.class = "transient"
  <2>1. v = ErDecideTransient(err, attempt, health)
    BY <1>1, Zenon DEF ErDecide
  <2>2. CASE ~err.retryable
    <3>1. v = ErVerdictOf("fail", 0, TRUE)
      BY <2>1, <2>2, Zenon DEF ErDecideTransient
    <3> QED BY <1>1, <3>1 DEF ErVerdictOf
  <2>3. CASE err.retryable /\ (health = "quarantined" \/ attempt >= ErRetries(health))
    <3>1. v = ErVerdictOf("fail", 0, FALSE)
      BY <2>1, <2>3, Zenon DEF ErDecideTransient
    <3> QED BY <1>1, <3>1 DEF ErVerdictOf
  <2>4. CASE err.retryable /\ ~(health = "quarantined" \/ attempt >= ErRetries(health))
    <3> DEFINE k == IF health = "degraded" THEN 1 ELSE attempt
    <3>1. v = ErVerdictOf("retry", ErBackoff(k), FALSE)
      BY <2>1, <2>4, Zenon DEF ErDecideTransient
    <3>2. attempt < 3 /\ k \in 0 .. 2
      BY <2>4 DEF ErRetries
    <3> HIDE DEF k
    <3>3. ErBackoff(k) \in 1 .. 30
      <4>1. 2 ^ k \in 1 .. 4
        <5>1. CASE k = 0 BY <5>1
        <5>2. CASE k = 1 BY <5>2
        <5>3. CASE k = 2 BY <5>3
        <5> QED BY <3>2, <5>1, <5>2, <5>3
      <4> QED BY <4>1 DEF ErBackoff
    <3> QED BY <1>1, <3>1, <3>2, <3>3 DEF ErVerdictOf
  <2> QED BY <2>2, <2>3, <2>4, Zenon
<1>2. CASE err.class = "safety_refused"
  <2>1. v = ErVerdictOf("ask_human", 0, FALSE)
    BY <1>2, Zenon DEF ErDecide
  <2> QED BY <1>2, <2>1 DEF ErVerdictOf
<1>3. CASE err.class = "internal_bug"
  <2>1. v = ErDecideInternalBug(health)
    BY <1>3, Zenon DEF ErDecide
  <2>2. v.action \in {"fail", "quarantine", "degrade"}
    BY <2>1 DEF ErDecideInternalBug, ErVerdictOf
  <2> QED BY <1>3, <2>2, Zenon
<1>4. CASE err.class \notin {"transient", "safety_refused", "internal_bug"}
  <2>1. v = ErVerdictOf("fail", 0, FALSE)
    BY <1>4, Zenon DEF ErDecide
  <2> QED BY <1>4, <2>1 DEF ErVerdictOf
<1> QED BY <1>1, <1>2, <1>3, <1>4, Zenon

\* Every step keeps the invariant.
LEMMA ErStepKeeps == ErInv /\ [ErNext]_erVars => ErInv'
<1> SUFFICES ASSUME ErInv, [ErNext]_erVars PROVE ErInv'
  BY Zenon
<1>0. /\ erAttempt \in 0 .. 3 /\ erTries = erAttempt + 1
      /\ erPc \in {"run", "wire", "verdict"} /\ erHops \in Nat
      /\ erHealth \in {"healthy", "degraded", "quarantined"}
      /\ ErFormed(erErr) /\ ErFormed(erOrigin)
      /\ erPc \in {"wire", "verdict"} => ErUnderway
      /\ erPc = "verdict" => ErJudged
  BY Zenon DEF ErInv
<1>1. CASE UNCHANGED erVars
  BY <1>0, <1>1, Zenon DEF erVars, ErInv, ErUnderway, ErArrived, ErJudged
<1>b. ASSUME NEW err, ErFormed(err), ErBorn(err) PROVE ErInv'
  BY <1>0, <1>b DEF ErBorn, ErInv, ErUnderway
<1>2. CASE ErNew
  <2>1. PICK code \in ErCodes, class \in ErClasses \cup {"default"}, retryable \in BOOLEAN,
             internal \in BOOLEAN :
          ErBorn([ErShell(code, TRUE) EXCEPT !.class = IF class = "default" THEN @ ELSE class,
                                  !.retryable = IF class = "default" THEN @ ELSE retryable,
                                  !.internal = internal])
    BY <1>2, Zenon DEF ErNew
  <2> DEFINE sh == ErShell(code, TRUE)
             cl == IF class = "default" THEN sh.class ELSE class
             re == IF class = "default" THEN sh.retryable ELSE retryable
             one == [sh EXCEPT !.class = cl]
             two == [one EXCEPT !.retryable = re]
             err == [two EXCEPT !.internal = internal]
  <2>2. ErFormed(sh)
    BY ErShellFormed, Zenon
  <2>3. ErBorn(err)
    BY <2>1, <2>2, Zenon DEF ErFormed
  <2>4. cl \in ErClasses
    BY <2>2, Zenon DEF ErFormed
  <2> HIDE DEF sh, cl, re
  <2>5. one = [code |-> sh.code, class |-> cl, retryable |-> sh.retryable, cause |-> sh.cause,
               internal |-> sh.internal]
    BY <2>2 DEF ErFormed
  <2> HIDE DEF one
  <2>6. two = [code |-> sh.code, class |-> cl, retryable |-> re, cause |-> sh.cause,
               internal |-> sh.internal]
    BY <2>5
  <2> HIDE DEF two
  <2>7. err = [code |-> sh.code, class |-> cl, retryable |-> re, cause |-> sh.cause,
               internal |-> internal]
    BY <2>6
  <2> HIDE DEF err
  <2>8. ErFormed(err)
    BY <2>4, <2>7, Zenon DEF ErFormed
  <2> QED BY <1>b, <2>3, <2>8, Zenon
<1>3. CASE ErWrapGo
  BY <1>3, <1>b, ErWrapFormed, Zenon DEF ErWrapGo
<1>4. CASE ErForeign
  <2>1. PICK n \in ErNumerics :
               ErBorn(ErDecode([n |-> n, data |-> FALSE, code |-> "", class |-> "", cause |-> ""]))
    BY <1>4, Zenon DEF ErForeign
  <2> DEFINE w == [n |-> n, data |-> FALSE, code |-> "", class |-> "", cause |-> ""]
             sh == ErShell(ErFromNumeric(n), ErKnown(ErFromNumeric(n)))
             got == ErDecode(w)
             mid == [sh EXCEPT !.class = sh.class]
  <2>2. ErFormed(sh)
    BY ErShellFormed, Zenon
  <2>3. got = [mid EXCEPT !.cause = ErCause("")]
    BY Zenon DEF ErDecode
  <2> HIDE DEF sh, got
  <2>4. mid = sh
    BY <2>2, Zenon DEF ErFormed
  <2> HIDE DEF mid
  <2>5. got = [code |-> sh.code, class |-> sh.class, retryable |-> sh.retryable,
               cause |-> ErCause(""), internal |-> sh.internal]
    BY <2>2, <2>3, <2>4, Zenon DEF ErFormed
  <2>6. ErFormed(got)
    BY <2>2, <2>5, Zenon DEF ErFormed
  <2> QED BY <1>b, <2>1, <2>6, Zenon DEF got
<1>5. CASE ErCross
  <2> DEFINE got == ErDecode(ErEncode(erErr))
  <2>1. /\ ErFormed(got) /\ got.class = erErr.class /\ got.cause = ErCause(erErr.cause)
        /\ ErKnown(erErr.code) => got.code = erErr.code /\ ~got.internal
    BY <1>0, ErHop, Zenon
  <2> HIDE DEF got
  <2>2. /\ erPc = "wire" /\ erErr' = got /\ erHops' = erHops + 1
        /\ UNCHANGED <<erOrigin, erPc, erWrapped, erAttempt, erTries, erHealth, erVerdict>>
    BY <1>5, Zenon DEF ErCross, got
  <2>3. ErUnderway
    BY <1>0, <2>2, Zenon
  <2>4. ~erWrapped => ErArrived'
    BY <1>0, <2>1, <2>2, <2>3, ErCauseTwice DEF ErUnderway, ErArrived
  <2>5. ErUnderway'
    BY <1>0, <2>1, <2>2, <2>3, <2>4 DEF ErUnderway
  <2> QED BY <1>0, <2>1, <2>2, <2>5 DEF ErInv
<1>6. CASE ErHostWrap
  <2>1. PICK code \in {"tool_execution_failed", "brain_task_failed"} : erErr' = ErWrap(erErr, code)
    BY <1>6, Zenon DEF ErHostWrap
  <2>2. /\ erPc = "wire" /\ erHops > 0 /\ erWrapped'
        /\ UNCHANGED <<erOrigin, erPc, erHops, erAttempt, erTries, erHealth, erVerdict>>
    BY <1>6, Zenon DEF ErHostWrap
  <2>3. ErClassOf(code) = "permanent"
    BY Zenon DEF ErClassOf, ErTransient, ErUserFault, ErSafety, ErInternal
  <2>4. ErFormed(erErr') /\ erErr'.class = "permanent"
    BY <2>1, <2>3, ErWrapFormed, Zenon
  <2> QED BY <1>0, <2>2, <2>4 DEF ErInv, ErUnderway
<1>7. CASE ErJudge
  <2>1. /\ erPc = "wire" /\ erHops > 0 /\ erVerdict' = ErDecide(erErr, erAttempt, erHealth)
        /\ erPc' = "verdict"
        /\ UNCHANGED <<erErr, erOrigin, erHops, erWrapped, erAttempt, erTries, erHealth>>
    BY <1>7, Zenon DEF ErJudge
  <2>2. ErUnderway /\ ErUnderway'
    BY <1>0, <2>1, Zenon DEF ErUnderway, ErArrived
  <2>3. /\ erVerdict'.action = "retry" => erErr.class = "transient" /\ erAttempt < 3 /\ erVerdict'.backoff \in 1 .. 30
        /\ erErr.class = "safety_refused" => erVerdict'.action = "ask_human"
        /\ erErr.class = "permanent" => erVerdict'.action = "fail"
    BY <1>0, <2>1, ErDecided, Zenon
  <2>4. ErJudged'
    BY <2>1, <2>2, <2>3, Zenon DEF ErJudged, ErUnderway, ErArrived
  <2> QED BY <1>0, <2>1, <2>2, <2>4, Zenon DEF ErInv
<1>8. CASE ErObey
  <2>1. /\ erAttempt' \in 0 .. 3 /\ erTries' = erAttempt' + 1 /\ erPc' = "run"
    BY <1>0, <1>8 DEF ErObey, ErJudged
  <2>2. erHealth' \in {"healthy", "degraded", "quarantined"} /\ UNCHANGED <<erErr, erOrigin, erHops>>
    BY <1>0, <1>8, Zenon DEF ErObey
  <2> QED BY <1>0, <2>1, <2>2, Zenon DEF ErInv
<1>9. CASE ErHeal
  <2>1. /\ erHealth' = "healthy"
        /\ UNCHANGED <<erErr, erOrigin, erPc, erHops, erWrapped, erAttempt, erTries, erVerdict>>
    BY <1>9, Zenon DEF ErHeal
  <2> QED BY <1>0, <2>1, Zenon DEF ErInv, ErUnderway, ErArrived, ErJudged
<1> QED BY <1>1, <1>2, <1>3, <1>4, <1>5, <1>6, <1>7, <1>8, <1>9, Zenon DEF ErNext

\* EncodeErrorToRPCError, WrapRPCError and Decide, whatever the codes and the
\* number of hops: classes survive the wire and verdicts follow them.
THEOREM ErrorVerdictsSound == ErSpec => []ErVerdictsSound
<1>1. ErInit => ErInv
  <2>1. ErFormed(ErNone)
    BY ErShellFormed, Zenon DEF ErNone
  <2> QED BY <2>1 DEF ErInit, ErInv
<1>2. ErInv => ErVerdictsSound
  BY DEF ErInv, ErVerdictsSound, ErUnderway, ErArrived, ErJudged
<1> QED BY <1>1, <1>2, ErStepKeeps, PTL DEF ErSpec
=============================================================================
