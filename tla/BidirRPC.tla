------------------------------ MODULE BidirRPC ------------------------------
(***************************************************************************)
(* protocol/rpc.go, bidirRPC: one end of the full-duplex JSON-RPC session. *)
(* Goroutines: the Calls of the host program, the reader loop, the         *)
(* handlers it spawns for inbound requests, and any number of Close calls. *)
(*                                                                         *)
(* Every critical section of rpcMu and cancelMu, every channel operation   *)
(* and every use of the writer is a step of its own. The peer is the       *)
(* environment: it answers a request it has received at most MaxAnswers    *)
(* times (so it may duplicate or never answer), it sends requests of its   *)
(* own and $/cancelRequest notifications. The writer is the FrameSink of   *)
(* protocol/frame.go: a frame written while it is open may reach the wire  *)
(* even when the writing call is told that its context ended.              *)
(***************************************************************************)
EXTENDS Naturals, FiniteSets

CONSTANTS Calls,       \* the outbound Call invocations
          PeerReqs,    \* the requests the peer sends
          Closers,     \* Close calls from outside the reader
          CancelIds,   \* the ids the peer may name in a $/cancelRequest
          Window,      \* capacity of inFlightWindow (32 or 64)
          MaxAnswers,  \* responses the peer sends to one request, at most
          MaxSeq       \* bound on the ids drawn from r.seq

NoCall == "none"
Reader == "reader"
Ids    == 1 .. MaxSeq

ASSUME WindowAssumption  == Window \in Nat \ {0}
ASSUME BoundsAssumption  == MaxSeq \in Nat /\ MaxAnswers \in Nat
ASSUME CallsAssumption   == /\ IsFiniteSet(Calls)
                            /\ NoCall \notin Calls /\ "shutdown" \notin Calls
ASSUME PeerAssumption    == Reader \notin Closers /\ CancelIds \subseteq Ids

VARIABLES
    pc,         \* pc[c]: where Call c stands
    ctxDone,    \* ctxDone[c]: the context Call c selects on has ended
    id,         \* id[c]: the request id of Call c, 0 before nextID
    ch,         \* ch[c]: the waiter channel (capacity 1) of Call c: NoCall when
                \*   empty, "shutdown", or the call the held response answers
    outcome,    \* outcome[c]: how Call c ended
    payload,    \* payload[c]: the call whose response Call c returned
    seq,        \* r.seq
    slots,      \* number of tokens in r.inFlightWindow
    waiters,    \* r.waiters: id -> the call whose channel is registered
    cancels,    \* r.inflightCancel: id -> the call whose cancel is registered
    requests,   \* requests on the wire, as <<id, call>>
    answers,    \* answers[c]: responses to Call c's request read so far
    stale,      \* r.staleCount
    closed,     \* r.closed
    done,       \* r.done is closed
    writerOpen, \* the FrameWriter has not been closed
    closePC,    \* closePC[k]: where the Close called by k stands
    readerPC,   \* where readLoop stands
    inHand,     \* the response dispatch has looked a waiter up for:
                \*   [to: channel's call, of: the call it answers]
    served,     \* served[q]: what became of the peer's request q
    asked,      \* ids for which a $/cancelRequest has been read
    cut,        \* cut[c]: a $/cancelRequest has cancelled Call c
    sessionEnd  \* the context passed to Start has ended

callVars    == <<pc, id, outcome, payload, seq, slots, requests>>
tableVars   == <<waiters, cancels>>
closeVars   == <<closed, done, writerOpen, closePC>>
readerVars  == <<readerPC, inHand, answers, stale>>
envVars     == <<ctxDone, asked, cut, served, sessionEnd>>
vars == <<callVars, ch, tableVars, closeVars, readerVars, envVars>>

NoMsg == [to |-> NoCall, of |-> NoCall]

Init ==
    /\ pc       = [c \in Calls |-> "start"]
    /\ ctxDone  = [c \in Calls |-> FALSE]
    /\ id       = [c \in Calls |-> 0]
    /\ ch       = [c \in Calls |-> NoCall]
    /\ outcome  = [c \in Calls |-> "none"]
    /\ payload  = [c \in Calls |-> NoCall]
    /\ seq      = 0
    /\ slots    = 0
    /\ waiters  = [i \in Ids |-> NoCall]
    /\ cancels  = [i \in Ids |-> NoCall]
    /\ requests = {}
    /\ answers  = [c \in Calls |-> 0]
    /\ stale    = 0
    /\ closed   = FALSE
    /\ done     = FALSE
    /\ writerOpen = TRUE
    /\ closePC  = [k \in Closers \cup {Reader} |-> "start"]
    /\ readerPC = "select"
    /\ inHand   = NoMsg
    /\ served   = [q \in PeerReqs |-> "unread"]
    /\ asked    = {}
    /\ cut      = [c \in Calls |-> FALSE]
    /\ sessionEnd = FALSE

------------------------------------------------------------------------------
(* Call. Its deferred functions run in reverse order of their defer        *)
(* statements: clearInflightCancel, cancel, clearWaiter, releaseSlot.      *)

Goto(c, l)   == pc' = [pc EXCEPT ![c] = l]
End(c, o, p) == /\ outcome' = [outcome EXCEPT ![c] = o]
                /\ payload' = [payload EXCEPT ![c] = p]

\* acquireSlot, the three cases of its select.
AcquireSlot(c) ==
    /\ pc[c] = "start" /\ slots < Window
    /\ slots' = slots + 1
    /\ Goto(c, "slot")
    /\ UNCHANGED <<id, ch, outcome, payload, seq, requests, tableVars,
                   closeVars, readerVars, envVars>>

AcquireFail(c) ==
    /\ pc[c] = "start"
    /\ \/ ctxDone[c] /\ End(c, "deadline", NoCall)
       \/ done /\ End(c, "shutting_down", NoCall)
    /\ Goto(c, "returned")
    /\ UNCHANGED <<id, ch, seq, slots, requests, tableVars, closeVars,
                   readerVars, envVars>>

\* Mutant of NextID: the counter is read and written back without atomicity,
\* so an increment can be lost.
NextIDLostUpdate(c) ==
    /\ pc[c] = "slot" /\ seq < MaxSeq
    /\ seq' \in {seq, seq + 1}
    /\ id'  = [id EXCEPT ![c] = seq + 1]
    /\ Goto(c, "id")
    /\ UNCHANGED <<ch, outcome, payload, slots, requests, tableVars,
                   closeVars, readerVars, envVars>>

NextID(c) ==
    /\ pc[c] = "slot" /\ seq < MaxSeq
    /\ seq' = seq + 1
    /\ id'  = [id EXCEPT ![c] = seq + 1]
    /\ Goto(c, "id")
    /\ UNCHANGED <<ch, outcome, payload, slots, requests, tableVars,
                   closeVars, readerVars, envVars>>

RegisterWaiter(c) ==
    /\ pc[c] = "id"
    /\ waiters' = [waiters EXCEPT ![id[c]] = c]
    /\ Goto(c, "waiter")
    /\ UNCHANGED <<id, ch, outcome, payload, seq, slots, requests,
                   cancels, closeVars, readerVars, envVars>>

RegisterInflightCancel(c) ==
    /\ pc[c] = "waiter"
    /\ cancels' = [cancels EXCEPT ![id[c]] = c]
    /\ Goto(c, "send")
    /\ UNCHANGED <<id, ch, outcome, payload, seq, slots, requests,
                   waiters, closeVars, readerVars, envVars>>

\* sendRequest: the frame is on the wire and WriteFrame returned nil.
SendOk(c) ==
    /\ pc[c] = "send" /\ writerOpen
    /\ requests' = requests \cup {<<id[c], c>>}
    /\ Goto(c, "wait")
    /\ UNCHANGED <<id, ch, outcome, payload, seq, slots, tableVars,
                   closeVars, readerVars, envVars>>

\* sendRequest fails (params not encodable, context ended, writer closed,
\* broken pipe). A frame already handed to the writer may be sent all the same.
SendFail(c) ==
    /\ pc[c] = "send"
    /\ \/ UNCHANGED requests
       \/ /\ ctxDone[c] \/ cut[c]
          /\ writerOpen
          /\ requests' = requests \cup {<<id[c], c>>}
    /\ End(c, "send_failed", NoCall)
    /\ Goto(c, "clearCancel")
    /\ UNCHANGED <<id, ch, seq, slots, tableVars, closeVars,
                   readerVars, envVars>>

\* The select at the end of Call: a response (or Close's error) in ch ...
AwaitResponse(c) ==
    /\ pc[c] = "wait" /\ ch[c] # NoCall
    /\ IF ch[c] = "shutdown" THEN End(c, "shutting_down", NoCall)
                             ELSE End(c, "response", ch[c])
    /\ ch' = [ch EXCEPT ![c] = NoCall]
    /\ Goto(c, "clearCancel")
    /\ UNCHANGED <<id, seq, slots, requests, tableVars, closeVars,
                   readerVars, envVars>>

\* Mutants of AwaitFail: an early return that skips the deferred calls; a
\* select without the cctx.Done case.
AwaitFailNoDefer(c) ==
    /\ pc[c] = "wait"
    /\ \/ (ctxDone[c] \/ cut[c]) /\ End(c, "deadline", NoCall)
       \/ done /\ End(c, "shutting_down", NoCall)
    /\ Goto(c, "returned")
    /\ UNCHANGED <<id, ch, seq, slots, requests, tableVars, closeVars,
                   readerVars, envVars>>

AwaitFailIgnoringCtx(c) ==
    /\ pc[c] = "wait"
    /\ done /\ End(c, "shutting_down", NoCall)
    /\ Goto(c, "clearCancel")
    /\ UNCHANGED <<id, ch, seq, slots, requests, tableVars, closeVars,
                   readerVars, envVars>>

\* ... the end of the context, or of the session.
AwaitFail(c) ==
    /\ pc[c] = "wait"
    /\ \/ (ctxDone[c] \/ cut[c]) /\ End(c, "deadline", NoCall)
       \/ done /\ End(c, "shutting_down", NoCall)
    /\ Goto(c, "clearCancel")
    /\ UNCHANGED <<id, ch, seq, slots, requests, tableVars, closeVars,
                   readerVars, envVars>>

ClearInflightCancel(c) ==
    /\ pc[c] = "clearCancel"
    /\ cancels' = [cancels EXCEPT ![id[c]] = NoCall]
    /\ Goto(c, "clearWaiter")
    /\ UNCHANGED <<id, ch, outcome, payload, seq, slots, requests,
                   waiters, closeVars, readerVars, envVars>>

\* Mutant of ClearWaiter: the entry stays in the table.
ClearWaiterForgotten(c) ==
    /\ pc[c] = "clearWaiter"
    /\ Goto(c, "release")
    /\ UNCHANGED <<id, ch, outcome, payload, seq, slots, requests, tableVars,
                   closeVars, readerVars, envVars>>

ClearWaiter(c) ==
    /\ pc[c] = "clearWaiter"
    /\ waiters' = [waiters EXCEPT ![id[c]] = NoCall]
    /\ Goto(c, "release")
    /\ UNCHANGED <<id, ch, outcome, payload, seq, slots, requests,
                   cancels, closeVars, readerVars, envVars>>

\* releaseSlot receives without blocking: an empty window is left as it is.
ReleaseSlot(c) ==
    /\ pc[c] = "release"
    /\ slots' = IF slots > 0 THEN slots - 1 ELSE slots
    /\ Goto(c, "returned")
    /\ UNCHANGED <<id, ch, outcome, payload, seq, requests, tableVars,
                   closeVars, readerVars, envVars>>

------------------------------------------------------------------------------
(* readLoop and dispatch. A frame that changes nothing here (malformed,    *)
(* wrong id prefix, unknown notification) is ReadIgnored.                  *)

\* The select with a default case at the head of the loop.
ReaderSelect ==
    /\ readerPC = "select"
    /\ readerPC' = IF sessionEnd \/ done THEN "exited" ELSE "read"
    /\ UNCHANGED <<callVars, ch, tableVars, closeVars, inHand, answers, stale,
                   envVars>>

ReadIgnored ==
    /\ readerPC = "read"
    /\ readerPC' = "select"
    /\ UNCHANGED <<callVars, ch, tableVars, closeVars, inHand, answers, stale,
                   envVars>>

\* EOF, a frame the parser rejects, or the session's context already ended.
ReadError ==
    /\ readerPC = "read"
    /\ readerPC' = "closing"
    /\ UNCHANGED <<callVars, ch, tableVars, closeVars, inHand, answers, stale,
                   envVars>>

\* A response to Call c's request i: dispatch looks the waiter up under rpcMu
\* and sends on its channel after the unlock.
ReadResponse(i, c) ==
    /\ readerPC = "read"
    /\ <<i, c>> \in requests /\ answers[c] < MaxAnswers
    /\ answers' = [answers EXCEPT ![c] = @ + 1]
    /\ IF waiters[i] = NoCall
         THEN stale' = stale + 1 /\ readerPC' = "select" /\ UNCHANGED inHand
         ELSE /\ inHand' = [to |-> waiters[i], of |-> c]
              /\ readerPC' = "deliver"
              /\ UNCHANGED stale
    /\ UNCHANGED <<callVars, ch, tableVars, closeVars, envVars>>

\* dispatch: the non-blocking send on the waiter's channel.
Deliver ==
    /\ readerPC = "deliver"
    /\ IF ch[inHand.to] = NoCall
         THEN ch' = [ch EXCEPT ![inHand.to] = inHand.of] /\ UNCHANGED stale
         ELSE stale' = stale + 1 /\ UNCHANGED ch
    /\ inHand'   = NoMsg
    /\ readerPC' = "select"
    /\ UNCHANGED <<callVars, tableVars, closeVars, answers, envVars>>

\* A request of the peer: its handler runs in a goroutine of its own, but the
\* reader itself writes the answer to a request for an unknown method.
ReadRequest(q) ==
    /\ readerPC = "read" /\ served[q] = "unread"
    /\ \/ served' = [served EXCEPT ![q] = "handler"] /\ readerPC' = "select"
       \/ served' = [served EXCEPT ![q] = "unknown"] /\ readerPC' = "reply"
    /\ UNCHANGED <<callVars, ch, tableVars, closeVars, inHand, answers, stale,
                   ctxDone, asked, cut, sessionEnd>>

\* sendResultResponse or sendErrorResponse; errors of the writer are dropped.
Answer(q) ==
    \/ writerOpen /\ served' = [served EXCEPT ![q] = "answered"]
    \/ served' = [served EXCEPT ![q] = "unanswered"]

HandlerReturns(q) ==
    /\ served[q] = "handler"
    /\ Answer(q)
    /\ UNCHANGED <<callVars, ch, tableVars, closeVars, readerVars, ctxDone,
                   asked, cut, sessionEnd>>

ReaderReplies(q) ==
    /\ readerPC = "reply" /\ served[q] = "unknown"
    /\ Answer(q)
    /\ readerPC' = "select"
    /\ UNCHANGED <<callVars, ch, tableVars, closeVars, inHand, answers, stale,
                   ctxDone, asked, cut, sessionEnd>>

\* $/cancelRequest: the reader spawns handleCancelRequest, which looks the id
\* up under cancelMu and cancels the call it finds.
ReadCancel(i) ==
    /\ readerPC = "read"
    /\ asked' = asked \cup {i}
    /\ readerPC' = "select"
    /\ UNCHANGED <<callVars, ch, tableVars, closeVars, inHand, answers, stale,
                   ctxDone, cut, served, sessionEnd>>

\* Mutant of HandleCancelRequest: every call in flight is cancelled.
HandleCancelRequestAll(i) ==
    /\ i \in asked
    /\ cut' = [c \in Calls |-> cut[c] \/ \E j \in Ids : cancels[j] = c]
    /\ UNCHANGED <<callVars, ch, tableVars, closeVars, readerVars, ctxDone,
                   asked, served, sessionEnd>>

HandleCancelRequest(i) ==
    /\ i \in asked /\ cancels[i] # NoCall
    /\ cut' = [cut EXCEPT ![cancels[i]] = TRUE]
    /\ UNCHANGED <<callVars, ch, tableVars, closeVars, readerVars, ctxDone,
                   asked, served, sessionEnd>>

------------------------------------------------------------------------------
(* Close, called by the reader after a read error or from outside.         *)

\* Mutant of CloseMark: r.closed is not tested.
CloseMarkUntested(k) ==
    /\ closePC[k] = "start"
    /\ k = Reader => readerPC = "closing"
    /\ closePC' = [closePC EXCEPT ![k] = "marked"]
    /\ closed'  = TRUE
    /\ ch' = [c \in Calls |->
                IF ch[c] = NoCall /\ \E i \in Ids : waiters[i] = c
                THEN "shutdown" ELSE ch[c]]
    /\ waiters' = [i \in Ids |-> NoCall]
    /\ UNCHANGED <<callVars, cancels, done, writerOpen, readerVars, envVars>>

CloseMark(k) ==
    /\ closePC[k] = "start"
    /\ k = Reader => readerPC = "closing"
    /\ IF closed
         THEN /\ closePC' = [closePC EXCEPT ![k] = "returned"]
              /\ UNCHANGED <<closed, ch, waiters>>
         ELSE /\ closePC' = [closePC EXCEPT ![k] = "marked"]
              /\ closed'  = TRUE
              /\ ch' = [c \in Calls |->
                          IF ch[c] = NoCall /\ \E i \in Ids : waiters[i] = c
                          THEN "shutdown" ELSE ch[c]]
              /\ waiters' = [i \in Ids |-> NoCall]
    /\ UNCHANGED <<callVars, cancels, done, writerOpen, readerVars, envVars>>

\* Mutant of CloseDone: only the waiters in the table are woken.
CloseDoneSkipped(k) ==
    /\ closePC[k] = "marked"
    /\ closePC' = [closePC EXCEPT ![k] = "done"]
    /\ UNCHANGED <<callVars, ch, tableVars, closed, done, writerOpen,
                   readerVars, envVars>>

CloseDone(k) ==
    /\ closePC[k] = "marked"
    /\ closePC' = [closePC EXCEPT ![k] = "done"]
    /\ done'    = TRUE
    /\ UNCHANGED <<callVars, ch, tableVars, closed, writerOpen, readerVars,
                   envVars>>

CloseWriter(k) ==
    /\ closePC[k] = "done"
    /\ closePC'    = [closePC EXCEPT ![k] = "returned"]
    /\ writerOpen' = FALSE
    /\ UNCHANGED <<callVars, ch, tableVars, closed, done, readerVars, envVars>>

ReaderExit ==
    /\ readerPC = "closing" /\ closePC[Reader] = "returned"
    /\ readerPC' = "exited"
    /\ UNCHANGED <<callVars, ch, tableVars, closeVars, inHand, answers, stale,
                   envVars>>

------------------------------------------------------------------------------
(* The environment: contexts end.                                          *)
CtxEnd(c) ==
    /\ ~ctxDone[c] /\ pc[c] # "returned"
    /\ ctxDone' = [ctxDone EXCEPT ![c] = TRUE]
    /\ UNCHANGED <<callVars, ch, tableVars, closeVars, readerVars, asked, cut,
                   served, sessionEnd>>

SessionEnd ==
    /\ ~sessionEnd
    /\ sessionEnd' = TRUE
    /\ UNCHANGED <<callVars, ch, tableVars, closeVars, readerVars, ctxDone,
                   asked, cut, served>>

------------------------------------------------------------------------------
Call(c) ==
    \/ AcquireSlot(c) \/ AcquireFail(c)
    \/ NextID(c)
    \/ RegisterWaiter(c)
    \/ RegisterInflightCancel(c)
    \/ SendOk(c) \/ SendFail(c)
    \/ AwaitResponse(c) \/ AwaitFail(c)
    \/ ClearInflightCancel(c)
    \/ ClearWaiter(c)
    \/ ReleaseSlot(c)

ReadLoop ==
    \/ ReaderSelect \/ ReadIgnored \/ ReadError \/ Deliver \/ ReaderExit
    \/ \E i \in CancelIds : ReadCancel(i)
    \/ \E i \in Ids, c \in Calls : ReadResponse(i, c)
    \/ \E q \in PeerReqs : ReadRequest(q) \/ ReaderReplies(q)

Handlers ==
    \/ \E q \in PeerReqs : HandlerReturns(q)
    \/ \E i \in Ids : HandleCancelRequest(i)

Close(k) == CloseMark(k) \/ CloseDone(k) \/ CloseWriter(k)

Next ==
    \/ \E c \in Calls : Call(c) \/ CtxEnd(c)
    \/ ReadLoop
    \/ Handlers
    \/ \E k \in Closers \cup {Reader} : Close(k)
    \/ SessionEnd

Spec == Init /\ [][Next]_vars

(***************************************************************************)
(* The scheduler runs every goroutine that can run, and a WriteFrame       *)
(* returns. Nothing is assumed of the peer, of the contexts, or of whether *)
(* anyone outside calls Close.                                             *)
(***************************************************************************)
FairSpec ==
    /\ Spec
    /\ \A c \in Calls : WF_vars(Call(c))
    /\ WF_vars(ReaderSelect \/ Deliver \/ ReaderExit)
    /\ \A k \in Closers : WF_vars(CloseDone(k) \/ CloseWriter(k))
    /\ WF_vars(Close(Reader))

------------------------------------------------------------------------------
Holding == {c \in Calls : pc[c] \notin {"start", "returned"}}

\* The types of the variables; the window never holds more than its capacity.
TypeOK ==
    /\ pc \in [Calls -> {"start", "slot", "id", "waiter", "send", "wait",
                         "clearCancel", "clearWaiter", "release", "returned"}]
    /\ ctxDone \in [Calls -> BOOLEAN] /\ cut \in [Calls -> BOOLEAN]
    /\ id \in [Calls -> 0 .. MaxSeq]
    /\ ch \in [Calls -> Calls \cup {NoCall, "shutdown"}]
    /\ outcome \in [Calls -> {"none", "deadline", "shutting_down",
                              "send_failed", "response"}]
    /\ payload \in [Calls -> Calls \cup {NoCall}]
    /\ seq \in 0 .. MaxSeq
    /\ slots \in 0 .. Window
    /\ waiters \in [Ids -> Calls \cup {NoCall}]
    /\ cancels \in [Ids -> Calls \cup {NoCall}]
    /\ requests \subseteq (0 .. MaxSeq) \X Calls
    /\ answers \in [Calls -> 0 .. MaxAnswers]
    /\ stale \in Nat
    /\ closed \in BOOLEAN /\ done \in BOOLEAN
    /\ writerOpen \in BOOLEAN /\ sessionEnd \in BOOLEAN
    /\ closePC \in [Closers \cup {Reader} ->
                        {"start", "marked", "done", "returned"}]
    /\ readerPC \in {"select", "read", "deliver", "reply", "closing", "exited"}
    /\ inHand \in [to : Calls \cup {NoCall}, of : Calls \cup {NoCall}]
    /\ served \in [PeerReqs -> {"unread", "handler", "unknown", "answered",
                                "unanswered"}]
    /\ asked \subseteq Ids

\* "each direction's in-flight requests have a hard upper bound" (docs/20 4.6):
\* the tokens in inFlightWindow are exactly the calls between acquireSlot and
\* releaseSlot, so no early return leaks a slot or frees one twice.
SlotsAreInFlightCalls == slots = Cardinality(Holding)

\* A Call that returns a response returns the response to its own request,
\* whatever the peer duplicates and however late dispatch delivers.
OwnResponse ==
    \A c \in Calls : outcome[c] = "response" => payload[c] = c

\* A Call that has returned has left nothing behind in r.waiters or in
\* r.inflightCancel (clearWaiter: "does not leak entries").
NothingLeftBehind ==
    \A c \in Calls : pc[c] = "returned" =>
        \A i \in Ids : waiters[i] # c /\ cancels[i] # c

\* A $/cancelRequest cancels the call that sent the request it names and no
\* other (docs/20 4.7).
PreciseCancel == \A c \in Calls : cut[c] => id[c] \in asked

\* Close is "safe to call multiple times": r.done, which panics when it is
\* closed twice, is still open whenever a Close is about to close it, and no
\* two Close calls are.
DoneClosedOnce ==
    \A k, l \in Closers \cup {Reader} : closePC[k] = "marked" =>
        ~done /\ (closePC[l] = "marked" => l = k)

\* Close "fails every pending waiter": once the session is closed every Call
\* returns, the ones that registered their waiter after Close emptied the
\* table included.
CloseReleasesCalls == \A c \in Calls : closed ~> pc[c] = "returned"

\* Call "blocks until the matching response arrives or ctx is done": a call
\* whose context ended returns even if the peer stays silent.
DeadlineReleasesCall == \A c \in Calls : ctxDone[c] ~> pc[c] = "returned"
==============================================================================
