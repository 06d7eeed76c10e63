----------------------------- MODULE LLMStream -----------------------------
(***************************************************************************)
(* One streamed answer of a language model.  The provider's server sends   *)
(* events; sseReader.Next maps them to the five normalised events (or the  *)
(* mock provider produces those itself), and drainStream assembles them    *)
(* into the response of the turn and shows them to a stream consumer.      *)
(*                                                                         *)
(* The stream may break off anywhere or carry an error event.  Text is a   *)
(* sequence of chunks; the JSON input of a tool call is a sequence of      *)
(* pieces, valid when it is the complete value.                            *)
(***************************************************************************)
EXTENDS Integers, Sequences, FiniteSets, SequencesExt

CONSTANTS
    LsMessages,     \* the answers: [blocks, stop, usage]
    LsOpensEmpty,   \* may a tool block with input open with the object {}
    LsProviders     \* subset of {"anthropic", "mock"}

VARIABLES
    lsMsg,      \* the answer being streamed
    lsWire,     \* the events the reader has not taken
    lsOpen,     \* sseReader.toolUse: index of an open tool block -> its call
    lsResp,     \* the response under construction
    lsBuf,      \* MemStreamConsumer's buffer of the turn
    lsAt        \* "start", "reading", "returned", "failed"

lsVars == <<lsMsg, lsWire, lsOpen, lsResp, lsBuf, lsAt>>

LsNil == [kind |-> "nil"]
LsNoCall == [name |-> "", input |-> <<>>]
LsNoUsage == 0

-----------------------------------------------------------------------------
(* The events of provider.go, which the mock provider produces directly.     *)
LsNormalised ==
    {"message.start", "content.delta", "tool_call.delta", "message.delta", "message.end"}

(* What the server of the API sends for an answer.                           *)
LsBlockEvents(block, i) ==
    IF block.type = "text"
    THEN <<[kind |-> "block_start", index |-> i, type |-> "text", input |-> <<>>]>>
         \o [k \in DOMAIN block.body |->
               [kind |-> "text_delta", index |-> i, text |-> block.body[k]]]
         \o <<[kind |-> "block_stop", index |-> i]>>
    ELSE <<[kind |-> "block_start", index |-> i, type |-> "tool_use",
            name |-> block.name,
            input |-> IF block.body = <<>> \/ LsOpensEmpty THEN <<"{}">> ELSE <<>>]>>
         \o [k \in DOMAIN block.body |->
               [kind |-> "json_delta", index |-> i, text |-> block.body[k]]]
         \o <<[kind |-> "block_stop", index |-> i]>>

LsServerEvents(msg) ==
    <<[kind |-> "message_start"]>>
    \o FlattenSeq([i \in DOMAIN msg.blocks |-> LsBlockEvents(msg.blocks[i], i)])
    \o <<[kind |-> "message_delta", stop |-> msg.stop, usage |-> msg.usage],
         [kind |-> "message_stop"]>>

(* The value of a tool input: {} when no piece follows.                      *)
LsInput(body) == IF body = <<>> THEN <<"{}">> ELSE body

(* lowerToStream of the mock provider.                                       *)
LsLower(msg) ==
    LET deltas(block) ==
            IF block.type = "text"
            THEN [k \in DOMAIN block.body |-> [kind |-> "content.delta",
                                               text |-> block.body[k]]]
            ELSE <<[kind |-> "tool_call.delta", name |-> block.name,
                    input |-> LsInput(block.body), valid |-> TRUE]>>
    IN <<[kind |-> "message.start"]>>
       \o FlattenSeq([i \in DOMAIN msg.blocks |-> deltas(msg.blocks[i])])
       \o <<[kind |-> "message.delta", stop |-> msg.stop, usage |-> msg.usage],
            [kind |-> "message.end", usage |-> msg.usage]>>

-----------------------------------------------------------------------------
(* mapSSEEvent: the open tool blocks after the event, and the normalised     *)
(* event it yields (LsNil: none).  A tool input that is not valid JSON makes *)
(* the whole payload unreadable.                                             *)
LsMapEvent(open, e) ==
    CASE e.kind = "message_start" -> <<open, [kind |-> "message.start"]>>
      [] e.kind = "block_start" /\ e.type = "tool_use" ->
            <<[i \in DOMAIN open \cup {e.index} |->
                 IF i = e.index THEN [name |-> e.name, input |-> e.input] ELSE open[i]],
              LsNil>>
      [] e.kind = "text_delta" -> <<open, [kind |-> "content.delta", text |-> e.text]>>
      [] e.kind = "json_delta" /\ e.index \in DOMAIN open ->
            <<[open EXCEPT ![e.index].input = Append(@, e.text)], LsNil>>
      [] e.kind = "block_stop" /\ e.index \in DOMAIN open ->
            <<[i \in DOMAIN open \ {e.index} |-> open[i]],
              [kind |-> "tool_call.delta", name |-> open[e.index].name,
               input |-> LsInput(open[e.index].input),
               valid |-> ~(Len(open[e.index].input) > 1 /\ open[e.index].input[1] = "{}")]>>
      [] e.kind = "message_delta" ->
            <<open, [kind |-> "message.delta", stop |-> e.stop, usage |-> e.usage]>>
      [] e.kind \in {"message_stop", "error"} ->
            <<open, [kind |-> "message.end", usage |-> LsNoUsage]>>
      [] e.kind \in LsNormalised -> <<open, e>>
      [] OTHER -> <<open, LsNil>>

LsEmpty == [text |-> <<>>, calls |-> <<>>, current |-> LsNoCall, stop |-> "",
            usage |-> LsNoUsage]

(* One round of the loop of drainStream.                                     *)
LsDrain(r, e) ==
    CASE e.kind = "content.delta" -> [r EXCEPT !.text = Append(@, e.text)]
      [] e.kind = "tool_call.delta" /\ e.valid ->
            [r EXCEPT !.calls = IF r.current = LsNoCall THEN @ ELSE Append(@, r.current),
                      !.current = [name |-> e.name, input |-> e.input]]
      [] e.kind = "message.delta" ->
            [r EXCEPT !.stop = IF e.stop # "" THEN e.stop ELSE @, !.usage = e.usage]
      [] e.kind = "message.end" -> [r EXCEPT !.usage = e.usage]
      [] OTHER -> r

(* A form of the end of drainStream that forgets the call still open.        *)
LsFlushForgets(r) == [r EXCEPT !.current = LsNoCall]

(* The end of drainStream: the pending call joins the others.                *)
LsFlush(r) ==
    [r EXCEPT !.calls = IF r.current = LsNoCall THEN @ ELSE Append(@, r.current),
              !.current = LsNoCall]

(* The On... methods of MemStreamConsumer.                                   *)
LsObserve(b, e) ==
    CASE e.kind = "content.delta" -> [b EXCEPT !.text = Append(@, e.text)]
      [] e.kind = "tool_call.delta" /\ e.valid ->
            [b EXCEPT !.calls = Append(@, [name |-> e.name, input |-> e.input])]
      [] e.kind = "message.delta" -> [b EXCEPT !.deltas = @ + 1]
      [] e.kind = "message.end" -> [b EXCEPT !.finished = TRUE]
      [] OTHER -> b

-----------------------------------------------------------------------------
LsInit ==
    /\ lsMsg = LsNil
    /\ lsWire = <<>>
    /\ lsOpen = <<>>
    /\ lsResp = LsEmpty
    /\ lsBuf = [text |-> <<>>, calls |-> <<>>, deltas |-> 0, finished |-> FALSE]
    /\ lsAt = "start"

(* Provider.Stream.                                                          *)
LsStream(msg, provider) ==
    /\ lsAt = "start"
    /\ lsMsg' = msg
    /\ lsWire' = IF provider = "mock" THEN LsLower(msg) ELSE LsServerEvents(msg)
    /\ lsAt' = "reading"
    /\ UNCHANGED <<lsOpen, lsResp, lsBuf>>

(* reader.Next and the round of drainStream that uses its event.             *)
LsRead ==
    /\ lsAt = "reading"
    /\ lsWire # <<>>
    /\ lsWire' = Tail(lsWire)
    /\ LET mapped == LsMapEvent(lsOpen, Head(lsWire))
           event  == mapped[2]
       IN /\ lsOpen' = mapped[1]
          /\ lsBuf' = LsObserve(lsBuf, event)
          /\ \/ /\ event.kind = "message.end"
                /\ lsResp' = LsFlush(LsDrain(lsResp, event))
                /\ lsAt' = "returned"
             \/ /\ event.kind # "message.end"
                /\ lsResp' = LsDrain(lsResp, event)
                /\ UNCHANGED lsAt
    /\ UNCHANGED lsMsg

(* The connection ends, the context is done, or the scanner fails: what has  *)
(* been gathered is used, and only an empty response is an error.            *)
LsBreak ==
    /\ lsAt = "reading"
    /\ lsWire # <<>>
    /\ lsWire' = <<>>
    /\ \/ /\ lsResp.stop = "" /\ lsResp.text = <<>> /\ lsResp.calls = <<>>
          /\ lsAt' = "failed"
          /\ UNCHANGED lsResp
       \/ /\ ~(lsResp.stop = "" /\ lsResp.text = <<>> /\ lsResp.calls = <<>>)
          /\ lsAt' = "returned"
          /\ lsResp' = LsFlush(lsResp)
    /\ UNCHANGED <<lsMsg, lsOpen, lsBuf>>

(* The server replaces the rest of the stream by an error event.             *)
LsServerError ==
    /\ lsAt = "reading"
    /\ lsWire # <<>>
    /\ Head(lsWire).kind \notin LsNormalised \cup {"error"}
    /\ lsWire' = <<[kind |-> "error"]>>
    /\ UNCHANGED <<lsMsg, lsOpen, lsResp, lsBuf, lsAt>>

LsNext ==
    \/ \E msg \in LsMessages, provider \in LsProviders : LsStream(msg, provider)
    \/ LsRead
    \/ LsBreak
    \/ LsServerError

LsSpec == LsInit /\ [][LsNext]_lsVars

-----------------------------------------------------------------------------
(* Provider.Complete on the same answer (toResponse).                        *)
LsToResponse(msg) ==
    LET kind(t) == SelectSeq(msg.blocks, LAMBDA b : b.type = t)
    IN [text  |-> FlattenSeq([i \in DOMAIN kind("text") |-> kind("text")[i].body]),
        calls |-> [i \in DOMAIN kind("tool_use") |->
                     [name  |-> kind("tool_use")[i].name,
                      input |-> LsInput(kind("tool_use")[i].body)]],
        usage |-> msg.usage]

(* The loop dispatches tools only when the stop reason says so, and then it  *)
(* dispatches what the model asked for: a response whose stop reason arrived *)
(* has the text and all the tool calls, complete and in order, of the same   *)
(* answer fetched without streaming, although the stream may have broken off *)
(* after that; and the consumer was shown the same.                          *)
LsStoppedIsComplete ==
    lsAt = "returned" /\ lsResp.stop # "" =>
        /\ lsResp.text = LsToResponse(lsMsg).text
        /\ lsResp.calls = LsToResponse(lsMsg).calls
        /\ lsResp.stop = lsMsg.stop
        /\ lsBuf.text = lsResp.text
        /\ lsBuf.calls = lsResp.calls

(* The usage of a stream that ended normally is the usage the provider       *)
(* reported (docs/22-Agent-Loop: message.end carries final_usage).           *)
LsUsageReported ==
    lsAt = "returned" /\ lsBuf.finished /\ lsResp.stop # "" =>
        lsResp.usage = lsMsg.usage
=============================================================================
