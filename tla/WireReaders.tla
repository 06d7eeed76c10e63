---------------------------- MODULE WireReaders ----------------------------
(***************************************************************************)
(* The two readers that cut a byte stream into messages: ReadFrame of       *)
(* protocol/frame.go for the stdio sessions, and ReadMessage of             *)
(* tool/cdp/ws.go for the browser's WebSocket.                              *)
(*                                                                         *)
(* On stdio a unit of the stream is a header line or a piece of a body; the *)
(* pieces of a body may look like header lines, so that only the announced  *)
(* length separates frames.  A stream may end anywhere, also inside a line. *)
(* On the WebSocket a message may be fragmented, and control frames may     *)
(* stand between its fragments.  The length field is decoded from the bytes *)
(* the writer made of it.                                                   *)
(***************************************************************************)
EXTENDS Integers, Sequences, FiniteSets, SequencesExt

CONSTANTS
    WrFrames,       \* frames a peer may send: [lines |-> Seq(line), body |-> Seq(unit)]
    WrMaxFrames,    \* frames in one stream
    WrMaxBody,      \* MaxBodySize, in units
    WrMessages,     \* WebSocket messages: sequences of fragments
    WrControls,     \* control frames between two data frames: sets of sequences of ops
    WrLengths       \* payload lengths to encode

VARIABLES
    wrSent,         \* the frames put on the stream
    wrWhole,        \* the stream was not cut short
    wrStream,       \* what the reader has not consumed
    wrLength,       \* contentLength of the frame being read, -1 if none yet
    wrRead,         \* frames returned
    wrAt,           \* idle, header, body, closed
    wsSent,         \* messages written by the browser
    wsStream,       \* WebSocket frames not yet read
    wsBuf,          \* the payload assembled so far
    wsRead,         \* messages returned
    wsPongs         \* pongs written

wrVars == <<wrSent, wrWhole, wrStream, wrLength, wrRead, wrAt,
            wsSent, wsStream, wsBuf, wsRead, wsPongs>>

WrInit ==
    /\ wrSent = <<>> /\ wrWhole = TRUE /\ wrStream = <<>>
    /\ wrLength = -1 /\ wrRead = <<>> /\ wrAt = "idle"
    /\ wsSent = <<>> /\ wsStream = <<>> /\ wsBuf = <<>> /\ wsRead = <<>> /\ wsPongs = 0

wsVars == <<wsSent, wsStream, wsBuf, wsRead, wsPongs>>

(***************************************************************************)
(* Frames on stdio                                                         *)
(***************************************************************************)
\* A header line is a record [key, n]; "part" is a line cut off by the end.
WrLine(key, n) == [key |-> key, n |-> n]

\* writeOne: the headers, an empty line, the body.  Other writers may send
\* the headers of the frame in another order or add their own.
WrWriteOne(f) == f.lines \o <<WrLine("blank", 0)>> \o f.body

\* A sequence of frames, perhaps cut short, the last unit perhaps in the middle.
WrSend(frames, cut, inside) ==
    LET all == FlattenSeq([i \in DOMAIN frames |-> WrWriteOne(frames[i])])
    IN  /\ wrAt = "idle" /\ wsSent = <<>>
        /\ cut \in 0..Len(all)
        /\ inside => cut < Len(all)
        /\ wrSent' = frames
        /\ wrWhole' = (cut = Len(all))
        /\ wrStream' = SubSeq(all, 1, cut) \o (IF inside THEN <<WrLine("part", 0)>> ELSE <<>>)
        /\ wrAt' = "header"
        /\ UNCHANGED <<wrLength, wrRead, wsVars>>

\* ReadFrame returns an error, on which readLoop closes the session.
WrFail ==
    /\ wrAt' = "closed"
    /\ UNCHANGED <<wrSent, wrWhole, wrStream, wrLength, wrRead, wsVars>>

\* One header line: the end of the stream, a malformed or endless line and a
\* length above the cap are errors; unknown keys are skipped.
WrReadHeader ==
    /\ wrAt = "header"
    /\ IF wrStream = <<>> \/ Head(wrStream).key \in {"part", "malformed", "long"}
          \/ (Head(wrStream).key = "length" /\ Head(wrStream).n > WrMaxBody)
          \/ (Head(wrStream).key = "blank" /\ wrLength < 0)
       THEN WrFail
       ELSE /\ wrStream' = Tail(wrStream)
            /\ wrLength' = IF Head(wrStream).key = "length" THEN Head(wrStream).n ELSE wrLength
            /\ wrAt' = IF Head(wrStream).key = "blank" THEN "body" ELSE "header"
            /\ UNCHANGED <<wrSent, wrWhole, wrRead, wsVars>>

\* The body: exactly contentLength units, or an error.  The next call of
\* ReadFrame begins with fresh variables.
WrReadBody ==
    /\ wrAt = "body"
    /\ IF Len(wrStream) < wrLength \/ (\E i \in 1..wrLength : wrStream[i].key = "part")
       THEN WrFail
       ELSE /\ wrRead' = Append(wrRead, SubSeq(wrStream, 1, wrLength))
            /\ wrStream' = SubSeq(wrStream, wrLength + 1, Len(wrStream))
            /\ wrLength' = -1
            /\ wrAt' = "header"
            /\ UNCHANGED <<wrSent, wrWhole, wsVars>>

(***************************************************************************)
(* WebSocket frames                                                        *)
(***************************************************************************)
\* WriteText, Byte 1+: up to 125 in the second byte; 126 and two bytes; or
\* 127 and eight bytes (the upper four are zero for the lengths used here).
WsLength(n) ==
    CASE n <= 125   -> <<n>>
      [] n \in 126..65535 -> <<126, n \div 256, n % 256>>
      [] OTHER      -> <<127, 0, 0, 0, 0, n \div 16777216, (n \div 65536) % 256,
                         (n \div 256) % 256, n % 256>>

\* ReadMessage: the 7-bit length, or a big-endian integer of 2 or 8 bytes.
WsDecode(bytes) ==
    CASE bytes[1] = 126 -> bytes[2] * 256 + bytes[3]
      [] bytes[1] = 127 -> FoldSeq(LAMBDA b, acc : acc * 256 + b, 0, Reverse(SubSeq(bytes, 2, 9)))
      [] OTHER          -> bytes[1]

\* A message as frames; control frames before each of its fragments.
WsFrames(msg, controls) ==
    FlattenSeq([i \in DOMAIN msg |->
        controls \o <<[op |-> IF i = 1 THEN "text" ELSE "cont", fin |-> (i = Len(msg)),
                       data |-> msg[i]]>>])

WsSend(msgs, controls) ==
    LET ctl == [j \in DOMAIN controls |-> [op |-> controls[j], fin |-> TRUE, data |-> "c"]]
    IN  /\ wrAt = "idle" /\ wsSent = <<>> /\ msgs # <<>>
        /\ wsSent' = msgs
        /\ wsStream' = FlattenSeq([i \in DOMAIN msgs |-> WsFrames(msgs[i], ctl)])
        /\ UNCHANGED <<wrSent, wrWhole, wrStream, wrLength, wrRead, wrAt, wsBuf, wsRead, wsPongs>>

\* The payload gathered so far is dropped together with the ping.
WsPingDrops(buf) == <<>>

\* After a ping or a pong only "first" is reset; the payload is kept.
WsPingKeeps(buf) == buf

\* One round of ReadMessage's loop: ping, pong, or a data frame.
WsRead ==
    /\ wsStream # <<>>
    /\ LET f == Head(wsStream)
       IN  IF f.op \in {"ping", "pong"}
           THEN /\ wsPongs' = wsPongs + (IF f.op = "ping" THEN 1 ELSE 0)
                /\ wsBuf' = WsPingKeeps(wsBuf)
                /\ UNCHANGED wsRead
           ELSE /\ wsRead' = IF f.fin THEN Append(wsRead, Append(wsBuf, f.data)) ELSE wsRead
                /\ wsBuf' = IF f.fin THEN <<>> ELSE Append(wsBuf, f.data)
                /\ UNCHANGED wsPongs
    /\ wsStream' = Tail(wsStream)
    /\ UNCHANGED <<wrSent, wrWhole, wrStream, wrLength, wrRead, wrAt, wsSent>>

WrNext ==
    \/ \E frames \in SeqOf(WrFrames, WrMaxFrames), inside \in BOOLEAN :
         \E cut \in 0..(6 * WrMaxFrames) : WrSend(frames, cut, inside)
    \/ WrReadHeader \/ WrReadBody
    \/ \E msgs \in SeqOf(WrMessages, 2), controls \in WrControls : WsSend(msgs, controls)
    \/ WsRead

WrSpec == WrInit /\ [][WrNext]_wrVars

(***************************************************************************)
(* Properties                                                              *)
(***************************************************************************)
\* ReadFrame: the frames returned are the first frames sent, whatever their
\* bodies look like and wherever the stream ends, and all of them if it ends
\* after the last; a frame with a bad header is the end.  ReadMessage: the
\* same for WebSocket messages cut into fragments with pings between them,
\* and every length decodes to itself.
WrMessagesWhole ==
    /\ Len(wrRead) <= Len(wrSent)
    /\ \A i \in DOMAIN wrRead : wrRead[i] = wrSent[i].body
    /\ wrAt = "closed" /\ wrWhole
         => \/ Len(wrRead) = Len(wrSent)
            \/ \E l \in ToSet(wrSent[Len(wrRead) + 1].lines) : l.key \in {"malformed", "long"}
            \/ \A l \in ToSet(wrSent[Len(wrRead) + 1].lines) : l.key # "length"
    /\ IsPrefix(wsRead, wsSent)
    /\ wsStream = <<>> => wsRead = wsSent
    /\ \A n \in WrLengths : WsDecode(WsLength(n)) = n
=============================================================================
