------------------------------ MODULE Cassette ------------------------------
(***************************************************************************)
(* The cassette recorder and player of the test kit. A recorder writes     *)
(* lines through a buffer to <name>.jsonl.tmp and renames the file on      *)
(* Finish; a player loads a whole file and walks through its events. A     *)
(* write may fail at any moment (a bufio.Writer then keeps failing), and   *)
(* the recording process may die. A file is the sequence of its lines; the *)
(* buffer reaches the disk from the front.                                 *)
(***************************************************************************)
EXTENDS Integers, Sequences, FiniteSets

CONSTANTS CsNames, CsEvents,   \* cassette names, event payloads
          CsLong,              \* events whose line exceeds the scanner's limit
          CsMaxEvents, CsMaxSessions, CsMaxFailures

VARIABLES csFile,      \* name -> set of at most one sequence of lines
          csTmp,       \* name -> the same for its .tmp sibling
          csRec,       \* the recorder: [pc, name, lines, onDisk, broken, closed]
          csPlayer,    \* [loaded, events, cursor]
          csDone,      \* history: name -> event sequences of finished sessions
          csSource,    \* history: the name the player loaded last
          csSessions, csFailures

csVars == <<csFile, csTmp, csRec, csPlayer, csDone, csSource, csSessions, csFailures>>

CsHeader == "header"
CsNewRecorder == [pc |-> "new", name |-> "", lines |-> <<>>, onDisk |-> 0, broken |-> FALSE,
                  closed |-> FALSE]
CsNewPlayer == [loaded |-> FALSE, events |-> <<>>, cursor |-> 1]

CsInit == /\ csFile = [n \in CsNames |-> {}]
          /\ csTmp = [n \in CsNames |-> {}]
          /\ csRec = CsNewRecorder
          /\ csPlayer = CsNewPlayer
          /\ csDone = [n \in CsNames |-> {}]
          /\ csSource = ""
          /\ csSessions = 0 /\ csFailures = 0

CsEventsOf(lines) == SelectSeq(lines, LAMBDA l : l # CsHeader)
CsMayFail == csFailures < CsMaxFailures

\* Start creates the tmp file, emptying one left by an earlier session. The
\* header stays in the buffer.
CsStart(n) ==
    /\ csRec.pc = "new"
    /\ csSessions < CsMaxSessions
    /\ csSessions' = csSessions + 1
    /\ csRec' = [CsNewRecorder EXCEPT !.pc = "started", !.name = n, !.lines = <<CsHeader>>]
    /\ csTmp' = [csTmp EXCEPT ![n] = {<<>>}]
    /\ UNCHANGED <<csFile, csPlayer, csDone, csSource, csFailures>>

\* The first k recorded lines have reached the disk.
CsOnDisk(k) == /\ csRec' = [csRec EXCEPT !.onDisk = k]
               /\ csTmp' = [csTmp EXCEPT ![csRec.name] = {SubSeq(csRec.lines, 1, k)}]

\* The buffer is full while a line is added, at any of its lines.
CsSpill ==
    /\ csRec.pc = "started" /\ ~csRec.broken /\ ~csRec.closed
    /\ csRec.onDisk < Len(csRec.lines)
    /\ CsOnDisk(csRec.onDisk + 1)
    /\ UNCHANGED <<csFile, csPlayer, csDone, csSource, csSessions, csFailures>>

\* Record; a write error makes the buffer fail from now on.
CsRecord(e) ==
    /\ csRec.pc = "started"
    /\ Len(csRec.lines) <= CsMaxEvents
    /\ \/ /\ ~csRec.broken
          /\ csRec' = [csRec EXCEPT !.lines = Append(@, e)]
          /\ UNCHANGED csFailures
       \/ /\ ~csRec.broken /\ CsMayFail
          /\ csRec' = [csRec EXCEPT !.broken = TRUE]
          /\ csFailures' = csFailures + 1
    /\ UNCHANGED <<csFile, csTmp, csPlayer, csDone, csSource, csSessions>>

\* Mutant: a failed flush does not stop Finish.
CsFlushIgnored == /\ ~csRec.closed
                  /\ csRec' = [csRec EXCEPT !.pc = "close"]
                  /\ UNCHANGED <<csTmp, csFailures>>
\* Finish, its flush: a buffer that failed before reports the same error.
CsFlush == /\ ~csRec.broken /\ ~csRec.closed
           /\ csTmp' = [csTmp EXCEPT ![csRec.name] = {csRec.lines}]
           /\ csRec' = [csRec EXCEPT !.pc = "close", !.onDisk = Len(csRec.lines)]
           /\ UNCHANGED csFailures

CsFinish == /\ csRec.pc = "started"
            /\ \/ CsFlush
               \/ /\ CsMayFail
                  /\ csFailures' = csFailures + 1
                  /\ csRec' = [csRec EXCEPT !.broken = TRUE]
                  /\ UNCHANGED csTmp
            /\ UNCHANGED <<csFile, csPlayer, csDone, csSource, csSessions>>

\* Finish, its close and rename. The file is closed once: after a close or a
\* rename that failed the session takes more events but never finishes.
CsClose == /\ csRec.pc = "close"
           /\ \/ csRec' = [csRec EXCEPT !.pc = "rename", !.closed = TRUE] /\ UNCHANGED csFailures
              \/ /\ CsMayFail
                 /\ csFailures' = csFailures + 1
                 /\ csRec' = [csRec EXCEPT !.pc = "started", !.closed = TRUE]
           /\ UNCHANGED <<csFile, csTmp, csPlayer, csDone, csSource, csSessions>>

CsRename == /\ csRec.pc = "rename"
            /\ \/ /\ csFile' = [csFile EXCEPT ![csRec.name] = csTmp[csRec.name]]
                  /\ csTmp' = [csTmp EXCEPT ![csRec.name] = {}]
                  /\ csDone' = [csDone EXCEPT ![csRec.name] = @ \cup {CsEventsOf(csRec.lines)}]
                  /\ csRec' = [csRec EXCEPT !.pc = "finished"]
                  /\ UNCHANGED csFailures
               \/ /\ CsMayFail
                  /\ csFailures' = csFailures + 1
                  /\ csRec' = [csRec EXCEPT !.pc = "started"]
                  /\ UNCHANGED <<csFile, csTmp, csDone>>
            /\ UNCHANGED <<csPlayer, csSource, csSessions>>

\* The process dies or drops the recorder; the next one is a new object.
CsNewProcess == /\ csRec.pc # "new"
                /\ csRec' = CsNewRecorder
                /\ UNCHANGED <<csFile, csTmp, csPlayer, csDone, csSource, csSessions, csFailures>>

----------------------------------------------------------------------------
\* Load keeps the previous cassette when the file is missing or a line is too
\* long for the scanner; header lines are skipped.
CsLoad(n) ==
    /\ \E lines \in csFile[n] :
         /\ \A i \in DOMAIN lines : lines[i] \notin CsLong
         /\ csPlayer' = [loaded |-> TRUE, cursor |-> 1,
                         events |-> CsEventsOf(lines)]
         /\ csSource' = n
    /\ UNCHANGED <<csFile, csTmp, csRec, csDone, csSessions, csFailures>>

\* Next beyond the last event answers cassette.eof and stays there.
CsPlayNext == /\ csPlayer.loaded
              /\ csPlayer.cursor <= Len(csPlayer.events)
              /\ csPlayer' = [csPlayer EXCEPT !.cursor = @ + 1]
              /\ UNCHANGED <<csFile, csTmp, csRec, csDone, csSource, csSessions, csFailures>>

CsRewind == /\ csPlayer.cursor > 1
            /\ csPlayer' = [csPlayer EXCEPT !.cursor = 1]
            /\ UNCHANGED <<csFile, csTmp, csRec, csDone, csSource, csSessions, csFailures>>

CsNext == \/ \E n \in CsNames : CsStart(n) \/ CsLoad(n)
          \/ \E e \in CsEvents : CsRecord(e)
          \/ CsSpill \/ CsFinish \/ CsClose \/ CsRename \/ CsNewProcess \/ CsPlayNext \/ CsRewind

----------------------------------------------------------------------------
\* A player only ever walks through a cassette some session finished, with
\* every event that session acknowledged and no other, however often writes
\* failed or recorders died half way; a cassette that was finished once stays
\* there, whole, until another session finishes.
CsReplayFaithful ==
    /\ csPlayer.loaded => csPlayer.events \in csDone[csSource]
    /\ \A n \in CsNames : csDone[n] # {} => \E lines \in csFile[n] : CsEventsOf(lines) \in csDone[n]
=============================================================================
