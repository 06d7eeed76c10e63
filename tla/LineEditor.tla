----------------------------- MODULE LineEditor -----------------------------
(***************************************************************************)
(* The line editor of `brain chat`.  The terminal turns keys into bytes,   *)
(* the reader goroutine hands them over in chunks cut anywhere, and        *)
(* lineReadSession.consume turns chunks back into keys, keeping the bytes  *)
(* of an unfinished key for the next chunk.                                *)
(*                                                                         *)
(* A byte is a string: "w1" and "w2" are the bytes of one wide rune "w",   *)
(* "5" and "200" stand for the parameter bytes of a control sequence.      *)
(* Drawing is left out.                                                    *)
(***************************************************************************)
EXTENDS Integers, Sequences, FiniteSets, FiniteSetsExt, SequencesExt

CONSTANTS
    LeKeys,      \* the keys the user may press, see LeBytes
    LeMaxKeys,   \* bound: keys of one behaviour
    LeHistory    \* the history loaded at the start, a sequence of lines

VARIABLES
    leKeys,      \* the keys pressed, in order
    leWire,      \* their bytes the editor has not seen
    leEd,        \* the editor: runes, cursor, pending bytes, paste flag, history index
    leLines      \* the lines entered

leVars == <<leKeys, leWire, leEd, leLines>>

(* What the terminal sends for a key.                                        *)
LeBytes(key) ==
    CASE key = "wide"     -> <<"w1", "w2">>
      [] key = "left"     -> <<"esc", "[", "D">>
      [] key = "right"    -> <<"esc", "[", "C">>
      [] key = "wordleft" -> <<"esc", "[", ";5", "D">>
      [] key = "wordright" -> <<"esc", "[", ";5", "C">>
      [] key = "up"       -> <<"esc", "[", "A">>
      [] key = "down"     -> <<"esc", "[", "B">>
      [] key = "home"     -> <<"esc", "O", "H">>
      [] key = "end"      -> <<"esc", "[", "4", "~">>
      [] key = "delete"   -> <<"esc", "[", "3", "~">>
      [] key = "paste"    -> <<"esc", "[", "200", "~">>
      [] key = "endpaste" -> <<"esc", "[", "201", "~">>
      [] OTHER            -> <<key>>

LeFinals == {"A", "B", "C", "D", "H", "F", "~"}

LeSpace(rune) == rune = " "

(* An empty line, as resetPromptInput leaves it (the paste flag stays).      *)
LeReset(ed) ==
    [ed EXCEPT !.runes = <<>>, !.pos = 0, !.pending = <<>>,
               !.index = Len(ed.history)]

LeFresh ==
    [runes |-> <<>>, pos |-> 0, pending |-> <<>>, pasting |-> FALSE,
     history |-> LeHistory, index |-> Len(LeHistory)]

LeLeaveBrowse(ed) == [ed EXCEPT !.index = Len(ed.history)]

(* addHistory, with the trimmed line; a repetition of the last line is not kept. *)
LeTrim(line) ==
    LET ink == {i \in DOMAIN line : ~LeSpace(line[i])}
    IN IF ink = {} THEN <<>> ELSE SubSeq(line, Min(ink), Max(ink))

LeRemember(history, line) ==
    IF line = <<>> \/ (history # <<>> /\ Last(history) = line) THEN history
    ELSE Append(history, line)

(* The caller resets the prompt and then remembers the line.                 *)
LeEntered(ed) ==
    LET history == LeRemember(ed.history, LeTrim(ed.runes))
    IN [LeReset(ed) EXCEPT !.history = history, !.index = Len(history)]

LeInsert(ed, rune) ==
    [ed EXCEPT !.runes = InsertAt(ed.runes, ed.pos + 1, rune), !.pos = @ + 1]

LeBackspace(ed) ==
    IF ed.pos = 0 THEN ed
    ELSE [ed EXCEPT !.runes = RemoveAt(ed.runes, ed.pos), !.pos = @ - 1]

LeDelete(ed) ==
    IF ed.pos >= Len(ed.runes) THEN ed
    ELSE [ed EXCEPT !.runes = RemoveAt(ed.runes, ed.pos + 1)]

LeReplaceInput(ed, text) == [ed EXCEPT !.runes = text, !.pos = Len(text)]

LeBrowsePrev(ed) ==
    IF \/ ed.history = <<>>
       \/ ed.index = Len(ed.history) /\ \E i \in DOMAIN ed.runes : ~LeSpace(ed.runes[i])
    THEN ed
    ELSE LET i == IF ed.index > 0 THEN ed.index - 1 ELSE 0
         IN [LeReplaceInput(ed, ed.history[i + 1]) EXCEPT !.index = i]

LeBrowseNext(ed) ==
    IF ed.index = Len(ed.history) THEN ed
    ELSE LET i == ed.index + 1
         IN [LeReplaceInput(ed, IF i < Len(ed.history) THEN ed.history[i + 1] ELSE <<>>)
                EXCEPT !.index = i]

(* The loops of the word motions: to the nearest rune that stops them.       *)
LeSkipBack(runes, p, spaces) ==
    Max({0} \cup {q \in 1..p : LeSpace(runes[q]) # spaces})

LeSkipForward(runes, p, spaces) ==
    Min({Len(runes)} \cup {q \in p..(Len(runes) - 1) : LeSpace(runes[q + 1]) # spaces})

LeMoveWordBack(ed) ==
    [ed EXCEPT !.pos = LeSkipBack(ed.runes, LeSkipBack(ed.runes, ed.pos, TRUE), FALSE)]

LeMoveWordForward(ed) ==
    [ed EXCEPT !.pos = LeSkipForward(ed.runes,
                                     LeSkipForward(ed.runes, ed.pos, FALSE), TRUE)]

LeDeleteWordBack(ed) ==
    LET to == LeMoveWordBack(ed).pos
    IN [ed EXCEPT !.runes = SubSeq(@, 1, to) \o SubSeq(@, ed.pos + 1, Len(@)),
                  !.pos = to]

(* csiSequenceLength: the sequence ends at its first final byte; 0 when the  *)
(* final byte has not arrived.                                               *)
LeCsiLength(data) ==
    LET ends == {i \in 3..Len(data) : data[i] \in LeFinals}
    IN IF ends = {} THEN 0 ELSE Min(ends)

LeEscapeLength(data) ==
    IF data[2] = "O" THEN (IF Len(data) < 3 THEN 0 ELSE 3) ELSE LeCsiLength(data)

(* handleEscape, for one complete sequence.                                  *)
LeHandleEscape(ed, seq) ==
    LET final == Last(seq)
        param == seq[3]
    IN CASE final = "A" -> LeBrowsePrev(ed)
         [] final = "B" -> LeBrowseNext(ed)
         [] final = "C" /\ param = ";5" -> LeMoveWordForward(ed)
         [] final = "C" -> [ed EXCEPT !.pos = Min({@ + 1, Len(ed.runes)})]
         [] final = "D" /\ param = ";5" -> LeMoveWordBack(ed)
         [] final = "D" -> [ed EXCEPT !.pos = Max({@ - 1, 0})]
         [] final = "H" -> [ed EXCEPT !.pos = 0]
         [] final = "~" /\ param = "3" -> LeDelete(LeLeaveBrowse(ed))
         [] final = "~" /\ param = "200" -> [ed EXCEPT !.pasting = TRUE]
         [] final = "~" /\ param = "201" -> [ed EXCEPT !.pasting = FALSE]
         [] OTHER -> [ed EXCEPT !.pos = Len(ed.runes)]

(* The bytes with a meaning of their own.                                    *)
LeControl(ed, byte) ==
    CASE byte = "bs"     -> LeBackspace(LeLeaveBrowse(ed))
      [] byte = "ctrl+a" -> [ed EXCEPT !.pos = 0]
      [] byte = "ctrl+u" -> [LeLeaveBrowse(ed) EXCEPT
                               !.runes = SubSeq(@, ed.pos + 1, Len(@)), !.pos = 0]
      [] byte = "ctrl+k" -> [LeLeaveBrowse(ed) EXCEPT !.runes = SubSeq(@, 1, ed.pos)]
      [] byte = "ctrl+b" -> LeDeleteWordBack(LeLeaveBrowse(ed))

LeControls == {"bs", "ctrl+a", "ctrl+u", "ctrl+k", "ctrl+b"}

(* consume: one pass of the loop over pending and new bytes.  It ends with   *)
(* the data, with an unfinished key, which stays pending, and with Enter:    *)
(* what follows Enter in the chunk is dropped.                               *)
LeScanStep(s) ==
    LET byte == Head(s.data)
        on(ed, n) == [s EXCEPT !.ed = ed, !.data = SubSeq(@, n + 1, Len(@))]
        keep == [s EXCEPT !.ed.pending = s.data, !.over = TRUE]
    IN
    CASE s.over \/ s.data = <<>> -> s
      [] ~s.over /\ s.data # <<>> /\ byte = "esc" ->
            LET n == LeEscapeLength(s.data)
            IN  IF n = 0 THEN keep ELSE on(LeHandleEscape(s.ed, SubSeq(s.data, 1, n)), n)
      [] ~s.over /\ s.data # <<>> /\ byte = "enter" ->
            IF s.ed.pasting THEN on(LeInsert(LeLeaveBrowse(s.ed), " "), 1)
            ELSE [s EXCEPT !.over = TRUE, !.done = TRUE]
      [] ~s.over /\ s.data # <<>> /\ byte \in LeControls -> on(LeControl(s.ed, byte), 1)
      [] ~s.over /\ s.data # <<>> /\ byte = "w1" ->
            IF Len(s.data) = 1 THEN keep ELSE on(LeInsert(LeLeaveBrowse(s.ed), "w"), 2)
      [] OTHER -> on(LeInsert(LeLeaveBrowse(s.ed), byte), 1)

(* Every pass takes at least one byte.                                       *)
LeScan(ed, data) ==
    FoldLeft(LAMBDA s, byte : LeScanStep(s),
             [ed |-> ed, data |-> data, over |-> FALSE, done |-> FALSE], data)

(* A form that starts each chunk afresh, dropping the unfinished key.        *)
LeConsumeAfresh(ed, chunk) == LeScan([ed EXCEPT !.pending = <<>>], chunk)

LeConsume(ed, chunk) == LeScan([ed EXCEPT !.pending = <<>>], ed.pending \o chunk)

LeInit ==
    /\ leKeys = <<>>
    /\ leWire = <<>>
    /\ leEd = LeFresh
    /\ leLines = <<>>

(* The user presses some keys.                                               *)
LeType(keys) ==
    /\ leKeys = <<>>
    /\ leKeys' = keys
    /\ leWire' = FlattenSeq([i \in DOMAIN keys |-> LeBytes(keys[i])])
    /\ UNCHANGED <<leEd, leLines>>

(* Where a chunk may end: not right behind the escape byte, because the       *)
(* reader waits for the rest of a sequence, and not behind bytes that follow  *)
(* an Enter: consume drops what was typed ahead of the next prompt.           *)
LeCut(n) ==
    /\ leWire[n] # "esc"
    /\ \A i \in 1..(n - 1) : leWire[i] # "enter"

LeRead(n) ==
    /\ LeCut(n)
    /\ leWire' = SubSeq(leWire, n + 1, Len(leWire))
    /\ LET out == LeConsume(leEd, SubSeq(leWire, 1, n)) IN
       /\ leEd' = IF out.done THEN LeEntered(out.ed) ELSE out.ed
       /\ leLines' = IF out.done THEN Append(leLines, LeTrim(out.ed.runes)) ELSE leLines
    /\ UNCHANGED leKeys

LeNext ==
    \/ \E n \in 1..LeMaxKeys : \E keys \in [1..n -> LeKeys] : LeType(keys)
    \/ \E n \in 1..Len(leWire) : LeRead(n)

LeSpec == LeInit /\ [][LeNext]_leVars

-----------------------------------------------------------------------------
(* A reference editor that sees whole keys.  It holds the text before the    *)
(* cursor and the text after it, so no index can be off by one.              *)
LeRef == [l |-> <<>>, r |-> <<>>, paste |-> FALSE, at |-> Len(LeHistory),
          hist |-> LeHistory, lines |-> <<>>]

(* The place where the last word of a text starts, and where the next starts. *)
LeWordStart(s) ==
    Max({0} \cup {q \in 1..(Len(s) - 1) : LeSpace(s[q]) /\ ~LeSpace(s[q + 1])})

LeNextWord(s) ==
    Min({Len(s)} \cup {q \in 1..(Len(s) - 1) : LeSpace(s[q]) /\ ~LeSpace(s[q + 1])})

LeRefRecall(e, i) ==
    [e EXCEPT !.l = IF i = Len(e.hist) THEN <<>> ELSE e.hist[i + 1],
              !.r = <<>>, !.at = i]

LeRefKey(e, key) ==
    LET typed(x) == [e EXCEPT !.l = Append(@, x), !.at = Len(e.hist)]
        text == e.l \o e.r
        cursor(p) == [e EXCEPT !.l = SubSeq(text, 1, p),
                               !.r = SubSeq(text, p + 1, Len(text))]
        off == [e EXCEPT !.at = Len(e.hist)]
        blank == \A i \in DOMAIN text : LeSpace(text[i])
    IN
    CASE key = "left"      -> cursor(Max({Len(e.l) - 1, 0}))
      [] key = "right"     -> cursor(Min({Len(e.l) + 1, Len(text)}))
      [] key \in {"home", "ctrl+a"} -> cursor(0)
      [] key = "end"       -> cursor(Len(text))
      [] key = "wordleft"  -> cursor(LeWordStart(e.l))
      [] key = "wordright" -> cursor(Len(e.l) + LeNextWord(e.r))
      [] key = "bs"        -> [off EXCEPT !.l = SubSeq(@, 1, Len(@) - 1)]
      [] key = "delete"    -> [off EXCEPT !.r = SubSeq(@, 2, Len(@))]
      [] key = "ctrl+u"    -> [off EXCEPT !.l = <<>>]
      [] key = "ctrl+k"    -> [off EXCEPT !.r = <<>>]
      [] key = "ctrl+b"    -> [off EXCEPT !.l = SubSeq(@, 1, LeWordStart(@))]
      [] key = "paste"     -> [e EXCEPT !.paste = TRUE]
      [] key = "endpaste"  -> [e EXCEPT !.paste = FALSE]
      [] key = "up"        -> IF e.at < Len(e.hist) \/ (blank /\ e.hist # <<>>)
                              THEN LeRefRecall(e, Max({e.at - 1, 0})) ELSE e
      [] key = "down"      -> IF e.at < Len(e.hist) THEN LeRefRecall(e, e.at + 1)
                                                       ELSE e
      [] key = "enter"     -> IF e.paste THEN typed(" ")
                              ELSE LET hist == LeRemember(e.hist, LeTrim(text))
                                   IN [e EXCEPT !.l = <<>>, !.r = <<>>, !.hist = hist,
                                                !.at = Len(hist),
                                                !.lines = Append(@, LeTrim(text))]
      [] key = "wide"      -> typed("w")
      [] OTHER             -> typed(key)

(* Wherever the byte stream is cut into chunks, the editor ends up with the  *)
(* text, the cursor, the history position and the entered lines of the keys  *)
(* pressed: no key is lost, doubled or split (consume and handleEscape,      *)
(* cmd/rawterm.go).                                                          *)
LeChunkingInvisible ==
    leWire = <<>> =>
        LET ref == FoldLeft(LeRefKey, LeRef, leKeys) IN
        /\ leEd.runes = ref.l \o ref.r
        /\ leEd.pos = Len(ref.l)
        /\ leEd.index = ref.at
        /\ leEd.pasting = ref.paste
        /\ leLines = ref.lines
        /\ leEd.pending = <<>>
=============================================================================
