---------------------------- MODULE BrowserBrain ----------------------------
(***************************************************************************)
(* The browser brain: requests that build a tool registry, the holder that  *)
(* the fifteen browser tools of a registry share, the launch and the close  *)
(* of a browser (tool/cdp/session.go) and the commands each tool sends over *)
(* the DevTools connection (tool/builtin_browser.go).                       *)
(*                                                                         *)
(* buildRegistry replaces the handler's browserTools on every request that  *)
(* carries an execution boundary; the request that finishes closes whatever *)
(* browserTools holds then.  Requests run in goroutines of their own.  A    *)
(* tools/call without a boundary uses the registry of the start-up ("boot").*)
(* A holder never replaces a session whose browser has died.                *)
(***************************************************************************)
EXTENDS Integers, Sequences, FiniteSets

CONSTANTS
    BbRequests,     \* requests to the sidecar
    BbChosen,       \* the tools the requests use
    BbMaxTools,     \* tools per request
    BbMaxFaults     \* crashes, lost connections and expired contexts

VARIABLES
    bbAt,           \* request -> new, loop, start, wait, tool, close, done
    bbKind,         \* request -> "execute" or "call"
    bbUses,         \* request -> the holder of its registry
    bbCurrent,      \* the holder of browserHandler.browserTools
    bbSession,      \* holder -> holder.session is set
    bbLock,         \* holder -> the request that holds holder.mu, or "free"
    bbProc,         \* holder -> its browser: none, up, dead (not yet waited for)
    bbDir,          \* holder -> the browser's temporary profile exists
    bbProg,         \* request -> commands its tool still has to send
    bbHeld,         \* holder -> buttons and keys the page sees as pressed
    bbUsed,         \* request -> tools started
    bbFaults        \* faults so far

bbVars == <<bbAt, bbKind, bbUses, bbCurrent, bbSession, bbLock, bbProc, bbDir,
            bbProg, bbHeld, bbUsed, bbFaults>>

BbHolders == BbRequests \union {"boot"}

(***************************************************************************)
(* The tools as programs.  Must(c): an error ends the tool; Try(c): the     *)
(* error is ignored.  A query may also be refused (no such element).        *)
(***************************************************************************)
BbCmd(op, key, must) == [op |-> op, key |-> key, must |-> must]
BbQuery == BbCmd("query", "", TRUE)
BbDo == BbCmd("do", "", TRUE)
BbTryDo == BbCmd("do", "", FALSE)

\* dispatchMouseClick without the second event.
BbPressOnly(button) == <<BbCmd("down", button, TRUE)>>

\* dispatchMouseClick: pressed, then released; the first error is returned.
BbClick(button) == <<BbCmd("down", button, TRUE), BbCmd("up", button, TRUE)>>

\* Two dispatchKeyEvent calls whose errors nobody looks at.
BbStroke(key) == <<BbCmd("down", key, FALSE), BbCmd("up", key, FALSE)>>

BbOpen == <<BbDo, BbTryDo>>                         \* navigate, waitForLoad
BbBack == <<BbTryDo, BbDo>>                         \* history entry, history.back()
BbSwitchTab == <<BbDo, BbDo>> \o [i \in 1..5 |-> BbTryDo]   \* activate, attach, enable
BbClickTool == <<BbQuery>> \o BbClick("left")
BbDoubleClickTool == <<BbQuery>> \o BbClick("left")
BbRightClickTool == <<BbQuery>> \o BbClick("right")
BbTypeTool == <<BbQuery>> \o BbStroke("ctrl+a") \o BbStroke("backspace") \o <<BbDo>>
BbPressKeyTool == BbStroke("key")
BbScrollTool == <<BbCmd("query", "", FALSE), BbDo>>
BbHoverTool == <<BbQuery, BbDo>>
BbDragTool == <<BbQuery, BbQuery, BbCmd("down", "left", FALSE), BbTryDo,
                BbCmd("up", "left", FALSE)>>
BbSelectTool == <<BbDo>>
BbUploadTool == <<BbDo, BbQuery, BbDo>>
BbScreenshotTool == <<BbQuery, BbDo>>
BbEvalTool == <<BbDo>>
BbWaitTool == <<BbQuery>>                           \* pollUntil: true, an error, a timeout

BbProgram ==
    [open |-> BbOpen, back |-> BbBack, switch_tab |-> BbSwitchTab, click |-> BbClickTool,
     double_click |-> BbDoubleClickTool, right_click |-> BbRightClickTool,
     type |-> BbTypeTool, press_key |-> BbPressKeyTool, scroll |-> BbScrollTool,
     hover |-> BbHoverTool, drag |-> BbDragTool, select |-> BbSelectTool,
     upload_file |-> BbUploadTool, screenshot |-> BbScreenshotTool,
     eval |-> BbEvalTool, wait |-> BbWaitTool]

\* Requests are told apart from the mark of a free mutex, and use tools that exist.
ASSUME BbAssumption == "free" \notin BbRequests /\ BbChosen \subseteq DOMAIN BbProgram

BbInit ==
    /\ bbAt = [r \in BbRequests |-> "new"]
    /\ bbKind = [r \in BbRequests |-> "execute"]
    /\ bbUses = [r \in BbRequests |-> "boot"]
    /\ bbCurrent = "boot"
    /\ bbSession = [h \in BbHolders |-> FALSE]
    /\ bbLock = [h \in BbHolders |-> "free"]
    /\ bbProc = [h \in BbHolders |-> "none"]
    /\ bbDir = [h \in BbHolders |-> FALSE]
    /\ bbProg = [r \in BbRequests |-> <<>>]
    /\ bbHeld = [h \in BbHolders |-> {}]
    /\ bbUsed = [r \in BbRequests |-> 0]
    /\ bbFaults = 0

bbBrowser == <<bbSession, bbLock, bbProc, bbDir, bbHeld>>

\* handleExecute, or handleToolsCall with a boundary: buildRegistry makes new
\* tools with a holder of their own and stores them in the handler.
BbBuildRegistry(r, kind) ==
    /\ bbAt[r] = "new"
    /\ bbAt' = [bbAt EXCEPT ![r] = "loop"]
    /\ bbKind' = [bbKind EXCEPT ![r] = kind]
    /\ bbUses' = [bbUses EXCEPT ![r] = r]
    /\ bbCurrent' = r
    /\ UNCHANGED <<bbBrowser, bbProg, bbUsed, bbFaults>>

\* handleToolsCall without a boundary: the registry of the start-up.
BbCallOnBoot(r) ==
    /\ bbAt[r] = "new"
    /\ bbAt' = [bbAt EXCEPT ![r] = "loop"]
    /\ bbKind' = [bbKind EXCEPT ![r] = "call"]
    /\ UNCHANGED <<bbUses, bbCurrent, bbBrowser, bbProg, bbUsed, bbFaults>>

\* A call runs one tool, the loop of an execute several.
BbMayUse(r) == bbUsed[r] < (IF bbKind[r] = "call" THEN 1 ELSE BbMaxTools)

\* holder.get: the stored session, alive or not; otherwise a launch under the
\* holder's mutex, which begins with the temporary directory.
BbTool(r, tool) ==
    LET h == bbUses[r]
    IN  /\ bbAt[r] = "loop"
        /\ BbMayUse(r)
        /\ bbLock[h] = "free"
        /\ bbUsed' = [bbUsed EXCEPT ![r] = @ + 1]
        /\ bbProg' = [bbProg EXCEPT ![r] = BbProgram[tool]]
        /\ IF bbSession[h]
           THEN /\ bbAt' = [bbAt EXCEPT ![r] = "tool"]
                /\ UNCHANGED bbBrowser
           ELSE /\ bbAt' = [bbAt EXCEPT ![r] = "start"]
                /\ bbLock' = [bbLock EXCEPT ![h] = r]
                /\ bbDir' = [bbDir EXCEPT ![h] = TRUE]
                /\ UNCHANGED <<bbSession, bbProc, bbHeld>>
        /\ UNCHANGED <<bbKind, bbUses, bbCurrent, bbFaults>>

\* holder.get returns an error: the tool reports it.
BbLaunchFails(r) ==
    /\ bbAt' = [bbAt EXCEPT ![r] = "loop"]
    /\ bbProg' = [bbProg EXCEPT ![r] = <<>>]
    /\ bbLock' = [bbLock EXCEPT ![bbUses[r]] = "free"]

\* NewBrowserSession: no free port or no process removes the directory.
BbStart(r) ==
    LET h == bbUses[r]
    IN  /\ bbAt[r] = "start"
        /\ \/ /\ bbProc' = [bbProc EXCEPT ![h] = "up"]
              /\ bbAt' = [bbAt EXCEPT ![r] = "wait"]
              /\ UNCHANGED <<bbDir, bbProg, bbLock>>
           \/ /\ BbLaunchFails(r)
              /\ bbDir' = [bbDir EXCEPT ![h] = FALSE]
              /\ UNCHANGED bbProc
        /\ UNCHANGED <<bbKind, bbUses, bbCurrent, bbSession, bbHeld, bbUsed, bbFaults>>

\* BrowserSession.Close: kill, wait, remove the profile.
BbReap(h) ==
    /\ bbProc' = [bbProc EXCEPT ![h] = "none"]
    /\ bbDir' = [bbDir EXCEPT ![h] = FALSE]
    /\ bbHeld' = [bbHeld EXCEPT ![h] = {}]

\* waitForCDP: the endpoint answers and a page is attached, or a timeout, a
\* done context or a failed attach closes everything again.
BbWait(r) ==
    LET h == bbUses[r]
    IN  /\ bbAt[r] = "wait"
        /\ \/ /\ bbProc[h] = "up"
              /\ bbSession' = [bbSession EXCEPT ![h] = TRUE]
              /\ bbLock' = [bbLock EXCEPT ![h] = "free"]
              /\ bbAt' = [bbAt EXCEPT ![r] = "tool"]
              /\ UNCHANGED <<bbProg, bbProc, bbDir, bbHeld>>
           \/ BbLaunchFails(r) /\ BbReap(h) /\ UNCHANGED bbSession
        /\ UNCHANGED <<bbKind, bbUses, bbCurrent, bbUsed, bbFaults>>

BbAdvance(r, rest) ==
    /\ bbProg' = [bbProg EXCEPT ![r] = rest]
    /\ bbAt' = [bbAt EXCEPT ![r] = IF rest = <<>> THEN "loop" ELSE "tool"]

\* What a command does to the page.
BbEffect(cmd, held) ==
    CASE cmd.op = "down" -> held \union {cmd.key}
      [] cmd.op = "up"   -> held \ {cmd.key}
      [] OTHER           -> held

\* The next command of the tool is answered.
BbCommand(r) ==
    LET h == bbUses[r]
        cmd == Head(bbProg[r])
    IN  /\ bbAt[r] = "tool"
        /\ bbSession[h] /\ bbProc[h] = "up"
        /\ \/ /\ BbAdvance(r, Tail(bbProg[r]))
              /\ bbHeld' = [bbHeld EXCEPT ![h] = BbEffect(cmd, @)]
           \/ /\ cmd.op = "query"
              /\ BbAdvance(r, IF cmd.must THEN <<>> ELSE Tail(bbProg[r]))
              /\ UNCHANGED bbHeld
        /\ UNCHANGED <<bbKind, bbUses, bbCurrent, bbSession, bbLock, bbProc, bbDir,
                       bbUsed, bbFaults>>

\* The command fails: the connection is gone, or the context is done.
BbCommandFails(r) ==
    LET h == bbUses[r]
        lost == ~bbSession[h] \/ bbProc[h] # "up"
    IN  /\ bbAt[r] = "tool"
        /\ lost \/ bbFaults < BbMaxFaults
        /\ bbFaults' = IF lost THEN bbFaults ELSE bbFaults + 1
        /\ BbAdvance(r, IF Head(bbProg[r]).must THEN <<>> ELSE Tail(bbProg[r]))
        /\ UNCHANGED <<bbKind, bbUses, bbCurrent, bbBrowser, bbUsed>>

\* The browser exits by itself or is killed.
BbCrash(h) ==
    /\ bbFaults < BbMaxFaults
    /\ bbProc[h] = "up"
    /\ bbFaults' = bbFaults + 1
    /\ bbProc' = [bbProc EXCEPT ![h] = "dead"]
    /\ UNCHANGED <<bbAt, bbKind, bbUses, bbCurrent, bbSession, bbLock, bbDir,
                   bbProg, bbHeld, bbUsed>>

\* The loop of an execute ends, or the call has its result.
BbFinish(r) ==
    /\ bbAt[r] = "loop"
    /\ bbAt' = [bbAt EXCEPT ![r] = IF bbKind[r] = "call" THEN "done" ELSE "close"]
    /\ UNCHANGED <<bbKind, bbUses, bbCurrent, bbBrowser, bbProg, bbUsed, bbFaults>>

\* CloseBrowserSession(h.browserTools): the holder that is current now.
BbClose(r) ==
    LET h == bbCurrent
    IN  /\ bbAt[r] = "close"
        /\ bbLock[h] = "free"
        /\ IF bbSession[h]
           THEN BbReap(h) /\ bbSession' = [bbSession EXCEPT ![h] = FALSE]
           ELSE UNCHANGED <<bbSession, bbProc, bbDir, bbHeld>>
        /\ bbAt' = [bbAt EXCEPT ![r] = "done"]
        /\ UNCHANGED <<bbKind, bbUses, bbCurrent, bbLock, bbProg, bbUsed, bbFaults>>

BbNext ==
    \/ \E r \in BbRequests :
         \/ \E kind \in {"execute", "call"} : BbBuildRegistry(r, kind)
         \/ BbCallOnBoot(r) \/ BbStart(r) \/ BbWait(r)
         \/ BbCommand(r) \/ BbCommandFails(r) \/ BbFinish(r) \/ BbClose(r)
         \/ \E tool \in BbChosen : BbTool(r, tool)
    \/ \E h \in BbHolders : BbCrash(h)

BbSpec == BbInit /\ [][BbNext]_bbVars

(***************************************************************************)
(* Properties                                                              *)
(***************************************************************************)
\* NewBrowserSession and browserSessionHolder: whatever fails during a launch
\* and whoever closes which holder, a browser process or a profile directory
\* exists only while its holder still has the session to close it with, or
\* while a request is launching it under the holder's mutex; and with no fault
\* a holder that no tool is using leaves no button or key pressed on the page.
BbBrowserAccounted ==
    \A h \in BbHolders :
        /\ bbProc[h] # "none" \/ bbDir[h] => bbSession[h] \/ bbLock[h] # "free"
        /\ bbFaults = 0 /\ (\A r \in BbRequests : bbUses[r] = h => bbAt[r] # "tool")
             => bbHeld[h] = {}
=============================================================================
