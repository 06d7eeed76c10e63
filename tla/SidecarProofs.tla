--------------------------- MODULE SidecarProofs ----------------------------
(***************************************************************************)
(* A session, its sidecar and the calls between them, for every value of   *)
(* their constants: a call gets its own response for any set of calls, any *)
(* window and any peer; Escape reaches the newest run; the tools change    *)
(* only what the file policy permits; a transcript pairs every call with   *)
(* its result.                                                             *)
(***************************************************************************)
EXTENDS BidirRPC, ChatSession, ToolGuard, SidecarRuntime, FiniteSetTheorems, TLAPS

-----------------------------------------------------------------------------
(* The chat session: Escape always reaches the newest run.                 *)

ChStages == {"works", "asks", "waits", "sends", "clears", "over"}

ChRunType == [base : Seq(Nat), input : Nat, at : ChStages, cancelled : BOOLEAN, asks : Nat,
              result : {"none", "done", "failed", "cancelled"}]

ChRunsOK == chRuns \in Seq(ChRunType)

\* The inputs that wait or are answered are numbers, and whoever is named as a
\* run is one of those started.
ChInputsOK ==
  /\ chMessages \in Seq(Nat) /\ chQueue \in Seq(Nat) /\ chTyped \in Nat
  /\ chResults \in Seq(DOMAIN chRuns)
  /\ chAt.what = "approve" => chAt.run \in DOMAIN chRuns

-----------------------------------------------------------------------------
(* What a step does to the list of runs.                                   *)

\* A run that was started last.
ChNewRun(base, input) ==
  [base |-> base, input |-> input, at |-> "works", cancelled |-> FALSE, asks |-> 0, result |-> "none"]

\* A new run is the newest one and the one Escape reaches; the others stay.
LEMMA Started ==
  ASSUME ChRunsOK, NEW base \in Seq(Nat), NEW input \in Nat, ChStart(input, base)
  PROVE  /\ chRuns' \in Seq(ChRunType) /\ ChGen' = ChGen + 1 /\ chCancel' = ChGen'
         /\ \A r \in DOMAIN chRuns : r \in DOMAIN chRuns' /\ chRuns'[r] = chRuns[r]
<1>1. ChNewRun(base, input) \in ChRunType /\ chRuns' = Append(chRuns, ChNewRun(base, input)) /\ chCancel' = ChGen + 1
  BY Zenon DEF ChNewRun, ChRunType, ChStages, ChStart
<1> HIDE DEF ChNewRun
<1> QED BY <1>1 DEF ChRunsOK, ChGen

\* A run that goes on: it may not come back to work once its turn has ended.
ChMoves(r) ==
  \E x \in ChRunType :
    /\ chRuns' = [chRuns EXCEPT ![r] = x]
    /\ x.cancelled = chRuns[r].cancelled
    /\ x.at \in {"works", "asks", "waits"} => ChExecuting(r)

\* A run that goes on keeps its cancellation and does not come back to work.
LEMMA Moved ==
  ASSUME ChRunsOK, NEW r \in DOMAIN chRuns, ChMoves(r)
  PROVE  /\ chRuns' \in Seq(ChRunType) /\ DOMAIN chRuns' = DOMAIN chRuns /\ ChGen' = ChGen
         /\ \A q \in DOMAIN chRuns : /\ chRuns'[q].cancelled = chRuns[q].cancelled
                                     /\ ChExecuting(q)' => ChExecuting(q)
<1>1. PICK x \in ChRunType : /\ chRuns' = [chRuns EXCEPT ![r] = x]
                             /\ x.cancelled = chRuns[r].cancelled
                             /\ x.at \in {"works", "asks", "waits"} => ChExecuting(r)
  BY Zenon DEF ChMoves
<1>2. chRuns' \in Seq(ChRunType) /\ Len(chRuns') = Len(chRuns) /\ DOMAIN chRuns' = DOMAIN chRuns
  BY <1>1 DEF ChRunsOK
<1>3. \A q \in DOMAIN chRuns : chRuns'[q] = IF q = r THEN x ELSE chRuns[q]
  BY <1>1, Zenon
<1> QED BY <1>1, <1>2, <1>3, Zenon DEF ChGen, ChExecuting

\* Every step of a run's goroutine is such a move.
LEMMA StepsMove ==
  ASSUME ChRunsOK, NEW r \in DOMAIN chRuns, ChRunStep(r)
  PROVE  ChMoves(r)
<1>1. chRuns[r] \in ChRunType
  BY DEF ChRunsOK
<1>2. PICK y \in ChRunType : y = chRuns[r]
  BY <1>1, Zenon
<1>3. ASSUME NEW to \in ChStages, to \in {"works", "asks", "waits"} => ChExecuting(r),
             chRuns' = [chRuns EXCEPT ![r].at = to]
      PROVE  ChMoves(r)
  <2>1. PICK x : x = [y EXCEPT !.at = to]
    BY Zenon
  <2>2. x \in ChRunType /\ x.cancelled = y.cancelled /\ x.at = to
    BY <2>1, Zenon DEF ChRunType
  <2> QED BY <1>2, <1>3, <2>1, <2>2, Zenon DEF ChMoves
<1>4. CASE ChGiveUp(r) \/ ChSend(r) \/ ChClearCancel(r) \/ ChTakeRequest(r)
  BY <1>3, <1>4, Zenon DEF ChGiveUp, ChSend, ChClearCancel, ChTakeRequest, ChExecuting, ChStages
<1>5. CASE ChAsk(r)
  <2>0. PICK n \in Nat : n = y.asks + 1
    BY DEF ChRunType
  <2>1. PICK x : x = [y EXCEPT !.at = "asks", !.asks = n]
    BY Zenon
  <2>2. x \in ChRunType /\ x.cancelled = y.cancelled /\ x.at = "asks"
    BY <2>1, Zenon DEF ChRunType, ChStages
  <2> QED BY <1>2, <1>5, <2>0, <2>1, <2>2, Zenon DEF ChMoves, ChAsk, ChExecuting
<1>6. CASE ChTurnEnds(r)
  <2>1. PICK res \in {"done", "failed", "cancelled"} : chRuns' = [chRuns EXCEPT ![r] = [@ EXCEPT !.at = "sends", !.result = res]]
    BY <1>6, Zenon DEF ChTurnEnds
  <2>2. PICK x : x = [y EXCEPT !.at = "sends", !.result = res]
    BY Zenon
  <2>3. x \in ChRunType /\ x.cancelled = y.cancelled /\ x.at = "sends"
    BY <2>2, Zenon DEF ChRunType, ChStages
  <2> QED BY <1>2, <2>1, <2>2, <2>3, Zenon DEF ChMoves
<1> QED BY <1>4, <1>5, <1>6, Zenon DEF ChRunStep

\* So is the answer to an approval question.
LEMMA AnswerMoves ==
  ASSUME ChRunsOK, chAt.run \in DOMAIN chRuns, ChAnswer
  PROVE  ChMoves(chAt.run)
<1>1. PICK r \in DOMAIN chRuns : r = chAt.run
  BY Zenon
<1>2. PICK y \in ChRunType : y = chRuns[r]
  BY DEF ChRunsOK
<1>3. PICK to \in ChStages : to = IF y.at = "waits" THEN "works" ELSE y.at
  BY Zenon DEF ChRunType, ChStages
<1>4. PICK x : x = [y EXCEPT !.at = to]
  BY Zenon
<1>5. x \in ChRunType /\ x.cancelled = y.cancelled /\ x.at = to
  BY <1>4, Zenon DEF ChRunType
<1>6. chRuns' = [chRuns EXCEPT ![r] = x]
  BY <1>1, <1>2, <1>3, <1>4, Zenon DEF ChAnswer
<1> QED BY <1>1, <1>2, <1>3, <1>5, <1>6, Zenon DEF ChMoves, ChExecuting

\* cancelCurrentRun marks the run whose cancel function is stored and no other.
LEMMA Escaped ==
  ASSUME ChRunsOK, ChEscape
  PROVE  /\ chRuns' \in Seq(ChRunType) /\ DOMAIN chRuns' = DOMAIN chRuns /\ ChGen' = ChGen
         /\ \A q \in DOMAIN chRuns : /\ chRuns'[q].cancelled = (chRuns[q].cancelled \/ q = chCancel)
                                     /\ ChExecuting(q)' => ChExecuting(q)
<1> DEFINE R(q) == [chRuns[q] EXCEPT !.cancelled = @ \/ q = chCancel]
<1>1. \A q \in DOMAIN chRuns : chRuns[q] \in ChRunType
  BY DEF ChRunsOK
<1>2. ASSUME NEW q \in DOMAIN chRuns
      PROVE  /\ R(q) \in ChRunType /\ R(q).cancelled = (chRuns[q].cancelled \/ q = chCancel)
             /\ R(q).at = chRuns[q].at
  <2>1. PICK y \in ChRunType : y = chRuns[q]
    BY <1>1, Zenon
  <2>2. PICK b \in BOOLEAN : b = (y.cancelled \/ q = chCancel)
    BY Zenon
  <2>3. /\ [y EXCEPT !.cancelled = b] \in ChRunType
        /\ [y EXCEPT !.cancelled = b].cancelled = b /\ [y EXCEPT !.cancelled = b].at = y.at
    BY Zenon DEF ChRunType
  <2> QED BY <2>1, <2>2, <2>3
<1>3. chRuns' = [q \in DOMAIN chRuns |-> R(q)]
  BY Zenon DEF ChEscape
<1> HIDE DEF R
<1>4. DOMAIN chRuns = 1 .. Len(chRuns) /\ Len(chRuns) \in Nat
  BY DEF ChRunsOK
<1>5. chRuns' \in Seq(ChRunType) /\ DOMAIN chRuns' = DOMAIN chRuns /\ Len(chRuns') = Len(chRuns)
  BY <1>2, <1>3, <1>4
<1>6. \A q \in DOMAIN chRuns : chRuns'[q] = R(q)
  BY <1>3, Zenon
<1> QED BY <1>2, <1>5, <1>6, Zenon DEF ChGen, ChExecuting

-----------------------------------------------------------------------------
ChInv == ChRunsOK /\ ChInputsOK /\ ChCancelKept

\* A step that starts a run gives it the stored cancel function.
LEMMA StartKeeps ==
  ASSUME ChInv, NEW base \in Seq(Nat), NEW input \in Nat, ChStart(input, base),
         chMessages' \in Seq(Nat), chQueue' \in Seq(Nat), chTyped' \in Nat, UNCHANGED chResults,
         chAt' = ChSelecting
  PROVE  ChInv'
<1>1. ChRunsOK' /\ ChCancelKept' /\ DOMAIN chRuns \subseteq DOMAIN chRuns'
  BY Started, Zenon DEF ChInv, ChRunsOK, ChCancelKept
<1>2. ChInputsOK'
  BY <1>1 DEF ChInv, ChInputsOK, ChSelecting
<1> QED BY <1>1, <1>2, Zenon DEF ChInv

\* A step of one run, or of the loop for it.
LEMMA MoveKeeps ==
  ASSUME ChInv, NEW r \in DOMAIN chRuns, ChMoves(r),
         chCancel' = chCancel \/ (~ChExecuting(r) /\ r = ChGen)
  PROVE  ChRunsOK' /\ ChCancelKept' /\ DOMAIN chRuns' = DOMAIN chRuns
<1>1. ChRunsOK' /\ DOMAIN chRuns' = DOMAIN chRuns /\ ChGen' = ChGen
  BY Moved, Zenon DEF ChInv, ChRunsOK
<1>2. ASSUME ChGen' > 0, ChExecuting(ChGen)', ~chRuns'[ChGen'].cancelled PROVE chCancel' = ChGen'
  <2>1. ChGen \in DOMAIN chRuns
    BY <1>1, <1>2 DEF ChInv, ChRunsOK, ChGen
  <2>2. ChExecuting(ChGen) /\ ~chRuns[ChGen].cancelled
    <3>1. PICK g \in DOMAIN chRuns : g = ChGen
      BY <2>1, Zenon
    <3>2. ChExecuting(g)' /\ ~chRuns'[g].cancelled
      BY <1>1, <1>2, <3>1, Zenon DEF ChExecuting
    <3>3. ChExecuting(g) /\ ~chRuns[g].cancelled
      BY <3>2, Moved, Zenon DEF ChInv
    <3> QED BY <3>1, <3>3, Zenon
  <2> QED BY <1>1, <1>2, <2>2, Zenon DEF ChInv, ChCancelKept
<1> QED BY <1>1, <1>2, Zenon DEF ChCancelKept

\* Every step of the session keeps the invariant.
LEMMA ChStep == ChInv /\ [ChNext]_chVars => ChInv'
<1> SUFFICES ASSUME ChInv, [ChNext]_chVars PROVE ChInv'
  BY Zenon
<1>0. ChRunsOK /\ ChInputsOK /\ ChCancelKept
  BY Zenon DEF ChInv
<1>1. CASE UNCHANGED <<chRuns, chCancel>> /\ ChInputsOK'
  BY <1>0, <1>1, Zenon DEF ChInv, ChRunsOK, ChCancelKept, ChGen, ChExecuting
<1>2. CASE ChDequeue
  <2>1. chQueue # <<>> /\ Head(chQueue) \in Nat /\ Tail(chQueue) \in Seq(Nat)
    BY <1>0, <1>2 DEF ChDequeue, ChMustDequeue, ChInputsOK
  <2> QED BY <1>0, <1>2, <2>1, StartKeeps, Zenon DEF ChDequeue, ChInputsOK, ChSelecting
<1>3. CASE ChEnter
  <2>1. CASE chRunning
    <3>1. /\ chQueue' = Append(chQueue, chTyped') /\ chTyped' = chTyped + 1
          /\ UNCHANGED <<chRuns, chCancel, chMessages, chResults, chAt>>
      BY <1>3, <2>1, Zenon DEF ChEnter
    <3>2. ChInputsOK'
      BY <1>0, <3>1 DEF ChInputsOK
    <3> QED BY <1>1, <3>1, <3>2, Zenon
  <2>2. CASE ~chRunning
    BY <1>0, <1>3, <2>2, StartKeeps DEF ChEnter, ChSelect, ChInputsOK
  <2> QED BY <2>1, <2>2, Zenon
<1>4. CASE ChEscape
  <2>1. ChRunsOK' /\ DOMAIN chRuns' = DOMAIN chRuns /\ ChGen' = ChGen
    BY <1>0, <1>4, Escaped, Zenon DEF ChRunsOK
  <2>2. ASSUME ChGen' > 0, ChExecuting(ChGen)', ~chRuns'[ChGen'].cancelled PROVE FALSE
    <3>1. PICK g \in DOMAIN chRuns : g = ChGen
      BY <1>0, <2>1, <2>2 DEF ChRunsOK, ChGen
    <3>2. ChExecuting(g)' /\ ~chRuns'[g].cancelled
      BY <2>1, <2>2, <3>1, Zenon DEF ChExecuting
    <3>3. ChExecuting(g) /\ ~chRuns[g].cancelled /\ g # chCancel
      BY <1>0, <1>4, <3>2, Escaped, Zenon
    <3> QED BY <1>0, <2>1, <2>2, <3>1, <3>3, Zenon DEF ChCancelKept
  <2>3. ChInputsOK'
    BY <1>0, <1>4, <2>1 DEF ChEscape, ChInputsOK
  <2> QED BY <2>1, <2>2, <2>3, Zenon DEF ChInv, ChCancelKept
<1>5. CASE ChClear \/ ChQuit
  <2>1. /\ UNCHANGED <<chRuns, chCancel, chQueue, chTyped, chResults>>
        /\ UNCHANGED chMessages \/ chMessages' = <<>>
        /\ UNCHANGED chAt \/ chAt' = [what |-> "quit", run |-> 0]
    BY <1>5, Zenon DEF ChClear, ChQuit
  <2>2. chMessages' \in Seq(Nat)
    <3>1. chMessages \in Seq(Nat) /\ <<>> \in Seq(Nat)
      BY <1>0 DEF ChInputsOK
    <3> QED BY <2>1, <3>1, Zenon
  <2>3. chAt'.what = "approve" => chAt' = chAt
    BY <2>1
  <2>4. ChInputsOK'
    BY <1>0, <2>1, <2>2, <2>3, Zenon DEF ChInputsOK
  <2> QED BY <1>1, <2>1, <2>4, Zenon
<1>6. CASE ChResult
  <2>1. UNCHANGED <<chRuns, chCancel, chQueue, chTyped>> /\ chResults' = Tail(chResults) /\ chResults # <<>>
    BY <1>6, Zenon DEF ChResult
  <2>2. Head(chResults) \in DOMAIN chRuns /\ chResults' \in Seq(DOMAIN chRuns)
    BY <1>0, <2>1 DEF ChInputsOK
  <2>3. PICK run \in ChRunType : run = chRuns[Head(chResults)]
    BY <1>0, <2>2 DEF ChRunsOK
  <2>4. Append(run.base, run.input) \in Seq(Nat)
    BY DEF ChRunType
  <2>5. /\ UNCHANGED chMessages \/ chMessages' = Append(run.base, run.input)
        /\ chAt' = chAt \/ chAt' \in {ChSelecting, [what |-> "choose", run |-> 0]}
    BY <1>6, <2>3, Zenon DEF ChResult
  <2>6. chMessages' \in Seq(Nat) /\ (chAt'.what = "approve" => chAt' = chAt)
    <3>1. chMessages' \in Seq(Nat)
      BY <1>0, <2>4, <2>5, Zenon DEF ChInputsOK
    <3>2. chAt'.what = "approve" => chAt' = chAt
      BY <2>5 DEF ChSelecting
    <3> QED BY <3>1, <3>2, Zenon
  <2>7. ChInputsOK'
    BY <1>0, <2>1, <2>2, <2>6, Zenon DEF ChInputsOK
  <2> QED BY <1>1, <2>1, <2>7, Zenon
<1>7. CASE ChChoose
  <2>1. CASE UNCHANGED <<chRuns, chCancel, chRunning, chTyped>>
    <3>1. ChInputsOK'
      BY <1>0, <1>7, <2>1, Zenon DEF ChChoose, ChInputsOK, ChSelecting
    <3> QED BY <1>1, <2>1, <3>1, Zenon
  <2>2. CASE chTyped' = chTyped + 1 /\ ChStart(chTyped', chMessages)
    BY <1>0, <1>7, <2>2, StartKeeps DEF ChChoose, ChInputsOK
  <2> QED BY <1>7, <2>1, <2>2, Zenon DEF ChChoose
<1>8. CASE ChAnswer
  <2>1. chAt.run \in DOMAIN chRuns
    BY <1>0, <1>8, Zenon DEF ChAnswer, ChInputsOK
  <2>2. ChRunsOK' /\ ChCancelKept' /\ DOMAIN chRuns' = DOMAIN chRuns
    <3>1. UNCHANGED chCancel /\ ChMoves(chAt.run)
      BY <1>0, <1>8, <2>1, AnswerMoves, Zenon DEF ChAnswer
    <3>2. PICK r \in DOMAIN chRuns : r = chAt.run
      BY <2>1, Zenon
    <3>3. ChMoves(r)
      BY <3>1, <3>2, Zenon
    <3> QED BY <3>1, <3>3, MoveKeeps, Zenon
  <2>3. ChInputsOK'
    BY <1>0, <1>8, <2>2, Zenon DEF ChAnswer, ChInputsOK, ChSelecting
  <2> QED BY <2>2, <2>3, Zenon DEF ChInv
<1>9. ASSUME NEW r \in DOMAIN chRuns, ChRunStep(r) PROVE ChInv'
  <2>1. chCancel' = chCancel \/ (~ChExecuting(r) /\ r = ChGen)
    BY <1>9, Zenon DEF ChRunStep, ChAsk, ChGiveUp, ChTurnEnds, ChSend, ChClearCancel, ChTakeRequest, ChOwnsCancel, ChExecuting
  <2>2. ChRunsOK' /\ ChCancelKept' /\ DOMAIN chRuns' = DOMAIN chRuns
    BY <1>0, <1>9, <2>1, StepsMove, MoveKeeps, Zenon
  <2>3. UNCHANGED <<chMessages, chQueue, chTyped>>
    BY <1>9, Zenon DEF ChRunStep, ChAsk, ChGiveUp, ChTurnEnds, ChSend, ChClearCancel, ChTakeRequest
  <2>4. chResults' \in Seq(DOMAIN chRuns)
    BY <1>0, <1>9 DEF ChRunStep, ChAsk, ChGiveUp, ChTurnEnds, ChSend, ChClearCancel, ChTakeRequest, ChInputsOK
  <2>5. chAt' = chAt \/ chAt' = [what |-> "approve", run |-> r]
    BY <1>9, Zenon DEF ChRunStep, ChAsk, ChGiveUp, ChTurnEnds, ChSend, ChClearCancel, ChTakeRequest
  <2>6. ChInputsOK'
    BY <1>0, <2>2, <2>3, <2>4, <2>5 DEF ChInputsOK
  <2> QED BY <2>2, <2>6, Zenon DEF ChInv
<1>10. CASE UNCHANGED chVars
  <2>1. UNCHANGED <<chRuns, chCancel>> /\ ChInputsOK'
    BY <1>0, <1>10, Zenon DEF chVars, ChInputsOK
  <2> QED BY <1>1, <2>1, Zenon
<1> HIDE DEF ChInv
<1> QED BY <1>2, <1>3, <1>4, <1>5, <1>6, <1>7, <1>8, <1>9, <1>10, Zenon DEF ChNext

\* While the newest run works and nobody cancelled it, cancelCurrentRun holds its
\* cancel function, whatever earlier runs do late (clearCancelRun): Escape never
\* hits a run that is over, for any number of inputs and runs.
THEOREM CancelReachesNewestRun == ChSpec => []ChCancelKept
<1>1. ChInit => ChInv
  BY DEF ChInit, ChInv, ChRunsOK, ChInputsOK, ChCancelKept, ChGen
<1>2. ChInv => ChCancelKept
  BY Zenon DEF ChInv
<1> QED BY <1>1, <1>2, ChStep, PTL DEF ChSpec

-----------------------------------------------------------------------------
(* The tool guard: only what the file policy permits is changed or shown.  *)

GdKinds == GdContents \cup {GdAbsent, GdLink}

\* What a path may be changed to, given what is there.
GdMayBecome(p, old, new) ==
    /\ p \notin gdPolicy.deny
    /\ new = GdAbsent => p \in gdPolicy.delete
    /\ new # GdAbsent /\ old = GdAbsent => p \in gdPolicy.create
    /\ new # GdAbsent /\ old # GdAbsent => p \in gdPolicy.edit \/ p \in gdRaced

\* Before the judgement the tree is the one before the call, with what others
\* wrote; after it every difference still to be copied is one the policy allows.
GdInv ==
    /\ gdTree \in [GdPaths -> GdKinds] /\ gdBase \in [GdPaths -> GdKinds]
    /\ gdCopy \in [GdPaths -> GdKinds] /\ gdBefore \in [GdPaths -> GdKinds]
    /\ gdNext \in Nat \ {0}
    /\ gdCall \in {"run", "judge"} => gdTree = gdBase
    /\ gdCall = "sync" => \A p \in GdChanged : GdMayBecome(p, gdBase[p], gdCopy[p])
    /\ GdOnlyPermitted

\* The tree after a call that may change one path, as the policy allows it.
LEMMA GdToolStep ==
  ASSUME GdInv, NEW class, NEW granted, GdBegin(class, granted),
         gdShown' \subseteq gdPolicy.read \ gdPolicy.deny,
         UNCHANGED <<gdCopy, gdBefore, gdNext, gdCall>>,
         gdTree' = gdTree \/ \E p \in GdPaths, c \in GdKinds :
             /\ gdTree' = [gdTree EXCEPT ![p] = c]
             /\ p \notin gdPolicy.deny
             /\ c = GdAbsent => p \in gdPolicy.delete
             /\ c # GdAbsent => p \in IF gdTree[p] # GdAbsent THEN gdPolicy.edit
                                      ELSE gdPolicy.create
  PROVE  GdInv'
<1> USE DEF GdInv, GdBegin, gdFixed, GdOnlyPermitted, GdChanged
<1>1. CASE gdTree' = gdTree
  BY <1>1, Zenon
<1>2. CASE gdTree' # gdTree
  BY <1>2, Zenon
<1> QED BY <1>1, <1>2, Zenon

\* Every tool call, every step of a command and every edit of another program
\* keeps the invariant.
LEMMA GdStep == GdInv /\ [GdNext]_gdVars => GdInv'
<1> SUFFICES ASSUME GdInv, [GdNext]_gdVars PROVE GdInv'
  BY Zenon
<1>1. ASSUME NEW granted \in BOOLEAN, NEW p \in GdPaths, NEW c \in GdContents,
             GdWrite(p, c, granted)
      PROVE  GdInv'
  <2>1. c \in GdKinds /\ c # GdAbsent
    BY GdContentsAssumption, Zenon DEF GdKinds
  <2>2. gdShown' \subseteq gdPolicy.read \ gdPolicy.deny
    BY <1>1, Zenon DEF GdWrite, GdInv, GdOnlyPermitted
  <2>3. GdBegin("edit", granted) /\ UNCHANGED <<gdCopy, gdBefore, gdNext, gdCall>>
    BY <1>1, Zenon DEF GdWrite, gdRun
  <2>4. gdTree' = gdTree \/ (GdCheckWrite(p) /\ gdTree' = [gdTree EXCEPT ![p] = c])
    BY <1>1, Zenon DEF GdWrite
  <2> QED BY <2>1, <2>2, <2>3, <2>4, GdToolStep, Zenon DEF GdCheckWrite
<1>2. ASSUME NEW granted \in BOOLEAN, NEW p \in GdPaths, GdDelete(p, granted)
      PROVE  GdInv'
  <2>1. GdAbsent \in GdKinds
    BY Zenon DEF GdKinds
  <2>2. gdShown' \subseteq gdPolicy.read \ gdPolicy.deny
    BY <1>2, Zenon DEF GdDelete, GdInv, GdOnlyPermitted
  <2>3. GdBegin("delete", granted) /\ UNCHANGED <<gdCopy, gdBefore, gdNext, gdCall>>
    BY <1>2, Zenon DEF GdDelete, gdRun
  <2>4. gdTree' = gdTree \/ (GdCheckDelete(p) /\ gdTree' = [gdTree EXCEPT ![p] = GdAbsent])
    BY <1>2, Zenon DEF GdDelete
  <2> QED BY <2>1, <2>2, <2>3, <2>4, GdToolStep, Zenon DEF GdCheckDelete
<1>3. ASSUME NEW granted \in BOOLEAN, NEW p \in GdPaths, GdRead(p, granted)
      PROVE  GdInv'
  <2>1. gdShown' \subseteq gdPolicy.read \ gdPolicy.deny
    BY <1>3, Zenon DEF GdRead, GdCheckRead
  <2> QED BY <1>3, <2>1, GdToolStep, Zenon DEF GdRead, gdRun
<1>4. ASSUME NEW granted \in BOOLEAN, NEW found \in SUBSET GdPaths, GdSearch(found, granted)
      PROVE  GdInv'
  <2>1. gdShown' \subseteq gdPolicy.read \ gdPolicy.deny
    BY <1>4, Zenon DEF GdSearch, GdCheckRead
  <2> QED BY <1>4, <2>1, GdToolStep, Zenon DEF GdSearch, gdRun
<1>5. ASSUME NEW granted \in BOOLEAN, GdCommand(granted) PROVE GdInv'
  <2>1. GdMaterialize \in [GdPaths -> GdKinds]
    BY Zenon DEF GdMaterialize, GdInv, GdKinds
  <2> HIDE DEF GdMaterialize
  <2> QED BY <1>5, <2>1 DEF GdCommand, GdBegin, gdFixed, gdRun, GdInv, GdOnlyPermitted, GdChanged
<1>6. ASSUME NEW t \in GdTrees(GdContents \cup {GdLink}), GdExec(t) PROVE GdInv'
  <2>1. t \in [GdPaths -> GdKinds]
    BY Zenon DEF GdTrees, GdKinds
  <2> QED BY <1>6, <2>1, Zenon DEF GdExec, gdFixed, GdInv, GdOnlyPermitted
<1>7. CASE GdExecFails
  BY <1>7, Zenon DEF GdExecFails, gdFixed, gdRun, GdInv, GdOnlyPermitted
<1>8. CASE GdJudge
  <2>1. ASSUME NEW p \in GdChanged, ~GdViolates(p) PROVE GdMayBecome(p, gdBase[p], gdCopy[p])
    BY <1>8, <2>1, Zenon DEF GdJudge, GdViolates, GdCheckDelete, GdCheckWrite, GdMayBecome, GdInv, GdChanged
  <2> QED BY <1>8, <2>1, Zenon DEF GdJudge, gdFixed, gdRun, GdInv, GdOnlyPermitted, GdChanged, GdMayBecome
<1>9. CASE GdSync
  <2> DEFINE p == GdOrder[gdNext]
  <2>1. p \in GdPaths /\ gdNext + 1 \in Nat \ {0} /\ gdNext' = gdNext + 1
    BY <1>9 DEF GdSync, GdPaths, GdInv
  <2>2. CASE gdTree' = gdTree
    BY <1>9, <2>1, <2>2, Zenon DEF GdSync, gdFixed, GdInv, GdOnlyPermitted, GdChanged, GdMayBecome
  <2>3. CASE gdTree' # gdTree
    <3>1. p \in GdChanged /\ gdTree' = [gdTree EXCEPT ![p] = gdCopy[p]] /\ gdCall' = gdCall
      BY <1>9, <2>3, Zenon DEF GdSync
    <3>2. GdMayBecome(p, gdBase[p], gdCopy[p])
      BY <1>9, <3>1, Zenon DEF GdSync, GdInv
    <3> HIDE DEF p
    <3> QED BY <1>9, <2>1, <3>1, <3>2, Zenon DEF GdSync, gdFixed, GdInv, GdOnlyPermitted, GdChanged, GdMayBecome
  <2> QED BY <2>2, <2>3, Zenon
<1>10. CASE GdSyncDone
  BY <1>10, Zenon DEF GdSyncDone, gdFixed, gdRun, GdInv, GdOnlyPermitted
<1>11. ASSUME NEW p \in GdPaths, NEW c \in GdContents, GdEdit(p, c) PROVE GdInv'
  <2>1. c \in GdKinds /\ c # GdAbsent
    BY GdContentsAssumption, Zenon DEF GdKinds
  <2> QED BY <1>11, <2>1, Zenon DEF GdEdit, gdFixed, gdRun, GdInv, GdOnlyPermitted, GdChanged, GdMayBecome
<1>12. CASE UNCHANGED gdVars
  BY <1>12, Zenon DEF gdVars, GdInv, GdOnlyPermitted, GdChanged, GdMayBecome
<1> QED BY <1>1, <1>2, <1>3, <1>4, <1>5, <1>6, <1>7, <1>8, <1>9, <1>10, <1>11, <1>12, Zenon DEF GdNext

\* For every policy, set of paths and contents: a tool or a command changes
\* only what the file policy permits, and shows only what it lets be read,
\* whatever other programs write while a command runs in its copy.
THEOREM OnlyPermitted == GdSpec => []GdOnlyPermitted
<1>1. GdInit => GdInv
  BY DEF GdInit, GdInv, GdTrees, GdKinds, GdOnlyPermitted
<1>2. GdInv => GdOnlyPermitted
  BY Zenon DEF GdInv
<1> QED BY <1>1, <1>2, GdStep, PTL DEF GdSpec

-----------------------------------------------------------------------------
(* The sidecar runtime: every call of a transcript has its result.         *)

\* The blocks a history can hold: calls as the sidecar reads them, and results.
ScCallBlocks == UNION {{ScReceived(a)[i] : i \in DOMAIN a.calls} : a \in ScAnswers}
ScResultBlock(b) == [type |-> "tool_result", id |-> b.id, name |-> ""]
ScBlocks == ScCallBlocks \cup {ScResultBlock(b) : b \in ScCallBlocks}

ScMessageType == [role : {"user", "assistant"}, blocks : Seq(ScBlocks)]

ScTypes ==
    /\ scAt \in [ScRequests -> {"new", "llm", "tools", "done"}]
    /\ scTurn \in [ScRequests -> Nat] /\ scAnswered \in [ScRequests -> Nat]
    /\ scMessages \in [ScRequests -> Seq(ScMessageType)]
    /\ scResults \in [ScRequests -> Seq(ScBlocks)]
    /\ scReply \in [ScRequests -> [status : {"none", "failed", "completed"}, turns : Nat]]

\* The results answer the first calls, in their order.
ScResultsMatch(results, calls) ==
    /\ Len(results) <= Len(calls)
    /\ \A j \in 1 .. Len(results) : results[j].id = calls[j].id

ScPairedAt(m, i) ==
    m[i].role = "assistant" =>
        /\ i < Len(m)
        /\ m[i + 1].role = "user"
        /\ Len(m[i + 1].blocks) = Len(m[i].blocks)
        /\ \A j \in DOMAIN m[i].blocks : m[i + 1].blocks[j].id = m[i].blocks[j].id

\* One request: between turns its history is paired and the turns are the
\* answers; while tools run the last message is the batch, and the results
\* gathered answer its first calls.
ScHandled(at, turn, answered, m, results, reply) ==
    /\ at \in {"new", "llm"} => /\ answered = turn /\ turn <= ScMaxTurns /\ reply = ScNone
                                /\ \A i \in 1 .. Len(m) : ScPairedAt(m, i)
    /\ at = "new" => m = <<>> /\ turn = 0
    /\ at = "tools" => /\ answered = turn + 1 /\ answered <= ScMaxTurns /\ reply = ScNone
                       /\ Len(m) > 0 /\ m[Len(m)].blocks \in Seq(ScCallBlocks)
                       /\ \A i \in 1 .. Len(m) - 1 : ScPairedAt(m, i)
                       /\ ScResultsMatch(results, m[Len(m)].blocks)
    /\ reply # ScNone => reply.turns = answered /\ reply.turns <= ScMaxTurns

ScInv ==
    /\ ScTypes
    /\ \A r \in ScRequests : ScHandled(scAt[r], scTurn[r], scAnswered[r], scMessages[r],
                                       scResults[r], scReply[r])

\* A step of one request concerns that request only.
LEMMA ScOwnStep ==
  ASSUME ScInv, NEW r \in ScRequests, ScTypes',
         \A q \in ScRequests \ {r} :
             /\ scAt'[q] = scAt[q] /\ scTurn'[q] = scTurn[q] /\ scAnswered'[q] = scAnswered[q]
             /\ scMessages'[q] = scMessages[q] /\ scResults'[q] = scResults[q]
             /\ scReply'[q] = scReply[q],
         ScHandled(scAt'[r], scTurn'[r], scAnswered'[r], scMessages'[r], scResults'[r], scReply'[r])
  PROVE  ScInv'
<1>1. ASSUME NEW q \in ScRequests
      PROVE  ScHandled(scAt'[q], scTurn'[q], scAnswered'[q], scMessages'[q], scResults'[q], scReply'[q])
  BY Zenon DEF ScInv
<1> QED BY <1>1, Zenon DEF ScInv

\* What the sidecar reads of an answer is a sequence of calls.
LEMMA ScReceivedType ==
  ASSUME NEW a \in ScAnswers
  PROVE  ScReceived(a) \in Seq(ScCallBlocks)
<1>1. a.calls \in Seq(STRING)
  BY ScAssumption, Zenon
<1>2. PICK n \in Nat : DOMAIN a.calls = 1 .. n
  BY <1>1
<1>3. \A i \in DOMAIN a.calls : ScReceived(a)[i] \in ScCallBlocks
  BY DEF ScCallBlocks
<1>4. ScReceived(a) = [i \in 1 .. n |-> ScReceived(a)[i]]
  BY <1>2, Zenon DEF ScReceived
<1> HIDE DEF ScReceived
<1>5. [i \in 1 .. n |-> ScReceived(a)[i]] \in Seq(ScCallBlocks)
  BY <1>2, <1>3
<1> QED BY <1>4, <1>5, Zenon

\* A batch of calls is a list of blocks.
LEMMA ScSeqs == Seq(ScCallBlocks) \subseteq Seq(ScBlocks)
BY DEF ScBlocks

\* Pairs inside a history stay pairs when a message is appended.
LEMMA ScPairsStay ==
  ASSUME NEW m \in Seq(ScMessageType), NEW x \in ScMessageType, NEW i \in 1 .. Len(m) - 1,
         ScPairedAt(m, i)
  PROVE  ScPairedAt(Append(m, x), i)
<1>1. Append(m, x)[i] = m[i] /\ Append(m, x)[i + 1] = m[i + 1] /\ Len(Append(m, x)) = Len(m) + 1
  OBVIOUS
<1> QED BY <1>1 DEF ScPairedAt

\* Every step of a request keeps its history and its turn count.
LEMMA ScStep == ScInv /\ [ScNext]_scVars => ScInv'
<1> SUFFICES ASSUME ScInv, [ScNext]_scVars PROVE ScInv'
  BY Zenon
<1>t. ScTypes
  BY Zenon DEF ScInv
<1>m. ScMaxTurns \in Nat
  BY ScAssumption, Zenon
<1>1. CASE ScShutdown
  BY <1>1, Zenon DEF ScShutdown, ScInv, ScTypes
<1>2. ASSUME NEW r \in ScRequests, ScExecute(r) PROVE ScInv'
  <2> DEFINE first == [role |-> "user", blocks |-> <<>>]
  <2>0. ScHandled("new", scTurn[r], scAnswered[r], scMessages[r], scResults[r], scReply[r])
    BY <1>2, Zenon DEF ScInv, ScExecute
  <2>1. CASE \E s \in {"failed", "completed"} : ScReturn(r, s, 0) /\ UNCHANGED scMessages
    <3>1. PICK s \in {"failed", "completed"} : ScReturn(r, s, 0) /\ UNCHANGED scMessages
      BY <2>1, Zenon
    <3>2. ScTypes'
      BY <1>2, <1>t, <3>1, Zenon DEF ScExecute, ScReturn, ScTypes
    <3>3. ScHandled(scAt'[r], scTurn'[r], scAnswered'[r], scMessages'[r], scResults'[r], scReply'[r])
      BY <1>2, <1>t, <1>m, <2>0, <3>1, Zenon DEF ScExecute, ScReturn, ScTypes, ScHandled
    <3> QED BY <1>2, <1>t, <3>1, <3>2, <3>3, ScOwnStep, Zenon DEF ScExecute, ScReturn, ScTypes
  <2>2. CASE /\ scAt' = [scAt EXCEPT ![r] = "llm"]
             /\ scMessages' = [scMessages EXCEPT ![r] = <<first>>]
             /\ UNCHANGED scReply
    <3>1. first \in ScMessageType
      <4>1. <<>> \in Seq(ScBlocks)
        OBVIOUS
      <4> QED BY <4>1, Zenon DEF ScMessageType
    <3>2. first.role = "user"
      BY Zenon
    <3> HIDE DEF first
    <3>3. <<first>> \in Seq(ScMessageType) /\ Len(<<first>>) = 1 /\ <<first>>[1] = first
      BY <3>1
    <3>4. ScTypes'
      BY <1>2, <1>t, <2>2, <3>3, Zenon DEF ScExecute, ScTypes
    <3>5. \A i \in 1 .. Len(<<first>>) : ScPairedAt(<<first>>, i)
      BY <3>2, <3>3 DEF ScPairedAt
    <3>6. ScHandled(scAt'[r], scTurn'[r], scAnswered'[r], scMessages'[r], scResults'[r], scReply'[r])
      BY <1>2, <1>t, <1>m, <2>0, <2>2, <3>5, Zenon DEF ScExecute, ScTypes, ScHandled
    <3> QED BY <1>2, <1>t, <2>2, <3>4, <3>6, ScOwnStep, Zenon DEF ScExecute, ScTypes
  <2> QED BY <1>2, <2>1, <2>2, Zenon DEF ScExecute
<1>3. ASSUME NEW r \in ScRequests, ScCompleteFails(r) PROVE ScInv'
  <2>0. ScHandled("llm", scTurn[r], scAnswered[r], scMessages[r], scResults[r], scReply[r])
    BY <1>3, Zenon DEF ScInv, ScCompleteFails
  <2>1. ScTypes'
    BY <1>3, <1>t, Zenon DEF ScCompleteFails, ScReturn, ScTypes
  <2>2. ScHandled(scAt'[r], scTurn'[r], scAnswered'[r], scMessages'[r], scResults'[r], scReply'[r])
    BY <1>3, <1>t, <1>m, <2>0, Zenon DEF ScCompleteFails, ScReturn, ScTypes, ScHandled
  <2> QED BY <1>3, <1>t, <2>1, <2>2, ScOwnStep, Zenon DEF ScCompleteFails, ScReturn, ScTypes
<1>4. ASSUME NEW r \in ScRequests, NEW a \in ScAnswers, ScComplete(r, a) PROVE ScInv'
  <2> DEFINE calls == ScReceived(a)
             x == [role |-> "assistant", blocks |-> calls]
             m == scMessages[r]
  <2>0. ScHandled("llm", scTurn[r], scAnswered[r], m, scResults[r], scReply[r])
    BY <1>4, Zenon DEF ScInv, ScComplete
  <2>1. calls \in Seq(ScCallBlocks)
    BY ScReceivedType, Zenon
  <2>2. scMessages' = [scMessages EXCEPT ![r] = Append(m, x)]
    BY <1>4, Zenon DEF ScComplete
  <2> HIDE DEF calls
  <2>3. x \in ScMessageType /\ x.blocks = calls
    BY <2>1, ScSeqs, Zenon DEF ScMessageType
  <2> HIDE DEF x
  <2>4. m \in Seq(ScMessageType) /\ scTurn[r] \in Nat /\ scAnswered[r] \in Nat
    BY <1>t, Zenon DEF ScTypes
  <2>5. Append(m, x) \in Seq(ScMessageType) /\ Len(Append(m, x)) = Len(m) + 1
        /\ Append(m, x)[Len(m) + 1] = x
    BY <2>3, <2>4
  <2>6. \A i \in 1 .. Len(m) : ScPairedAt(Append(m, x), i)
    <3> TAKE i \in 1 .. Len(m)
    <3>1. ScPairedAt(m, i)
      BY <2>0, Zenon DEF ScHandled
    <3>2. CASE i < Len(m)
      <4>1. i \in 1 .. Len(m) - 1
        BY <3>2, <2>4
      <4> QED BY <4>1, <3>1, <2>3, <2>4, ScPairsStay, Zenon
    <3>3. CASE ~(i < Len(m))
      <4>1. m[i].role # "assistant" /\ Append(m, x)[i] = m[i]
        BY <3>1, <3>3, <2>3, <2>4 DEF ScPairedAt
      <4> QED BY <4>1, Zenon DEF ScPairedAt
    <3> QED BY <3>2, <3>3, Zenon
  <2>7. <<>> \in Seq(ScBlocks) /\ Len(<<>>) = 0 /\ Len(calls) \in Nat
    BY <2>1
  <2>8. scResults' = [scResults EXCEPT ![r] = <<>>]
    BY <1>4, Zenon DEF ScComplete
  <2> HIDE DEF m
  <2>9. CASE a.calls = <<>> \/ a.stop = "end_turn"
    <3>1. ScReturn(r, "completed", scTurn[r] + 1)
      BY <1>4, <2>9, Zenon DEF ScComplete
    <3>2. ScTypes'
      BY <1>4, <1>t, <3>1, <2>2, <2>5, <2>7, <2>8, <2>4 DEF ScComplete, ScReturn, ScTypes
    <3>3. ScHandled(scAt'[r], scTurn'[r], scAnswered'[r], scMessages'[r], scResults'[r], scReply'[r])
      BY <1>4, <1>t, <1>m, <2>0, <2>4, <3>1 DEF ScComplete, ScReturn, ScTypes, ScHandled, ScMayTurn
    <3> QED BY <1>4, <1>t, <3>1, <3>2, <3>3, <2>2, <2>8, ScOwnStep, Zenon DEF ScComplete, ScReturn, ScTypes
  <2>10. CASE ~(a.calls = <<>> \/ a.stop = "end_turn")
    <3>1. scAt' = [scAt EXCEPT ![r] = "tools"] /\ UNCHANGED scReply
      BY <1>4, <2>10, Zenon DEF ScComplete
    <3>2. ScTypes'
      BY <1>4, <1>t, <3>1, <2>2, <2>5, <2>7, <2>8, <2>4 DEF ScComplete, ScTypes
    <3>3. ScResultsMatch(<<>>, calls)
      BY <2>7 DEF ScResultsMatch
    <3>4. /\ scAt'[r] = "tools" /\ scTurn'[r] = scTurn[r] /\ scAnswered'[r] = scAnswered[r] + 1
          /\ scMessages'[r] = Append(m, x) /\ scResults'[r] = <<>> /\ scReply'[r] = scReply[r]
          /\ scTurn[r] < ScMaxTurns
      BY <1>4, <1>t, <3>1, <2>2, <2>8, Zenon DEF ScComplete, ScTypes, ScMayTurn, m
    <3>5. ScHandled("tools", scTurn[r], scAnswered[r] + 1, Append(m, x), <<>>, scReply[r])
      <4>1. Len(m) \in Nat
        BY <2>4 DEF m
      <4>2. \A i \in 1 .. Len(Append(m, x)) - 1 : ScPairedAt(Append(m, x), i)
        BY <4>1, <2>5, <2>6
      <4>3. Append(m, x)[Len(Append(m, x))].blocks = calls
        BY <2>3, <2>5, Zenon
      <4>4. Len(Append(m, x)) > 0
        BY <4>1, <2>5
      <4> QED BY <1>m, <2>0, <2>1, <2>4, <3>3, <3>4, <4>2, <4>3, <4>4 DEF ScHandled
    <3>6. ScHandled(scAt'[r], scTurn'[r], scAnswered'[r], scMessages'[r], scResults'[r], scReply'[r])
      BY <3>4, <3>5, Zenon
    <3> QED BY <1>4, <1>t, <3>1, <3>2, <3>6, <2>2, <2>8, ScOwnStep, Zenon DEF ScComplete, ScTypes
  <2> QED BY <2>9, <2>10, Zenon
<1>5. ASSUME NEW r \in ScRequests, ScTool(r) PROVE ScInv'
  <2> DEFINE calls == scMessages[r][Len(scMessages[r])].blocks
             res == scResults[r]
             call == calls[Len(res) + 1]
             y == ScResultBlock(call)
  <2>0. ScHandled("tools", scTurn[r], scAnswered[r], scMessages[r], res, scReply[r])
    BY <1>5, Zenon DEF ScInv, ScTool
  <2>1. calls \in Seq(ScCallBlocks) /\ ScResultsMatch(res, calls)
    BY <2>0, Zenon DEF ScHandled
  <2>2. Len(res) < Len(calls) /\ scResults' = [scResults EXCEPT ![r] = Append(res, y)]
    BY <1>5, Zenon DEF ScTool, ScCalls, ScResultBlock
  <2>3. res \in Seq(ScBlocks)
    BY <1>t, Zenon DEF ScTypes
  <2>c. calls = scMessages[r][Len(scMessages[r])].blocks
    BY Zenon
  <2> HIDE DEF calls
  <2>4. call \in ScCallBlocks
    BY <2>1, <2>2, <2>3
  <2> HIDE DEF call
  <2>5. y \in ScBlocks /\ y.id = call.id
    BY <2>4, Zenon DEF ScBlocks, ScResultBlock
  <2> HIDE DEF y
  <2>6. Append(res, y) \in Seq(ScBlocks) /\ Len(Append(res, y)) = Len(res) + 1
        /\ Append(res, y)[Len(res) + 1] = y /\ \A j \in 1 .. Len(res) : Append(res, y)[j] = res[j]
    BY <2>3, <2>5
  <2>7. ScResultsMatch(Append(res, y), calls)
    <3>1. Len(res) \in Nat /\ Len(calls) \in Nat
      BY <2>1, <2>3
    <3> QED BY <3>1, <2>1, <2>2, <2>5, <2>6 DEF ScResultsMatch, call
  <2>8. ScTypes'
    BY <1>5, <1>t, <2>2, <2>6, Zenon DEF ScTool, ScTypes
  <2>9. ScHandled("tools", scTurn[r], scAnswered[r], scMessages[r], Append(res, y), scReply[r])
    BY <2>0, <2>7, <2>c, Zenon DEF ScHandled
  <2>10. ScHandled(scAt'[r], scTurn'[r], scAnswered'[r], scMessages'[r], scResults'[r], scReply'[r])
    BY <1>5, <1>t, <2>2, <2>9, Zenon DEF ScTool, ScTypes
  <2> QED BY <1>5, <1>t, <2>2, <2>8, <2>10, ScOwnStep, Zenon DEF ScTool, ScTypes
<1>6. ASSUME NEW r \in ScRequests, ScAppend(r) PROVE ScInv'
  <2> DEFINE m == scMessages[r]
             calls == m[Len(m)].blocks
             res == scResults[r]
             x == [role |-> "user", blocks |-> res]
  <2>0. ScHandled("tools", scTurn[r], scAnswered[r], m, res, scReply[r])
    BY <1>6, Zenon DEF ScInv, ScAppend
  <2>1. calls \in Seq(ScCallBlocks) /\ ScResultsMatch(res, calls) /\ Len(m) > 0
    BY <2>0, Zenon DEF ScHandled
  <2>2. Len(res) = Len(calls) /\ scMessages' = [scMessages EXCEPT ![r] = Append(m, x)]
    BY <1>6, Zenon DEF ScAppend, ScCalls
  <2>3. res \in Seq(ScBlocks) /\ m \in Seq(ScMessageType) /\ scTurn[r] \in Nat
    BY <1>t, Zenon DEF ScTypes
  <2>4. x \in ScMessageType /\ x.role = "user" /\ x.blocks = res
    BY <2>3, Zenon DEF ScMessageType
  <2> HIDE DEF x, m
  <2>5. Append(m, x) \in Seq(ScMessageType) /\ Len(Append(m, x)) = Len(m) + 1
        /\ Append(m, x)[Len(m) + 1] = x /\ Append(m, x)[Len(m)] = m[Len(m)] /\ Len(m) \in Nat
    BY <2>1, <2>3, <2>4
  <2>6. \A i \in 1 .. Len(Append(m, x)) : ScPairedAt(Append(m, x), i)
    <3> TAKE i \in 1 .. Len(Append(m, x))
    <3>1. CASE i \in 1 .. Len(m) - 1
      BY <3>1, <2>0, <2>3, <2>4, ScPairsStay, Zenon DEF ScHandled
    <3>2. CASE i = Len(m)
      <4>1. DOMAIN calls = 1 .. Len(res) /\ calls = Append(m, x)[i].blocks
        BY <2>1, <2>2, <2>5, <3>2
      <4>2. Append(m, x)[i + 1] = x
        BY <2>5, <3>2, Zenon
      <4> HIDE DEF calls, res
      <4> QED BY <4>1, <4>2, <2>1, <2>2, <2>4, <2>5, <3>2 DEF ScPairedAt, ScResultsMatch
    <3>3. CASE i = Len(m) + 1
      BY <3>3, <2>4, <2>5, Zenon DEF ScPairedAt
    <3> QED BY <2>5, <3>1, <3>2, <3>3
  <2>7. ScTypes'
    BY <1>6, <1>t, <2>2, <2>5 DEF ScAppend, ScTypes
  <2>8. ScHandled("llm", scTurn[r] + 1, scAnswered[r], Append(m, x), res, scReply[r])
    BY <2>0, <2>6, <2>3, <1>m, Zenon DEF ScHandled
  <2>9. ScHandled(scAt'[r], scTurn'[r], scAnswered'[r], scMessages'[r], scResults'[r], scReply'[r])
    BY <1>6, <1>t, <2>2, <2>8, Zenon DEF ScAppend, ScTypes
  <2> QED BY <1>6, <1>t, <2>2, <2>7, <2>9, ScOwnStep, Zenon DEF ScAppend, ScTypes
<1>7. ASSUME NEW r \in ScRequests, ScExhausted(r) PROVE ScInv'
  <2>0. ScHandled("llm", scTurn[r], scAnswered[r], scMessages[r], scResults[r], scReply[r])
    BY <1>7, Zenon DEF ScInv, ScExhausted
  <2>1. ScTypes'
    BY <1>7, <1>t, <1>m, Zenon DEF ScExhausted, ScReturn, ScTypes
  <2>2. ScHandled(scAt'[r], scTurn'[r], scAnswered'[r], scMessages'[r], scResults'[r], scReply'[r])
    BY <1>7, <1>t, <1>m, <2>0 DEF ScExhausted, ScReturn, ScTypes, ScHandled, ScMayTurn
  <2> QED BY <1>7, <1>t, <2>1, <2>2, ScOwnStep, Zenon DEF ScExhausted, ScReturn, ScTypes
<1>8. CASE UNCHANGED scVars
  BY <1>8, Zenon DEF scVars, ScInv, ScTypes
<1> QED BY <1>1, <1>2, <1>3, <1>4, <1>5, <1>6, <1>7, <1>8, Zenon DEF ScNext

\* For every number of requests, turn limit and set of answers: each batch of
\* calls in a history is answered in full and in order before the model is
\* asked again, and the turns a reply reports are the answers that came.
THEOREM TranscriptSound == ScSpec => []ScTranscriptSound
<1>1. ScInit => ScInv
  <2> SUFFICES ASSUME ScInit PROVE ScInv
    BY Zenon
  <2>1. <<>> \in Seq(ScBlocks) /\ <<>> \in Seq(ScMessageType) /\ Len(<<>>) = 0
    OBVIOUS
  <2>2. ScTypes
    BY <2>1, Zenon DEF ScInit, ScTypes, ScNone
  <2>3. ASSUME NEW r \in ScRequests
        PROVE  ScHandled("new", 0, 0, <<>>, <<>>, ScNone)
    BY <2>1, ScAssumption DEF ScHandled
  <2> QED BY <2>2, <2>3, Zenon DEF ScInit, ScInv
<1>2. ScInv => ScTranscriptSound
  <2> SUFFICES ASSUME ScInv, NEW r \in ScRequests
               PROVE  /\ scAt[r] = "llm" => \A i \in DOMAIN scMessages[r] : ScPairedAt(scMessages[r], i)
                      /\ scReply[r] # ScNone => /\ scReply[r].turns = scAnswered[r]
                                                /\ scReply[r].turns <= ScMaxTurns
    BY Zenon DEF ScTranscriptSound, ScPairedAt
  <2>1. ScHandled(scAt[r], scTurn[r], scAnswered[r], scMessages[r], scResults[r], scReply[r])
    BY Zenon DEF ScInv
  <2>2. DOMAIN scMessages[r] = 1 .. Len(scMessages[r])
    BY DEF ScInv, ScTypes
  <2> QED BY <2>1, <2>2, Zenon DEF ScHandled
<1> QED BY <1>1, <1>2, ScStep, PTL DEF ScSpec

-----------------------------------------------------------------------------
(* Bidirectional RPC. RoutingInv says who owns an id: it belongs to the one*)
(* call that drew it, and every table, request, response in the reader's   *)
(* hand and full channel refers to a call only under that call's own id.   *)

Registered   == {"waiter", "send", "wait", "clearCancel", "clearWaiter"}
Cancellable  == {"send", "wait", "clearCancel"}

IdsUnique ==
    /\ \A c \in Calls : id[c] <= seq
    /\ \A c \in Calls : pc[c] \in {"start", "slot"} => id[c] = 0
    /\ \A c \in Calls : pc[c] \notin {"start", "slot", "returned"} => id[c] # 0
    /\ \A c, d \in Calls : id[c] = id[d] /\ id[c] # 0 => c = d

TablesOwned ==
    /\ \A i \in Ids : waiters[i] # NoCall =>
            id[waiters[i]] = i /\ pc[waiters[i]] \in Registered
    /\ \A i \in Ids : cancels[i] # NoCall =>
            id[cancels[i]] = i /\ pc[cancels[i]] \in Cancellable

ResponsesOwned ==
    /\ \A i \in 0 .. MaxSeq, c \in Calls :
            <<i, c>> \in requests => i # 0 /\ id[c] = i
    /\ readerPC = "deliver" => inHand.to \in Calls /\ inHand.of = inHand.to
    /\ \A c \in Calls : ch[c] \in {NoCall, "shutdown", c}
    /\ OwnResponse

RoutingInv == TypeOK /\ IdsUnique /\ TablesOwned /\ ResponsesOwned

------------------------------------------------------------------------------
\* Every variable starts with a value of its type.
LEMMA InitTypeOK == Init => TypeOK
<1> SUFFICES ASSUME Init PROVE TypeOK
  BY Zenon
<1> USE WindowAssumption, BoundsAssumption DEF Init, Ids
<1>1. 0 \in 0 .. MaxSeq /\ 0 \in 0 .. Window /\ 0 \in 0 .. MaxAnswers
  OBVIOUS
<1>2. inHand \in [to : Calls \cup {NoCall}, of : Calls \cup {NoCall}]
  BY Zenon DEF NoMsg
<1> QED
  BY <1>1, <1>2, Zenon DEF TypeOK

\* Every step of a Call keeps the types.
LEMMA CallTypeOK ==
  ASSUME TypeOK, NEW c \in Calls, Call(c)
  PROVE  TypeOK'
<1> USE WindowAssumption, BoundsAssumption, CallsAssumption
        DEF TypeOK, Goto, End, tableVars, closeVars, readerVars, envVars, Ids
<1>1. CASE AcquireSlot(c) BY <1>1 DEF AcquireSlot
<1>2. CASE AcquireFail(c) BY <1>2, Zenon DEF AcquireFail
<1>3. CASE NextID(c) BY <1>3 DEF NextID
<1>4. CASE RegisterWaiter(c) BY <1>4, Zenon DEF RegisterWaiter
<1>5. CASE RegisterInflightCancel(c) BY <1>5, Zenon DEF RegisterInflightCancel
<1>6. CASE SendOk(c) BY <1>6 DEF SendOk
<1>7. CASE SendFail(c) BY <1>7 DEF SendFail
<1>8. CASE AwaitResponse(c) BY <1>8, Zenon DEF AwaitResponse
<1>9. CASE AwaitFail(c) BY <1>9, Zenon DEF AwaitFail
<1>10. CASE ClearInflightCancel(c) BY <1>10, Zenon DEF ClearInflightCancel
<1>11. CASE ClearWaiter(c) BY <1>11, Zenon DEF ClearWaiter
<1>12. CASE ReleaseSlot(c) BY <1>12 DEF ReleaseSlot
<1> QED BY <1>1, <1>2, <1>3, <1>4, <1>5, <1>6, <1>7, <1>8, <1>9, <1>10, <1>11,
           <1>12, Zenon DEF Call

\* So does every other step: of the reader, of a handler, of a Close, of the
\* environment.
LEMMA OtherTypeOK ==
  ASSUME TypeOK, \/ ReadLoop \/ Handlers \/ SessionEnd
                 \/ \E c \in Calls : CtxEnd(c)
                 \/ \E k \in Closers \cup {Reader} : Close(k)
  PROVE  TypeOK'
<1> USE BoundsAssumption DEF TypeOK, callVars, tableVars, closeVars, readerVars,
        envVars, Ids
<1>1. CASE ReaderSelect BY <1>1, Zenon DEF ReaderSelect
<1>2. CASE ReadIgnored BY <1>2, Zenon DEF ReadIgnored
<1>3. CASE ReadError BY <1>3, Zenon DEF ReadError
<1>4. CASE Deliver
  <2>1. inHand' \in [to : Calls \cup {NoCall}, of : Calls \cup {NoCall}]
    BY <1>4, Zenon DEF Deliver, NoMsg
  <2>2. stale' \in Nat
    BY <1>4 DEF Deliver
  <2>3. inHand.of \in Calls \cup {NoCall, "shutdown"}
    BY Zenon
  <2>4. ch' \in [Calls -> Calls \cup {NoCall, "shutdown"}]
    BY <1>4, <2>3, Zenon DEF Deliver
  <2> QED BY <1>4, <2>1, <2>2, <2>4, Zenon DEF Deliver
<1>5. CASE ReaderExit BY <1>5, Zenon DEF ReaderExit
<1>6. ASSUME NEW i \in CancelIds, ReadCancel(i) PROVE TypeOK'
  BY <1>6, PeerAssumption DEF ReadCancel
<1>7. ASSUME NEW i \in Ids, NEW c \in Calls, ReadResponse(i, c) PROVE TypeOK'
  <2>1. inHand' \in [to : Calls \cup {NoCall}, of : Calls \cup {NoCall}]
    <3>1. waiters[i] \in Calls \cup {NoCall} /\ c \in Calls \cup {NoCall}
      BY Zenon
    <3> QED BY <1>7, <3>1 DEF ReadResponse
  <2>2. stale' \in Nat /\ readerPC' \in {"select", "deliver"}
    BY <1>7 DEF ReadResponse
  <2>3. answers' \in [Calls -> 0 .. MaxAnswers]
    BY <1>7 DEF ReadResponse
  <2> QED BY <1>7, <2>1, <2>2, <2>3, Zenon DEF ReadResponse
<1>8. ASSUME NEW q \in PeerReqs, ReadRequest(q) PROVE TypeOK'
  BY <1>8, Zenon DEF ReadRequest
<1>9. ASSUME NEW q \in PeerReqs, ReaderReplies(q) PROVE TypeOK'
  BY <1>9, Zenon DEF ReaderReplies, Answer
<1>10. ASSUME NEW q \in PeerReqs, HandlerReturns(q) PROVE TypeOK'
  BY <1>10, Zenon DEF HandlerReturns, Answer
<1>11. ASSUME NEW i \in Ids, HandleCancelRequest(i) PROVE TypeOK'
  BY <1>11, Zenon DEF HandleCancelRequest
<1>12. ASSUME NEW k \in Closers \cup {Reader}, CloseMark(k) PROVE TypeOK'
  <2>1. ch' \in [Calls -> Calls \cup {NoCall, "shutdown"}]
    <3>1. CASE closed BY <1>12, <3>1, Zenon DEF CloseMark
    <3>2. CASE ~closed
      <4> DEFINE failed(c) == IF ch[c] = NoCall /\ \E i \in Ids : waiters[i] = c
                              THEN "shutdown" ELSE ch[c]
      <4>1. ch' = [c \in Calls |-> failed(c)]
        BY <1>12, <3>2, Zenon DEF CloseMark
      <4>2. \A c \in Calls : failed(c) \in Calls \cup {NoCall, "shutdown"}
        BY Zenon
      <4> HIDE DEF failed
      <4> QED BY <4>1, <4>2, Zenon
    <3> QED BY <3>1, <3>2, Zenon
  <2>2. waiters' \in [Ids -> Calls \cup {NoCall}]
    BY <1>12 DEF CloseMark
  <2>3. closePC' \in [Closers \cup {Reader} ->
                        {"start", "marked", "done", "returned"}]
    BY <1>12, Zenon DEF CloseMark
  <2> QED BY <1>12, <2>1, <2>2, <2>3, Zenon DEF CloseMark
<1>13. ASSUME NEW k \in Closers \cup {Reader}, CloseDone(k) PROVE TypeOK'
  BY <1>13, Zenon DEF CloseDone
<1>14. ASSUME NEW k \in Closers \cup {Reader}, CloseWriter(k) PROVE TypeOK'
  BY <1>14, Zenon DEF CloseWriter
<1>15. ASSUME NEW c \in Calls, CtxEnd(c) PROVE TypeOK'
  BY <1>15, Zenon DEF CtxEnd
<1>16. CASE SessionEnd BY <1>16, Zenon DEF SessionEnd
<1> QED
  BY <1>1, <1>2, <1>3, <1>4, <1>5, <1>6, <1>7, <1>8, <1>9, <1>10, <1>11, <1>12,
     <1>13, <1>14, <1>15, <1>16, Zenon DEF ReadLoop, Handlers, Close

\* TypeOK is inductive.
LEMMA NextTypeOK == TypeOK /\ [Next]_vars => TypeOK'
<1>1. TypeOK /\ UNCHANGED vars => TypeOK'
  BY DEF TypeOK, vars, callVars, tableVars, closeVars, readerVars, envVars
<1> QED BY <1>1, CallTypeOK, OtherTypeOK, Zenon DEF Next

\* Every variable of the session keeps its type: the window never holds more
\* than Window tokens and no id exceeds the counter's range.
THEOREM TypeCorrect == Spec => []TypeOK
  BY InitTypeOK, NextTypeOK, PTL DEF Spec

------------------------------------------------------------------------------
\* Only the steps of a Call change the call variables.
LEMMA OthersKeepCalls ==
  ASSUME \/ ReadLoop \/ Handlers \/ SessionEnd \/ UNCHANGED vars
         \/ \E c \in Calls : CtxEnd(c)
         \/ \E k \in Closers \cup {Reader} : Close(k)
  PROVE  UNCHANGED callVars
  BY Zenon DEF ReadLoop, Handlers, Close, vars, ReaderSelect, ReadIgnored, ReadError,
         Deliver, ReaderExit, ReadCancel, ReadResponse, ReadRequest,
         ReaderReplies, HandlerReturns, HandleCancelRequest, CloseMark,
         CloseDone, CloseWriter, CtxEnd, SessionEnd

\* nextID is one atomic step, so no two calls ever hold the same id.
LEMMA NextIdsUnique ==
  ASSUME TypeOK, IdsUnique, [Next]_vars
  PROVE  IdsUnique'
<1>1. CASE UNCHANGED callVars
  BY <1>1, Zenon DEF IdsUnique, callVars
<1>2. ASSUME NEW c \in Calls, Call(c) PROVE IdsUnique'
  <2> USE BoundsAssumption DEF TypeOK, IdsUnique, Goto, End
  <2>1. CASE NextID(c)
    BY <2>1 DEF NextID
  <2>2. CASE ~NextID(c)
    <3>1. UNCHANGED <<id, seq>>
      BY <1>2, <2>2, Zenon DEF Call, AcquireSlot, AcquireFail, RegisterWaiter,
         RegisterInflightCancel, SendOk, SendFail, AwaitResponse, AwaitFail,
         ClearInflightCancel, ClearWaiter, ReleaseSlot
    <3>2. \A d \in Calls : d # c => pc'[d] = pc[d]
      BY <1>2, <2>2, Zenon DEF Call, AcquireSlot, AcquireFail, RegisterWaiter,
         RegisterInflightCancel, SendOk, SendFail, AwaitResponse, AwaitFail,
         ClearInflightCancel, ClearWaiter, ReleaseSlot
    <3>3. \/ pc[c] = "start" /\ pc'[c] \in {"slot", "returned"}
          \/ pc[c] \notin {"start", "slot", "returned"}
              /\ pc'[c] \notin {"start", "slot"}
      <4>1. CASE AcquireSlot(c) \/ AcquireFail(c)
        BY <4>1 DEF AcquireSlot, AcquireFail
      <4>2. CASE RegisterWaiter(c) \/ RegisterInflightCancel(c) \/ SendOk(c) \/ SendFail(c)
        BY <4>2 DEF RegisterWaiter, RegisterInflightCancel, SendOk, SendFail
      <4>3. CASE \/ AwaitResponse(c) \/ AwaitFail(c) \/ ClearInflightCancel(c) \/ ClearWaiter(c)
                 \/ ReleaseSlot(c)
        BY <4>3 DEF AwaitResponse, AwaitFail, ClearInflightCancel, ClearWaiter, ReleaseSlot
      <4> QED BY <1>2, <2>2, <4>1, <4>2, <4>3, Zenon DEF Call
    <3> QED BY <3>1, <3>2, <3>3, Zenon
  <2> QED BY <2>1, <2>2, Zenon
<1> QED BY <1>1, <1>2, OthersKeepCalls, Zenon DEF Next

------------------------------------------------------------------------------
\* What a Call does to the tables: it only touches the entries of its own id.
LEMMA NextTablesOwned ==
  ASSUME TypeOK, IdsUnique, TablesOwned, [Next]_vars
  PROVE  TablesOwned'
<1> USE DEF TypeOK, IdsUnique, TablesOwned, Goto, End, Registered, Cancellable
<1>1. CASE UNCHANGED <<callVars, tableVars>>
  BY <1>1, Zenon DEF callVars, tableVars
<1>2. ASSUME NEW c \in Calls, Call(c) PROVE TablesOwned'
  <2> USE DEF tableVars, Ids
  <2>0. ASSUME NEW v, pc' = [pc EXCEPT ![c] = v], UNCHANGED <<id, waiters, cancels>>,
               pc[c] \notin Registered
        PROVE  TablesOwned'
    <3>1. \A d \in Calls : d # c => pc'[d] = pc[d]
      <4>1. DOMAIN pc = Calls
        BY Zenon
      <4> HIDE DEF TypeOK, IdsUnique, TablesOwned
      <4> QED BY <2>0, <4>1, Zenon
    <3>2. pc[c] \notin Cancellable
      BY <2>0, Zenon
    <3>3. \A i \in Ids : waiters[i] \in Calls \cup {NoCall} /\ cancels[i] \in Calls \cup {NoCall}
      BY Zenon
    <3> QED BY <2>0, <3>1, <3>2, <3>3, Zenon
  <2>1. CASE AcquireSlot(c)
    <3>1. pc' = [pc EXCEPT ![c] = "slot"] /\ UNCHANGED <<id, waiters, cancels>> /\ pc[c] = "start"
      BY <2>1, Zenon DEF AcquireSlot
    <3>2. pc[c] \notin Registered
      BY <3>1, Zenon
    <3> QED BY <2>0, <3>1, <3>2, Zenon
  <2>2. CASE AcquireFail(c)
    <3>1. pc' = [pc EXCEPT ![c] = "returned"] /\ UNCHANGED <<id, waiters, cancels>> /\ pc[c] = "start"
      BY <2>2, Zenon DEF AcquireFail
    <3>2. pc[c] \notin Registered
      BY <3>1, Zenon
    <3> QED BY <2>0, <3>1, <3>2, Zenon
  <2>3. CASE NextID(c) BY <2>3 DEF NextID
  <2>4. CASE RegisterWaiter(c) BY <2>4 DEF RegisterWaiter
  <2>5. CASE RegisterInflightCancel(c) BY <2>5 DEF RegisterInflightCancel
  <2>6. CASE SendOk(c) BY <2>6 DEF SendOk
  <2>7. CASE SendFail(c) BY <2>7 DEF SendFail
  <2>8. CASE AwaitResponse(c) BY <2>8 DEF AwaitResponse
  <2>9. CASE AwaitFail(c) BY <2>9 DEF AwaitFail
  <2>10. CASE ClearInflightCancel(c) BY <2>10 DEF ClearInflightCancel
  <2>11. CASE ClearWaiter(c) BY <2>11 DEF ClearWaiter
  <2>12. CASE ReleaseSlot(c) BY <2>12 DEF ReleaseSlot
  <2> QED BY <1>2, <2>1, <2>2, <2>3, <2>4, <2>5, <2>6, <2>7, <2>8, <2>9, <2>10,
             <2>11, <2>12, Zenon DEF Call
<1>3. ASSUME NEW k \in Closers \cup {Reader}, CloseMark(k) PROVE TablesOwned'
  BY <1>3 DEF CloseMark, callVars
<1>4. ASSUME \/ ReadLoop \/ Handlers \/ SessionEnd \/ UNCHANGED vars
             \/ \E c \in Calls : CtxEnd(c)
             \/ \E k \in Closers \cup {Reader} : CloseDone(k) \/ CloseWriter(k)
      PROVE  UNCHANGED <<callVars, tableVars>>
  BY <1>4, Zenon DEF ReadLoop, Handlers, vars, ReaderSelect, ReadIgnored, ReadError,
         Deliver, ReaderExit, ReadCancel, ReadResponse, ReadRequest,
         ReaderReplies, HandlerReturns, HandleCancelRequest, CloseDone,
         CloseWriter, CtxEnd, SessionEnd
<1> QED BY <1>1, <1>2, <1>3, <1>4, Zenon DEF Next, Close

------------------------------------------------------------------------------
\* A response follows its id: onto the wire under the caller's id, from the
\* table to the channel of the call that owns the id, and out of that channel.
LEMMA NextResponsesOwned ==
  ASSUME TypeOK, IdsUnique, TablesOwned, ResponsesOwned, [Next]_vars
  PROVE  ResponsesOwned'
<1> USE CallsAssumption DEF TypeOK, ResponsesOwned, OwnResponse, Goto, End
<1>1. ASSUME NEW c \in Calls, Call(c) PROVE ResponsesOwned'
  <2> USE DEF readerVars
  <2>1. CASE AcquireSlot(c) BY <2>1, Zenon DEF AcquireSlot
  <2>2. CASE AcquireFail(c) BY <2>2 DEF AcquireFail
  <2>3. CASE NextID(c)
    <3>1. \A i \in 0 .. MaxSeq : <<i, c>> \notin requests
      BY <2>3 DEF NextID, IdsUnique
    <3> QED BY <2>3, <3>1 DEF NextID
  <2>4. CASE RegisterWaiter(c) BY <2>4, Zenon DEF RegisterWaiter
  <2>5. CASE RegisterInflightCancel(c) BY <2>5, Zenon DEF RegisterInflightCancel
  <2>6. CASE SendOk(c) BY <2>6, Zenon DEF SendOk, IdsUnique
  <2>7. CASE SendFail(c) BY <2>7 DEF SendFail, IdsUnique
  <2>8. CASE AwaitResponse(c) BY <2>8 DEF AwaitResponse
  <2>9. CASE AwaitFail(c) BY <2>9 DEF AwaitFail
  <2>10. CASE ClearInflightCancel(c) BY <2>10, Zenon DEF ClearInflightCancel
  <2>11. CASE ClearWaiter(c) BY <2>11, Zenon DEF ClearWaiter
  <2>12. CASE ReleaseSlot(c) BY <2>12, Zenon DEF ReleaseSlot
  <2> QED BY <1>1, <2>1, <2>2, <2>3, <2>4, <2>5, <2>6, <2>7, <2>8, <2>9, <2>10,
             <2>11, <2>12, Zenon DEF Call
<1> USE DEF callVars
<1>2. ASSUME NEW i \in Ids, NEW c \in Calls, ReadResponse(i, c)
      PROVE  ResponsesOwned'
  <2>1. id[c] = i
    BY <1>2, BoundsAssumption DEF ReadResponse, Ids
  <2>2. waiters[i] # NoCall => waiters[i] = c
    BY <2>1 DEF TablesOwned, IdsUnique, Ids
  <2> QED BY <1>2, <2>2 DEF ReadResponse
<1>3. CASE Deliver BY <1>3 DEF Deliver
<1>4. ASSUME NEW k \in Closers \cup {Reader}, CloseMark(k)
      PROVE  ResponsesOwned'
  <2>1. \A c \in Calls : ch'[c] \in {ch[c], "shutdown"}
    BY <1>4 DEF CloseMark
  <2> QED BY <1>4, <2>1, Zenon DEF CloseMark, readerVars
<1>5. ASSUME \/ ReaderSelect \/ ReadIgnored \/ ReadError \/ ReaderExit
             \/ Handlers \/ SessionEnd \/ UNCHANGED vars
             \/ \E i \in CancelIds : ReadCancel(i)
             \/ \E q \in PeerReqs : ReadRequest(q) \/ ReaderReplies(q)
             \/ \E c \in Calls : CtxEnd(c)
             \/ \E k \in Closers \cup {Reader} : CloseDone(k) \/ CloseWriter(k)
      PROVE  ResponsesOwned'
  <2>1. UNCHANGED <<id, requests, ch, inHand, outcome, payload>>
    BY <1>5, Zenon DEF Handlers, vars, ReaderSelect, ReadIgnored, ReadError, ReaderExit,
         ReadCancel, ReadRequest, ReaderReplies, HandlerReturns,
         HandleCancelRequest, CloseDone, CloseWriter, CtxEnd, SessionEnd,
         readerVars
  <2>2. readerPC' = "deliver" => readerPC = "deliver"
    BY <1>5, Zenon DEF Handlers, vars, ReaderSelect, ReadIgnored, ReadError, ReaderExit,
         ReadCancel, ReadRequest, ReaderReplies, HandlerReturns,
         HandleCancelRequest, CloseDone, CloseWriter, CtxEnd, SessionEnd,
         readerVars
  <2> QED BY <2>1, <2>2, Zenon
<1> QED BY <1>1, <1>2, <1>3, <1>4, <1>5, Zenon DEF Next, ReadLoop, Close

\* RoutingInv is inductive and holds from the start.
LEMMA Routing == Spec => []RoutingInv
<1>1. Init => RoutingInv
  <2> SUFFICES ASSUME Init PROVE RoutingInv
    BY Zenon
  <2>1. TypeOK BY InitTypeOK, Zenon
  <2>2. IdsUnique BY DEF Init, IdsUnique
  <2>3. TablesOwned BY Zenon DEF Init, TablesOwned
  <2>4. ResponsesOwned BY Zenon DEF Init, ResponsesOwned, OwnResponse
  <2> QED BY <2>1, <2>2, <2>3, <2>4, Zenon DEF RoutingInv
<1>2. RoutingInv /\ [Next]_vars => RoutingInv'
  BY NextTypeOK, NextIdsUnique, NextTablesOwned, NextResponsesOwned, Zenon
  DEF RoutingInv
<1> QED BY <1>1, <1>2, PTL DEF Spec

\* Call returns the response to its own request and to no other, for any
\* number of calls, any window, and a peer that duplicates, delays and
\* reorders its responses.
THEOREM CallsGetTheirOwnResponse == Spec => []OwnResponse
<1>1. RoutingInv => OwnResponse
  BY Zenon DEF RoutingInv, ResponsesOwned
<1> QED BY <1>1, Routing, PTL

\* A Call that has returned, by whatever path, has no entry left in the waiter
\* table or in the table of cancel functions.
THEOREM ReturnedCallsLeaveNothing == Spec => []NothingLeftBehind
<1>1. RoutingInv => NothingLeftBehind
  <2> SUFFICES ASSUME RoutingInv, NEW c \in Calls, pc[c] = "returned",
                      NEW i \in Ids
               PROVE  waiters[i] # c /\ cancels[i] # c
    BY Zenon DEF NothingLeftBehind
  <2> QED BY CallsAssumption DEF RoutingInv, TablesOwned, Registered, Cancellable
<1> QED BY <1>1, Routing, PTL

------------------------------------------------------------------------------
\* A call enters the window with acquireSlot and leaves it with releaseSlot;
\* every other step of a call keeps it where it is.
LEMMA NextSlots ==
  ASSUME TypeOK, SlotsAreInFlightCalls, [Next]_vars
  PROVE  SlotsAreInFlightCalls'
<1> USE DEF TypeOK, SlotsAreInFlightCalls
<1>1. IsFiniteSet(Holding)
  BY CallsAssumption, FS_Subset DEF Holding
<1>2. CASE UNCHANGED callVars
  BY <1>2 DEF callVars, Holding
<1>3. ASSUME NEW c \in Calls, Call(c) PROVE SlotsAreInFlightCalls'
  <2>1. CASE AcquireSlot(c)
    <3>1. Holding' = Holding \cup {c} /\ c \notin Holding
      BY <2>1 DEF AcquireSlot, Goto, Holding
    <3>2. Cardinality(Holding') = Cardinality(Holding) + 1
      BY <1>1, <3>1, FS_AddElement, Zenon
    <3> QED BY <2>1, <3>2, Zenon DEF AcquireSlot
  <2>2. CASE ReleaseSlot(c)
    <3>1. Holding' = Holding \ {c} /\ c \in Holding
      BY <2>2, Zenon DEF ReleaseSlot, Goto, Holding
    <3>2. Cardinality(Holding') = Cardinality(Holding) - 1
      BY <1>1, <3>1, FS_RemoveElement, Zenon
    <3>3. slots # 0
      BY <1>1, <3>1, FS_EmptySet, Zenon
    <3> QED BY <2>2, <3>2, <3>3 DEF ReleaseSlot
  <2>3. CASE ~AcquireSlot(c) /\ ~ReleaseSlot(c)
    <3>1. ASSUME AcquireFail(c) PROVE Holding' = Holding /\ slots' = slots
      BY <3>1 DEF AcquireFail, Goto, Holding
    <3>2. ASSUME NextID(c) PROVE Holding' = Holding /\ slots' = slots
      BY <3>2, Zenon DEF NextID, Goto, Holding
    <3>3. ASSUME RegisterWaiter(c) PROVE Holding' = Holding /\ slots' = slots
      BY <3>3, Zenon DEF RegisterWaiter, Goto, Holding
    <3>4. ASSUME RegisterInflightCancel(c) PROVE Holding' = Holding /\ slots' = slots
      BY <3>4, Zenon DEF RegisterInflightCancel, Goto, Holding
    <3>5. ASSUME SendOk(c) PROVE Holding' = Holding /\ slots' = slots
      BY <3>5, Zenon DEF SendOk, Goto, Holding
    <3>6. ASSUME SendFail(c) PROVE Holding' = Holding /\ slots' = slots
      BY <3>6, Zenon DEF SendFail, Goto, Holding
    <3>7. ASSUME AwaitResponse(c) PROVE Holding' = Holding /\ slots' = slots
      BY <3>7, Zenon DEF AwaitResponse, Goto, Holding
    <3>8. ASSUME AwaitFail(c) PROVE Holding' = Holding /\ slots' = slots
      BY <3>8, Zenon DEF AwaitFail, Goto, Holding
    <3>9. ASSUME ClearInflightCancel(c) PROVE Holding' = Holding /\ slots' = slots
      BY <3>9, Zenon DEF ClearInflightCancel, Goto, Holding
    <3>10. ASSUME ClearWaiter(c) PROVE Holding' = Holding /\ slots' = slots
      BY <3>10, Zenon DEF ClearWaiter, Goto, Holding
    <3> QED BY <1>3, <2>3, <3>1, <3>2, <3>3, <3>4, <3>5, <3>6, <3>7, <3>8, <3>9, <3>10, Zenon DEF Call
  <2> QED BY <2>1, <2>2, <2>3, Zenon
<1> QED BY <1>2, <1>3, OthersKeepCalls, Zenon DEF Next

\* The tokens in inFlightWindow count the calls in flight exactly, so by
\* TypeCorrect no more than Window calls are ever in flight, and no return
\* path of Call leaks a slot.
THEOREM SlotsCountCalls == Spec => []SlotsAreInFlightCalls
<1>1. Init => SlotsAreInFlightCalls
  <2> SUFFICES ASSUME Init PROVE SlotsAreInFlightCalls
    BY Zenon
  <2>1. Holding = {} BY Zenon DEF Init, Holding
  <2> QED BY <2>1, FS_EmptySet, Zenon DEF Init, SlotsAreInFlightCalls
<1>2. TypeOK /\ SlotsAreInFlightCalls /\ [Next]_vars => SlotsAreInFlightCalls'
  BY NextSlots, Zenon
<1> QED BY <1>1, <1>2, TypeCorrect, PTL DEF Spec

------------------------------------------------------------------------------
\* Whoever is past the test of r.closed is the only one, and done follows it.
CloseInv ==
    /\ DoneClosedOnce
    /\ \A k \in Closers \cup {Reader} : closePC[k] = "marked" => closed
    /\ done => closed

\* Any number of concurrent Close calls closes r.done exactly once.
THEOREM DoneIsClosedOnce == Spec => []DoneClosedOnce
<1>1. Init => CloseInv
  BY Zenon DEF Init, CloseInv, DoneClosedOnce
<1>2. TypeOK /\ CloseInv /\ [Next]_vars => CloseInv'
  <2> SUFFICES ASSUME TypeOK, CloseInv, [Next]_vars PROVE CloseInv'
    BY Zenon
  <2> USE DEF TypeOK, CloseInv, DoneClosedOnce
  <2>1. CASE UNCHANGED closeVars
    BY <2>1, Zenon DEF closeVars
  <2>2. ASSUME NEW k \in Closers \cup {Reader}, CloseMark(k) PROVE CloseInv'
    BY <2>2 DEF CloseMark
  <2>3. ASSUME NEW k \in Closers \cup {Reader}, CloseDone(k) PROVE CloseInv'
    BY <2>3 DEF CloseDone
  <2>4. ASSUME NEW k \in Closers \cup {Reader}, CloseWriter(k) PROVE CloseInv'
    BY <2>4 DEF CloseWriter
  <2>5. ASSUME \/ ReadLoop \/ Handlers \/ SessionEnd \/ UNCHANGED vars
               \/ \E c \in Calls : Call(c) \/ CtxEnd(c)
        PROVE  UNCHANGED closeVars
    BY <2>5, Zenon DEF ReadLoop, Handlers, vars, ReaderSelect, ReadIgnored, ReadError,
       Deliver, ReaderExit, ReadCancel, ReadResponse, ReadRequest,
       ReaderReplies, HandlerReturns, HandleCancelRequest, CtxEnd, SessionEnd,
       Call, AcquireSlot, AcquireFail, NextID, RegisterWaiter,
       RegisterInflightCancel, SendOk, SendFail, AwaitResponse, AwaitFail,
       ClearInflightCancel, ClearWaiter, ReleaseSlot
  <2> QED BY <2>1, <2>2, <2>3, <2>4, <2>5, Zenon DEF Next, Close
<1>3. CloseInv => DoneClosedOnce
  BY Zenon DEF CloseInv
<1> QED BY <1>1, <1>2, <1>3, TypeCorrect, PTL DEF Spec

------------------------------------------------------------------------------
\* Only NextID changes ids, and only of a call that has none.
LEMMA IdsKept ==
  ASSUME TypeOK, IdsUnique, [Next]_vars, NEW c \in Calls, id[c] # 0
  PROVE  id'[c] = id[c]
<1>1. ASSUME NEW d \in Calls, NextID(d) PROVE id'[c] = id[c]
  <2>1. c # d
    BY <1>1, Zenon DEF NextID, IdsUnique
  <2> QED BY <1>1, <2>1, Zenon DEF NextID, TypeOK
<1>2. ASSUME NEW d \in Calls, Call(d), ~NextID(d) PROVE UNCHANGED id
  BY <1>2, Zenon DEF Call, AcquireSlot, AcquireFail, RegisterWaiter, RegisterInflightCancel, SendOk, SendFail,
     AwaitResponse, AwaitFail, ClearInflightCancel, ClearWaiter, ReleaseSlot
<1> QED BY <1>1, <1>2, OthersKeepCalls, Zenon DEF Next, callVars

\* Only handleCancelRequest cancels on behalf of the peer, and the ids the peer
\* asked for are not forgotten.
LEMMA CutSteps ==
  ASSUME [Next]_vars
  PROVE  /\ asked \subseteq asked'
         /\ UNCHANGED cut \/ \E i \in Ids : HandleCancelRequest(i)
<1>1. ASSUME NEW d \in Calls, Call(d) PROVE UNCHANGED <<asked, cut>>
  BY <1>1, Zenon DEF Call, AcquireSlot, AcquireFail, NextID, RegisterWaiter, RegisterInflightCancel, SendOk, SendFail,
     AwaitResponse, AwaitFail, ClearInflightCancel, ClearWaiter, ReleaseSlot, envVars
<1>2. ASSUME NEW d \in Calls, CtxEnd(d) PROVE UNCHANGED <<asked, cut>>
  BY <1>2, Zenon DEF CtxEnd
<1>3. ASSUME ReadLoop PROVE asked \subseteq asked' /\ UNCHANGED cut
  BY <1>3, Zenon DEF ReadLoop, ReaderSelect, ReadIgnored, ReadError, Deliver, ReaderExit, ReadCancel, ReadResponse,
     ReadRequest, ReaderReplies, envVars
<1>4. ASSUME NEW q \in PeerReqs, HandlerReturns(q) PROVE UNCHANGED <<asked, cut>>
  BY <1>4, Zenon DEF HandlerReturns
<1>5. ASSUME NEW i \in Ids, HandleCancelRequest(i) PROVE UNCHANGED asked
  BY <1>5, Zenon DEF HandleCancelRequest
<1>6. ASSUME NEW k \in Closers \cup {Reader}, Close(k) PROVE UNCHANGED <<asked, cut>>
  BY <1>6, Zenon DEF Close, CloseMark, CloseDone, CloseWriter, envVars
<1>7. ASSUME SessionEnd \/ UNCHANGED vars PROVE UNCHANGED <<asked, cut>>
  BY <1>7, Zenon DEF SessionEnd, vars, envVars
<1> QED BY <1>1, <1>2, <1>3, <1>4, <1>5, <1>6, <1>7, Zenon DEF Next, Handlers

\* handleCancelRequest cancels the call whose request the peer named and no
\* other, even when the lookup happens long after the notification was read:
\* ids are never reused and the table of cancel functions is exact.
THEOREM CancelIsPrecise == Spec => []PreciseCancel
<1>1. Init => PreciseCancel
  BY Zenon DEF Init, PreciseCancel
<1>2. RoutingInv /\ PreciseCancel /\ [Next]_vars => PreciseCancel'
  <2> SUFFICES ASSUME RoutingInv, PreciseCancel, [Next]_vars, NEW c \in Calls, cut'[c] PROVE id'[c] \in asked'
    BY Zenon DEF PreciseCancel
  <2>1. TypeOK /\ IdsUnique /\ TablesOwned
    BY Zenon DEF RoutingInv
  <2>2. id[c] \in asked
    <3>1. CASE cut[c]
      BY <3>1, Zenon DEF PreciseCancel
    <3>2. CASE ~cut[c]
      <4>1. PICK i \in Ids : HandleCancelRequest(i)
        BY <3>2, CutSteps, Zenon
      <4>2. cancels[i] = c
        BY <2>1, <3>2, <4>1 DEF HandleCancelRequest, TypeOK
      <4> QED BY <2>1, <4>1, <4>2, CallsAssumption, Zenon DEF TablesOwned, HandleCancelRequest
    <3> QED BY <3>1, <3>2, Zenon
  <2>3. id[c] # 0
    BY <2>1, <2>2, BoundsAssumption DEF TypeOK, Ids
  <2> QED BY <2>1, <2>2, <2>3, IdsKept, CutSteps, Zenon
<1> QED BY <1>1, <1>2, Routing, PTL DEF Spec
=============================================================================
