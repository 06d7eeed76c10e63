------------------------------ MODULE ToolGuard ------------------------------
(***************************************************************************)
(* The file policy of a run and the tools it guards                        *)
(* (executionpolicy/file_policy.go, toolguard/, cmd/execution_env.go).     *)
(*                                                                         *)
(* A shell command runs in a temporary copy of the readable files.  When   *)
(* it ends, the copy is compared with what it was, every difference is     *)
(* judged by the policy, and only if all are allowed the differences are   *)
(* copied to the real tree, path by path, in path order.  The copy, the    *)
(* judgement and the synchronisation are separate moments: another run of  *)
(* the same host may write a file of the tree between them.                *)
(*                                                                         *)
(* The glob patterns of a policy are the sets of paths they match.  A      *)
(* content stands for bytes and mode; GdLink is a symbolic link.           *)
(***************************************************************************)
EXTENDS Integers, Sequences, FiniteSets

CONSTANTS
    GdOrder,        \* the paths of the tree in the order sort.Strings gives
    GdInside,       \* pairs <<dir, path>>: path lies below dir
    GdContents,     \* contents a writer may give a file
    GdPolicies,     \* policies: [read, create, edit, delete, deny, commands]
    GdModes,        \* permission modes of the run
    GdMaxCalls,     \* bound: tool calls
    GdMaxEdits      \* bound: files another run writes

GdAbsent == "absent"
GdLink == "link"
GdPaths == {GdOrder[i] : i \in 1..Len(GdOrder)}

\* What a writer leaves is a file.
ASSUME GdContentsAssumption == GdAbsent \notin GdContents /\ GdLink \notin GdContents

VARIABLES
    gdPolicy, gdMode,
    gdTree,         \* the real tree: path -> content
    gdBase,         \* history: the tree as it was before the call, with what others wrote since
    gdRaced,        \* history: the paths others wrote during the call
    gdCall,         \* where the call is: idle, run, judge, sync
    gdCopy,         \* the temporary workspace
    gdBefore,       \* its snapshot before the command
    gdNext,         \* the next position of GdOrder to synchronise
    gdShown,        \* the files the last read or search showed
    gdCalls, gdEdits

gdVars == <<gdPolicy, gdMode, gdTree, gdBase, gdRaced, gdCall, gdCopy, gdBefore,
            gdNext, gdShown, gdCalls, gdEdits>>
gdRun == <<gdCopy, gdBefore, gdNext>>
gdFixed == <<gdPolicy, gdMode>>

\* No path of a tree lies below a file of it.
GdWhole(t) == \A pair \in GdInside : t[pair[1]] = GdAbsent \/ t[pair[2]] = GdAbsent
GdTrees(contents) == {t \in [GdPaths -> contents \cup {GdAbsent}] : GdWhole(t)}

GdCheckRead(p) ==
    /\ p \notin gdPolicy.deny
    /\ p \in gdPolicy.read
    /\ gdTree[p] # GdAbsent

GdCheckWrite(p) ==
    /\ p \notin gdPolicy.deny
    /\ p \in IF gdTree[p] # GdAbsent THEN gdPolicy.edit ELSE gdPolicy.create

GdCheckDelete(p) == p \notin gdPolicy.deny /\ p \in gdPolicy.delete

\* The modes that let a tool of a class run without asking.
GdAutoApprove(class) ==
    \/ class = "read"
    \/ gdMode \in {"accept-edits", "auto", "restricted"} /\ class \in {"edit", "delete"}
    \/ gdMode \in {"auto", "restricted"} /\ class = "command"
    \/ gdMode = "bypass"

\* Begin a call: approved by the mode or by the user.
GdBegin(class, granted) ==
    /\ gdCall = "idle"
    /\ gdCalls < GdMaxCalls
    /\ GdAutoApprove(class) \/ granted
    /\ gdCalls' = gdCalls + 1
    /\ gdBase' = gdTree
    /\ gdRaced' = {}
    /\ UNCHANGED <<gdFixed, gdEdits>>

\* WriteFile and MkdirAll fail where a directory is a file or a file a directory.
GdCanPut(t, p) ==
    \A pair \in GdInside : /\ pair[2] = p => t[pair[1]] = GdAbsent
                           /\ pair[1] = p => t[pair[2]] = GdAbsent

-----------------------------------------------------------------------------
(* The file tools. *)

GdWrite(p, c, granted) ==
    /\ GdBegin("edit", granted)
    /\ gdTree[p] # GdLink          \* a write goes to the link's target, outside the model
    /\ gdTree' = IF GdCheckWrite(p) /\ GdCanPut(gdTree, p)
                 THEN [gdTree EXCEPT ![p] = c] ELSE gdTree
    /\ UNCHANGED <<gdRun, gdCall, gdShown>>

GdDelete(p, granted) ==
    /\ GdBegin("delete", granted)
    /\ gdTree' = IF GdCheckDelete(p) THEN [gdTree EXCEPT ![p] = GdAbsent] ELSE gdTree
    /\ UNCHANGED <<gdRun, gdCall, gdShown>>

GdRead(p, granted) ==
    /\ GdBegin("read", granted)
    /\ gdShown' = IF GdCheckRead(p) THEN {p} ELSE {}
    /\ UNCHANGED <<gdRun, gdCall, gdTree>>

\* A search below the root: the tool's matches, filtered by the policy.
GdSearch(found, granted) ==
    /\ GdBegin("read", granted)
    /\ found \subseteq {p \in GdPaths : gdTree[p] # GdAbsent}
    /\ gdShown' = {p \in found : GdCheckRead(p)}
    /\ UNCHANGED <<gdRun, gdCall, gdTree>>

-----------------------------------------------------------------------------
(* A command. *)

\* The copy holds the readable files; a readable link fails the preparation.
GdMaterialize == [p \in GdPaths |-> IF GdCheckRead(p) THEN gdTree[p] ELSE GdAbsent]

GdCommand(granted) ==
    /\ GdBegin("command", granted)
    /\ UNCHANGED <<gdTree, gdShown>>
    /\ IF gdPolicy.commands /\ \A p \in GdPaths : GdMaterialize[p] # GdLink
       THEN /\ gdCall' = "run"
            /\ gdCopy' = GdMaterialize
            /\ gdBefore' = GdMaterialize
            /\ gdNext' = 1
       ELSE UNCHANGED <<gdCall, gdRun>>

\* The command leaves any tree in the workspace.
GdExec(t) ==
    /\ gdCall = "run"
    /\ gdCopy' = t
    /\ gdCall' = "judge"
    /\ UNCHANGED <<gdFixed, gdTree, gdBase, gdRaced, gdBefore, gdNext, gdShown,
                   gdCalls, gdEdits>>

\* The tool fails or its context ends: nothing is synchronised.
GdExecFails ==
    /\ gdCall = "run"
    /\ gdCall' = "idle"
    /\ UNCHANGED <<gdFixed, gdTree, gdBase, gdRaced, gdRun, gdShown, gdCalls, gdEdits>>

GdChanged == {p \in GdPaths : gdBefore[p] # gdCopy[p]}

\* A slip: deletions are not judged.
GdViolatesKept(p) ==
    gdCopy[p] # GdAbsent /\ (GdLink \in {gdBefore[p], gdCopy[p]} \/ ~GdCheckWrite(p))

GdViolates(p) ==
    IF gdCopy[p] = GdAbsent THEN ~GdCheckDelete(p)
    ELSE GdLink \in {gdBefore[p], gdCopy[p]} \/ ~GdCheckWrite(p)

GdJudge ==
    /\ gdCall = "judge"
    /\ gdCall' = IF \E p \in GdChanged : GdViolates(p) THEN "idle" ELSE "sync"
    /\ UNCHANGED <<gdFixed, gdTree, gdBase, gdRaced, gdRun, gdShown, gdCalls, gdEdits>>

\* One path of syncAllowedMutations; a failing write ends the call halfway.
GdSync ==
    /\ gdCall = "sync"
    /\ gdNext <= Len(GdOrder)
    /\ LET p == GdOrder[gdNext] IN
         IF p \notin GdChanged THEN UNCHANGED <<gdTree, gdCall>>
         ELSE IF gdCopy[p] = GdAbsent
              THEN gdTree' = [gdTree EXCEPT ![p] = GdAbsent] /\ UNCHANGED gdCall
              ELSE IF GdCanPut(gdTree, p)
                   THEN gdTree' = [gdTree EXCEPT ![p] = gdCopy[p]] /\ UNCHANGED gdCall
                   ELSE gdCall' = "idle" /\ UNCHANGED gdTree
    /\ gdNext' = gdNext + 1
    /\ UNCHANGED <<gdFixed, gdBase, gdRaced, gdCopy, gdBefore, gdShown, gdCalls, gdEdits>>

GdSyncDone ==
    /\ gdCall = "sync"
    /\ gdNext > Len(GdOrder)
    /\ gdCall' = "idle"
    /\ UNCHANGED <<gdFixed, gdTree, gdBase, gdRaced, gdRun, gdShown, gdCalls, gdEdits>>

\* Another run with the same working directory writes a file.
GdEdit(p, c) ==
    /\ gdEdits < GdMaxEdits
    /\ GdCanPut(gdTree, p)
    /\ gdTree[p] # GdLink
    /\ gdTree' = [gdTree EXCEPT ![p] = c]
    /\ gdBase' = [gdBase EXCEPT ![p] = c]
    /\ gdRaced' = gdRaced \cup {p}
    /\ gdEdits' = gdEdits + 1
    /\ UNCHANGED <<gdFixed, gdRun, gdCall, gdShown, gdCalls>>

-----------------------------------------------------------------------------
GdInit ==
    /\ gdPolicy \in GdPolicies
    /\ gdMode \in GdModes
    /\ gdTree \in GdTrees(GdContents \cup {GdLink})
    /\ gdBase = gdTree
    /\ gdRaced = {}
    /\ gdCall = "idle"
    /\ gdCopy = [p \in GdPaths |-> GdAbsent]
    /\ gdBefore = gdCopy
    /\ gdNext = 1
    /\ gdShown = {}
    /\ gdCalls = 0
    /\ gdEdits = 0

GdNext ==
    \/ \E granted \in BOOLEAN :
         \/ \E p \in GdPaths, c \in GdContents : GdWrite(p, c, granted)
         \/ \E p \in GdPaths : GdDelete(p, granted) \/ GdRead(p, granted)
         \/ \E found \in SUBSET GdPaths : GdSearch(found, granted)
         \/ GdCommand(granted)
    \/ \E t \in GdTrees(GdContents \cup {GdLink}) : GdExec(t)
    \/ GdExecFails \/ GdJudge \/ GdSync \/ GdSyncDone
    \/ \E p \in GdPaths, c \in GdContents : GdEdit(p, c)

GdSpec == GdInit /\ [][GdNext]_gdVars

-----------------------------------------------------------------------------
(***************************************************************************)
(* Whatever a command did in its workspace and whenever another run wrote  *)
(* beside it, the tree differs from what it was before the call only where *)
(* and as the policy allows: never at a denied path, removed only where    *)
(* delete is allowed, created only where create is, changed only where     *)
(* edit is.  One case is left to the judgement's moment: a path that the   *)
(* other run wrote during the call was judged by what was there before.    *)
(* This holds also when synchronisation stops halfway.  Reads and searches *)
(* show only files the policy lets be read.                                *)
(***************************************************************************)
GdOnlyPermitted ==
    /\ \A p \in GdPaths : gdTree[p] # gdBase[p] =>
         /\ p \notin gdPolicy.deny
         /\ \/ gdTree[p] = GdAbsent /\ p \in gdPolicy.delete
            \/ gdTree[p] # GdAbsent /\ gdBase[p] = GdAbsent /\ p \in gdPolicy.create
            \/ gdTree[p] # GdAbsent /\ gdBase[p] # GdAbsent
               /\ (p \in gdPolicy.edit \/ p \in gdRaced)
    /\ gdShown \subseteq gdPolicy.read \ gdPolicy.deny
=============================================================================
