-------------------------------- MODULE WebIDE --------------------------------
(***************************************************************************)
(* The page of the Web IDE (web/ide-src/src/main.js, web/static/ide.html): *)
(* the file tree, the editor and the bar above it, which the learner uses  *)
(* at the same time.  A click on a file of the tree opens it; a file that  *)
(* has been opened is marked in the tree, which may be another one by then.*)
(* The bar shows the open file and whether it is unsaved, as of the last   *)
(* call of updateBar.                                                      *)
(***************************************************************************)
EXTENDS Editor, FileTree

CONSTANT MaxFetches     \* fetches under way at a time, of the tree and the editor

ASSUME IDEAssumption ==
    /\ Paths \subseteq Nodes \ Dirs
    /\ MaxFetches \in Nat

VARIABLE bar    \* what the bar shows of currentPath and dirty

ideVars == <<treeVars, vars, bar>>

IDETypeOK ==
    /\ TreeTypeOK /\ TypeOK
    /\ bar \in [path : Paths \cup {None}, dirty : BOOLEAN]

NoFile == [path |-> None, dirty |-> FALSE]

IDEInit == TreeInit /\ Init /\ bar = NoFile

UpdateBar == bar' = [path |-> currentPath', dirty |-> dirty']

\* Mutant: the bar is updated before the change is noted.
ChangeLate ==
    /\ Edit
    /\ bar' = [path |-> currentPath, dirty |-> dirty]
    /\ UNCHANGED treeVars

\* The first change since the file was opened or saved updates the bar.
Change ==
    /\ Edit
    /\ IF dirty THEN UNCHANGED bar ELSE UpdateBar
    /\ UNCHANGED treeVars

\* Mutant: a file is marked when it is clicked.
ClickFileMarks(r, i) ==
    /\ items[i].path \in Paths
    /\ OpenFile(r, items[i].path)
    /\ HighlightActive(items[i].path)
    /\ UNCHANGED bar

ClickFile(r, i) ==
    /\ items[i].path \in Paths
    /\ OpenFile(r, items[i].path)
    /\ UNCHANGED <<treeVars, bar>>

\* openFile ends with the bar and by marking the file in the tree, unless it has raised
\* before: then both are as they were.
ShowFile(r) ==
    /\ Opened(r)
    /\ IF request[r].path = currentPath THEN UNCHANGED <<treeVars, bar>>
       ELSE HighlightActive(request[r].path) /\ UpdateBar

ShowSaved(r) == Saved(r) /\ UpdateBar /\ UNCHANGED treeVars

\* Everything else that the editor does leaves the tree and the bar alone.
EditorStep(r) ==
    /\ \/ SaveFile(r) \/ OpenFailed(r) \/ SaveFailed(r)
       \/ GetFile(r) \/ PutFile(r) \/ PutFileFails(r) \/ RequestFails(r)
       \/ AnswerLost(r)
    /\ UNCHANGED <<treeVars, bar>>

\* The whole page begins anew.
ReloadPage == Reload /\ Reboot /\ bar' = NoFile

Underway ==
    Cardinality({r \in Requests : request[r] # Unused})
        + Cardinality({l \in Loads : load[l] # Idle})

IDENext ==
    /\ \/ TreeStep /\ UNCHANGED <<vars, bar>>
       \/ Change \/ ReloadPage
       \/ \E r \in Requests :
           \/ \E i \in DOMAIN items : ClickFile(r, i)
           \/ ShowFile(r) \/ ShowSaved(r)
           \/ EditorStep(r)
    /\ Underway' <= MaxFetches

IDESpec == IDEInit /\ [][IDENext]_ideVars

-----------------------------------------------------------------------------
(* Properties.                                                             *)

\* highlightActive: whatever is opened, saved, shown or left in the meantime, what the tree
\* marks is the file that is open.
ActiveIsOpen == \A i \in active : items[i].path = currentPath

\* updateBar: the bar names the open file, and whatever is edited, saved or opened in
\* the meantime, a file that counts as unsaved is shown as unsaved.  A saved one may be
\* shown as unsaved too, but not to a learner who waits for every answer, does not open
\* the file that is open and saves what is unsaved only (hasty).
MarkIsShown ==
    /\ bar.path = currentPath
    /\ dirty => bar.dirty
    /\ ~hasty => bar.dirty = dirty
=============================================================================
