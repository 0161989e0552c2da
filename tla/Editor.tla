-------------------------------- MODULE Editor --------------------------------
(***************************************************************************)
(* The Web IDE (web/ide-src/src/main.js): one page that opens files of the *)
(* VM, edits and saves them through the lab server's ideFileProxy          *)
(* (cmd/labserver/main.go) and the /files of the agent (vm/lab-inject.py). *)
(* openFile and saveFile wait for their answers, and nothing keeps the     *)
(* learner from opening, editing and saving in the meantime: the callbacks *)
(* run in the order in which the answers happen to come.                   *)
(***************************************************************************)
EXTENDS Naturals

CONSTANTS
    Paths,      \* the files
    Requests,   \* fetches under way at a time
    None,       \* no path
    MaxEdits    \* edits of one text

ASSUME EditorAssumption == None \notin Paths /\ MaxEdits \in Nat

\* A text is told by the file it was read from and by its edits; a file that was
\* only partly written is no longer whole.
Text == [of : Paths, edits : 0..MaxEdits, whole : BOOLEAN]

Original(p) == [of |-> p, edits |-> 0, whole |-> TRUE]

\* A GET or PUT of /files: free, sent, answered with 200, answered with an error.
\* orphan: the page that sent it is gone.
Request == [kind : {"open", "save"}, path : Paths \cup {None}, text : Text \cup {None},
            stage : {"free", "sent", "ok", "error"}, orphan : BOOLEAN]

Unused == [kind |-> "open", path |-> None, text |-> None, stage |-> "free",
           orphan |-> FALSE]

VARIABLES
    currentPath,  \* the open file
    dirty,        \* the unsaved mark
    text,         \* what the editor holds
    canSave,      \* the Save button is enabled
    request,      \* the fetches
    file,         \* path -> what the VM's disk holds
    hasty         \* the learner did not wait for an answer, opened the file that is
                  \* open, or saved one without changes

page == <<currentPath, dirty, text, canSave>>
vars == <<page, request, file, hasty>>

TypeOK ==
    /\ currentPath \in Paths \cup {None}
    /\ dirty \in BOOLEAN /\ canSave \in BOOLEAN
    /\ text \in Text \cup {None}
    /\ request \in [Requests -> Request]
    /\ \A r \in Requests : request[r].stage # "free" => request[r].path \in Paths
    /\ file \in [Paths -> Text]
    /\ hasty \in BOOLEAN

NewPage ==
    /\ currentPath' = None /\ dirty' = FALSE /\ canSave' = FALSE
    /\ text' = None

Init ==
    /\ currentPath = None /\ dirty = FALSE /\ canSave = FALSE
    /\ text = None
    /\ request = [r \in Requests |-> Unused]
    /\ file = [p \in Paths |-> Original(p)]
    /\ hasty = FALSE

Waiting == \E r \in Requests : request[r] # Unused

Send(r, kind, p, t) ==
    /\ request[r] = Unused
    /\ request' = [request EXCEPT ![r] =
           [kind |-> kind, path |-> p, text |-> t, stage |-> "sent", orphan |-> FALSE]]

Forget(r) == request' = [request EXCEPT ![r] = Unused]

-----------------------------------------------------------------------------
(* The page.                                                               *)

\* onDidChangeModelContent.  The editor is shown once a file is open.
Edit ==
    /\ currentPath # None /\ text.edits < MaxEdits
    /\ text' = [text EXCEPT !.edits = @ + 1]
    /\ dirty' = TRUE
    /\ hasty' = (hasty \/ Waiting)
    /\ UNCHANGED <<currentPath, canSave, request, file>>

\* Mutant: after the first one, a file becomes the current one before it is read.
OpenFileAtOnce(r, p) ==
    /\ Send(r, "open", p, None)
    /\ currentPath' = IF currentPath = None THEN None ELSE p
    /\ hasty' = (hasty \/ Waiting \/ p = currentPath)
    /\ UNCHANGED <<dirty, text, canSave, file>>

\* openFile up to its fetch: whoever does not want to lose unsaved changes does not
\* confirm, and that is the end of it.
OpenFile(r, p) ==
    /\ Send(r, "open", p, None)
    /\ hasty' = (hasty \/ Waiting \/ p = currentPath)
    /\ UNCHANGED <<page, file>>

\* Mutant: Ctrl+S saves before a file is open.
SaveFileUnopened(r) ==
    /\ Send(r, "save", currentPath, text)
    /\ canSave' = FALSE
    /\ hasty' = (hasty \/ Waiting \/ ~dirty)
    /\ UNCHANGED <<currentPath, dirty, text, file>>

\* saveFile up to its fetch, from the button or from Ctrl+S, which works whatever
\* the button shows.
SaveFile(r) ==
    /\ currentPath # None
    /\ Send(r, "save", currentPath, text)
    /\ canSave' = FALSE
    /\ hasty' = (hasty \/ Waiting \/ ~dirty)
    /\ UNCHANGED <<currentPath, dirty, text, file>>

Answered(r, kind, stage) ==
    /\ request[r].kind = kind /\ request[r].stage = stage /\ ~request[r].orphan
    /\ Forget(r)

\* openFile after its fetch.  A second model of the file that is open cannot be
\* created: the callback ends there, with the old model still in the editor.
Opened(r) ==
    LET q == request[r] IN
    /\ Answered(r, "open", "ok")
    /\ currentPath' = q.path /\ dirty' = FALSE /\ canSave' = TRUE
    /\ text' = IF currentPath = q.path THEN text ELSE q.text
    /\ UNCHANGED <<file, hasty>>

OpenFailed(r) == Answered(r, "open", "error") /\ UNCHANGED <<page, file, hasty>>

\* saveFile after its fetch, whatever has been edited or opened since.
Saved(r) ==
    /\ Answered(r, "save", "ok")
    /\ dirty' = FALSE /\ canSave' = TRUE
    /\ UNCHANGED <<currentPath, text, file, hasty>>

\* Mutant: the button is enabled again only after a success.
SaveFailedForGood(r) == Answered(r, "save", "error") /\ UNCHANGED <<page, file, hasty>>

\* Mutant: every answer takes the mark away.
SaveFailedClean(r) ==
    /\ Answered(r, "save", "error")
    /\ dirty' = FALSE /\ canSave' = TRUE
    /\ UNCHANGED <<currentPath, text, file, hasty>>

SaveFailed(r) ==
    /\ Answered(r, "save", "error")
    /\ canSave' = TRUE
    /\ UNCHANGED <<currentPath, dirty, text, file, hasty>>

\* The page is reloaded or closed.  What it has sent may still arrive.
Reload ==
    /\ NewPage
    /\ request' = [r \in Requests |->
           IF request[r].stage = "sent" THEN [request[r] EXCEPT !.orphan = TRUE]
                                        ELSE Unused]
    /\ hasty' = (\E r \in Requests : request[r].stage = "sent")
    /\ UNCHANGED file

-----------------------------------------------------------------------------
(* The agent and the way to it.                                            *)

Answer(r, stage, t) ==
    request' = [request EXCEPT ![r] =
        IF @.orphan THEN Unused ELSE [@ EXCEPT !.stage = stage, !.text = t]]

\* do_GET /files of a file.
GetFile(r) ==
    LET q == request[r] IN
    /\ q.stage = "sent" /\ q.kind = "open"
    /\ Answer(r, "ok", file[q.path])
    /\ UNCHANGED <<page, file, hasty>>

\* do_PUT /files.
PutFile(r) ==
    LET q == request[r] IN
    /\ q.stage = "sent" /\ q.kind = "save"
    /\ file' = [file EXCEPT ![q.path] = q.text]
    /\ Answer(r, "ok", q.text)
    /\ UNCHANGED <<page, hasty>>

\* The file is cut to nothing before it is written, and the write fails.
PutFileFails(r) ==
    LET q == request[r] IN
    /\ q.stage = "sent" /\ q.kind = "save"
    /\ file' = [file EXCEPT ![q.path] = [q.text EXCEPT !.whole = FALSE]]
    /\ Answer(r, "error", q.text)
    /\ UNCHANGED <<page, hasty>>

\* ideFileProxy refuses the request, the agent cannot be reached or has no such
\* file; or what it did is not heard of.
RequestFails(r) ==
    /\ request[r].stage = "sent"
    /\ Answer(r, "error", request[r].text)
    /\ UNCHANGED <<page, file, hasty>>

AnswerLost(r) ==
    LET q == request[r] IN
    /\ q.stage = "sent" /\ q.kind = "save"
    /\ file' = [file EXCEPT ![q.path] = q.text]
    /\ Answer(r, "error", q.text)
    /\ UNCHANGED <<page, hasty>>

Next ==
    \/ Edit \/ Reload
    \/ \E r \in Requests :
        \/ \E p \in Paths : OpenFile(r, p)
        \/ SaveFile(r) \/ Opened(r) \/ OpenFailed(r) \/ Saved(r) \/ SaveFailed(r)
        \/ GetFile(r) \/ PutFile(r) \/ PutFileFails(r) \/ RequestFails(r)
        \/ AnswerLost(r)

Spec == Init /\ [][Next]_vars

-----------------------------------------------------------------------------
(* Properties.                                                             *)

\* openFile, saveFile: however opening and saving overlap, no file ever gets the
\* text of another one, and none is on its way there.
FilesKeepTheirText ==
    /\ \A p \in Paths : file[p].of = p
    /\ \A r \in Requests :
           request[r].kind = "save" /\ request[r].stage = "sent"
               => request[r].text.of = request[r].path

\* saveFile: with a file open, the Save button is disabled only while a save is under
\* way, also after one that failed.
ButtonComesBack ==
    currentPath # None /\ ~canSave
        => \E r \in Requests : /\ request[r].kind = "save" /\ ~request[r].orphan
                               /\ request[r].stage # "free"

\* dirty: for a learner who waits for every answer, does not open the file that is
\* open and saves only changes, a file that is not marked as unsaved is on the disk as
\* the editor shows it, whatever has failed.
UnmarkedIsSaved ==
    currentPath # None /\ ~dirty /\ ~hasty /\ ~Waiting => file[currentPath] = text

\* What makes the first hold: the editor's text is the current file's, and what was
\* read is the file's that was asked for.
PairedInv ==
    /\ currentPath # None => text.of = currentPath
    /\ \A r \in Requests : request[r].stage = "ok" => request[r].text.of = request[r].path
    /\ FilesKeepTheirText
=============================================================================
