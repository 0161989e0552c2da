----------------------------- MODULE Editor_proofs -----------------------------
(***************************************************************************)
(* Proofs about Editor, FileTree and WebIDE, for any files, requests and   *)
(* number of edits, and for any directories, loads and size of the tree.   *)
(***************************************************************************)
EXTENDS WebIDE, SequenceTheorems, TLAPS

LEMMA UnusedIsRequest == Unused \in Request
  BY DEF Unused, Request

\* A request that is sent is a request.
LEMMA SendTyped ==
  ASSUME TypeOK, NEW r \in Requests, NEW kind \in {"open", "save"}, NEW p \in Paths,
         NEW t \in Text \cup {None}, Send(r, kind, p, t)
  PROVE  request' \in [Requests -> Request]
  BY DEF Send, TypeOK, Request

\* An answer to a request leaves it one, or makes it free.
LEMMA AnswerTyped ==
  ASSUME TypeOK, NEW r \in Requests, NEW stage \in {"ok", "error"},
         NEW t \in Text \cup {None}, Answer(r, stage, t)
  PROVE  request' \in [Requests -> Request]
<1>1. request[r] \in Request
  BY DEF TypeOK
<1>2. [request[r] EXCEPT !.stage = stage, !.text = t] \in Request
  BY <1>1 DEF Request
<1> QED
  BY <1>2, UnusedIsRequest DEF Answer, TypeOK

\* The types, and that the editor holds a text while a file is open, and so does a
\* save and a successful answer.
TextInv ==
    /\ TypeOK
    /\ currentPath # None => text \in Text
    /\ \A r \in Requests :
        /\ request[r].kind = "save" /\ request[r].stage = "sent" => request[r].text \in Text
        /\ request[r].stage = "ok" => request[r].text \in Text

IInv == TextInv /\ PairedInv

LEMMA PathsAreNotNone == \A p \in Paths : p # None
  BY EditorAssumption

LEMMA Sending ==
  ASSUME IInv, NEW r \in Requests, NEW kind \in {"open", "save"}, NEW p \in Paths,
         NEW t \in Text \cup {None}, Send(r, kind, p, t),
         kind = "save" => t \in Text /\ t.of = p,
         UNCHANGED <<currentPath, text, file>>, dirty' \in BOOLEAN, canSave' \in BOOLEAN,
         hasty' \in BOOLEAN
  PROVE  IInv'
<1>1. request' \in [Requests -> Request]
  BY SendTyped DEF IInv, TextInv
<1>2. /\ request'[r] = [kind |-> kind, path |-> p, text |-> t, stage |-> "sent",
                        orphan |-> FALSE]
      /\ \A q \in Requests : q # r => request'[q] = request[q]
  BY DEF Send, IInv, TextInv, TypeOK
<1>3. TypeOK'
  BY <1>1, <1>2 DEF IInv, TextInv, TypeOK
<1> QED
  BY <1>2, <1>3 DEF IInv, TextInv, TypeOK, PairedInv, FilesKeepTheirText

\* The page takes an answer, or throws it away.
LEMMA Taking ==
  ASSUME IInv, NEW r \in Requests, Forget(r),
         \/ UNCHANGED <<currentPath, text>>
         \/ /\ currentPath' \in Paths /\ text' \in Text /\ text'.of = currentPath',
         UNCHANGED file, dirty' \in BOOLEAN, canSave' \in BOOLEAN, hasty' \in BOOLEAN
  PROVE  IInv'
<1>1. /\ request' \in [Requests -> Request] /\ request'[r] = Unused
      /\ \A q \in Requests : q # r => request'[q] = request[q]
  BY UnusedIsRequest DEF Forget, IInv, TextInv, TypeOK
<1>2. TypeOK'
  BY <1>1 DEF IInv, TextInv, TypeOK, Unused
<1> QED
  BY <1>1, <1>2 DEF IInv, TextInv, PairedInv, FilesKeepTheirText, Unused

\* The agent, or what stands between, answers.
LEMMA Answering ==
  ASSUME IInv, NEW r \in Requests, request[r].stage = "sent",
         NEW stage \in {"ok", "error"}, NEW t \in Text \cup {None}, Answer(r, stage, t),
         stage = "ok" => t \in Text /\ t.of = request[r].path,
         \/ UNCHANGED file
         \/ /\ request[r].kind = "save"
            /\ \E w \in BOOLEAN :
                  file' = [file EXCEPT ![request[r].path] =
                              [request[r].text EXCEPT !.whole = w]],
         UNCHANGED <<page, hasty>>
  PROVE  IInv'
<1>1. request' \in [Requests -> Request]
  BY AnswerTyped DEF IInv, TextInv
<1>2. /\ \/ request'[r] = Unused
         \/ request'[r] = [request[r] EXCEPT !.stage = stage, !.text = t]
      /\ \A q \in Requests : q # r => request'[q] = request[q]
  BY DEF Answer, IInv, TextInv, TypeOK
<1>3. request[r] \in Request /\ request[r].path \in Paths
  BY DEF IInv, TextInv, TypeOK
<1>4. file' \in [Paths -> Text] /\ \A p \in Paths : file'[p].of = p
  <2>1. CASE UNCHANGED file
    BY <2>1 DEF IInv, TextInv, TypeOK, PairedInv, FilesKeepTheirText
  <2>2. ASSUME NEW w \in BOOLEAN, request[r].kind = "save",
               file' = [file EXCEPT ![request[r].path] = [request[r].text EXCEPT !.whole = w]]
        PROVE  file' \in [Paths -> Text] /\ \A p \in Paths : file'[p].of = p
    <3>1. /\ request[r].text \in Text /\ request[r].text.of = request[r].path
      BY <2>2 DEF IInv, TextInv, PairedInv, FilesKeepTheirText
    <3>2. /\ [request[r].text EXCEPT !.whole = w] \in Text
          /\ [request[r].text EXCEPT !.whole = w].of = request[r].path
      BY <3>1 DEF Text
    <3> QED
      BY <2>2, <3>2, <1>3 DEF IInv, TextInv, TypeOK, PairedInv, FilesKeepTheirText
  <2> QED
    BY <2>1, <2>2
<1>5. \A q \in Requests :
        /\ request'[q].stage # "free" => request'[q].path \in Paths
        /\ request'[q].kind = "save" /\ request'[q].stage = "sent"
               => request'[q].text \in Text /\ request'[q].text.of = request'[q].path
        /\ request'[q].stage = "ok"
               => request'[q].text \in Text /\ request'[q].text.of = request'[q].path
  <2>1. CASE request'[r] = Unused
    BY <2>1, <1>2 DEF IInv, TextInv, TypeOK, PairedInv, FilesKeepTheirText, Unused
  <2>2. CASE request'[r] = [request[r] EXCEPT !.stage = stage, !.text = t]
    <3>1. /\ request'[r].stage = stage /\ request'[r].text = t
          /\ request'[r].path = request[r].path
      BY <2>2, <1>3 DEF Request
    <3> QED
      BY <3>1, <1>2, <1>3 DEF IInv, TextInv, TypeOK, PairedInv, FilesKeepTheirText
  <2> QED
    BY <1>2, <2>1, <2>2
<1>6. TypeOK'
  BY <1>1, <1>4, <1>5 DEF IInv, TextInv, TypeOK, page
<1> QED
  BY <1>4, <1>5, <1>6 DEF IInv, TextInv, PairedInv, FilesKeepTheirText, page

LEMMA StepKeeps == IInv /\ [Next]_vars => IInv'
<1> SUFFICES ASSUME IInv, [Next]_vars PROVE IInv'
  OBVIOUS
<1>1. CASE UNCHANGED vars
  BY <1>1 DEF vars, page, IInv, TextInv, TypeOK, PairedInv, FilesKeepTheirText
<1>2. CASE Edit
  <2>1. /\ text \in Text /\ text.edits < MaxEdits /\ text.of = currentPath
        /\ text' = [text EXCEPT !.edits = @ + 1]
    BY <1>2 DEF Edit, IInv, TextInv, PairedInv
  <2>2. text' \in Text /\ text'.of = currentPath
    BY <2>1, EditorAssumption DEF Text
  <2> QED
    BY <1>2, <2>2 DEF Edit, IInv, TextInv, TypeOK, PairedInv, FilesKeepTheirText
<1>3. CASE Reload
  <2>1. /\ currentPath' = None /\ text' = None /\ dirty' \in BOOLEAN /\ canSave' \in BOOLEAN
        /\ file' = file /\ hasty' \in BOOLEAN
    BY <1>3 DEF Reload, NewPage
  <2>2. \A r \in Requests :
          /\ request[r] \in Request
          /\ \/ request'[r] = Unused
             \/ /\ request[r].stage = "sent"
                /\ request'[r] = [request[r] EXCEPT !.orphan = TRUE]
    BY <1>3 DEF Reload, IInv, TextInv, TypeOK
  <2>3. request' \in [Requests -> Request]
    <3>1. \A r \in Requests : request'[r] \in Request
      BY <2>2, UnusedIsRequest DEF Request
    <3> QED
      BY <3>1, <1>3 DEF Reload
  <2>4. \A r \in Requests :
          /\ request'[r].stage # "free" => request'[r].path \in Paths
          /\ request'[r].kind = "save" /\ request'[r].stage = "sent"
                 => request'[r].text \in Text /\ request'[r].text.of = request'[r].path
          /\ request'[r].stage # "ok"
    <3> SUFFICES ASSUME NEW r \in Requests
                 PROVE  /\ request'[r].stage # "free" => request'[r].path \in Paths
                        /\ request'[r].kind = "save" /\ request'[r].stage = "sent"
                               => /\ request'[r].text \in Text
                                  /\ request'[r].text.of = request'[r].path
                        /\ request'[r].stage # "ok"
      OBVIOUS
    <3>1. CASE request'[r] = Unused
      BY <3>1 DEF Unused
    <3>2. CASE /\ request[r].stage = "sent"
               /\ request'[r] = [request[r] EXCEPT !.orphan = TRUE]
      <4>1. /\ request'[r].stage = "sent" /\ request'[r].kind = request[r].kind
            /\ request'[r].path = request[r].path /\ request'[r].text = request[r].text
        BY <3>2, <2>2 DEF Request
      <4> QED
        BY <4>1, <3>2 DEF IInv, TextInv, TypeOK, PairedInv, FilesKeepTheirText
    <3> QED
      BY <2>2, <3>1, <3>2
  <2>5. TypeOK'
    BY <2>1, <2>3, <2>4 DEF IInv, TextInv, TypeOK
  <2> QED
    BY <2>1, <2>4, <2>5 DEF IInv, TextInv, PairedInv, FilesKeepTheirText
<1>4. ASSUME NEW r \in Requests, NEW p \in Paths, OpenFile(r, p) PROVE IInv'
  <2>1. hasty' \in BOOLEAN /\ UNCHANGED <<currentPath, text, file, dirty, canSave>>
    BY <1>4 DEF OpenFile, page
  <2>2. dirty \in BOOLEAN /\ canSave \in BOOLEAN
    BY DEF IInv, TextInv, TypeOK
  <2> QED
    BY <1>4, <2>1, <2>2, Sending DEF OpenFile
<1>5. ASSUME NEW r \in Requests, SaveFile(r) PROVE IInv'
  <2>1. /\ currentPath \in Paths /\ text \in Text /\ text.of = currentPath
    BY <1>5 DEF SaveFile, IInv, TextInv, TypeOK, PairedInv
  <2>2. /\ hasty' \in BOOLEAN /\ dirty' \in BOOLEAN /\ canSave' \in BOOLEAN
        /\ UNCHANGED <<currentPath, text, file>>
    BY <1>5 DEF SaveFile, IInv, TextInv, TypeOK
  <2> QED
    BY <1>5, <2>1, <2>2, Sending DEF SaveFile
<1>6. ASSUME NEW r \in Requests, Opened(r) PROVE IInv'
  <2>1. /\ request[r].stage = "ok" /\ Forget(r) /\ file' = file /\ hasty' = hasty
        /\ currentPath' = request[r].path /\ dirty' = FALSE /\ canSave' = TRUE
        /\ text' = IF currentPath = request[r].path THEN text ELSE request[r].text
    BY <1>6 DEF Opened, Answered
  <2>2. /\ currentPath' \in Paths
        /\ request[r].text \in Text /\ request[r].text.of = request[r].path
    BY <2>1 DEF IInv, TextInv, TypeOK, PairedInv
  <2>3. text' \in Text /\ text'.of = currentPath'
    BY <2>1, <2>2, PathsAreNotNone DEF IInv, TextInv, PairedInv
  <2>4. hasty' \in BOOLEAN
    BY <2>1 DEF IInv, TextInv, TypeOK
  <2> QED
    BY <2>1, <2>2, <2>3, <2>4, Taking
<1>7. ASSUME NEW r \in Requests, OpenFailed(r) \/ Saved(r) \/ SaveFailed(r) PROVE IInv'
  <2>1. /\ Forget(r) /\ UNCHANGED <<currentPath, text, file, hasty>>
        /\ dirty' \in {dirty, FALSE} /\ canSave' \in {canSave, TRUE}
    BY <1>7 DEF OpenFailed, Saved, SaveFailed, Answered, page
  <2>2. dirty' \in BOOLEAN /\ canSave' \in BOOLEAN /\ hasty' \in BOOLEAN
    BY <2>1 DEF IInv, TextInv, TypeOK
  <2> QED
    BY <2>1, <2>2, Taking
<1>8. ASSUME NEW r \in Requests, GetFile(r) PROVE IInv'
  <2>1. /\ request[r].stage = "sent" /\ Answer(r, "ok", file[request[r].path])
        /\ UNCHANGED <<page, file, hasty>>
    BY <1>8 DEF GetFile
  <2>2. request[r].path \in Paths
    BY <2>1 DEF IInv, TextInv, TypeOK
  <2>3. /\ file[request[r].path] \in Text
        /\ file[request[r].path].of = request[r].path
    BY <2>2 DEF IInv, TextInv, TypeOK, PairedInv, FilesKeepTheirText
  <2> QED
    BY <2>1, <2>3, Answering
<1>9. ASSUME NEW r \in Requests, PutFile(r) \/ PutFileFails(r) \/ AnswerLost(r) PROVE IInv'
  <2>1. /\ request[r].stage = "sent" /\ request[r].kind = "save" /\ UNCHANGED <<page, hasty>>
    BY <1>9 DEF PutFile, PutFileFails, AnswerLost
  <2>2. request[r].text \in Text /\ request[r].text.of = request[r].path
    BY <2>1 DEF IInv, TextInv, PairedInv, FilesKeepTheirText
  <2>3. /\ request[r].text.whole \in BOOLEAN
        /\ request[r].text = [request[r].text EXCEPT !.whole = request[r].text.whole]
    BY <2>2 DEF Text
  <2>4. \E w \in BOOLEAN : file' = [file EXCEPT ![request[r].path] =
                                       [request[r].text EXCEPT !.whole = w]]
    BY <1>9, <2>3 DEF PutFile, PutFileFails, AnswerLost
  <2>5. PICK stage \in {"ok", "error"} : Answer(r, stage, request[r].text)
    BY <1>9 DEF PutFile, PutFileFails, AnswerLost
  <2> QED
    BY <2>1, <2>2, <2>4, <2>5, Answering
<1>10. ASSUME NEW r \in Requests, RequestFails(r) PROVE IInv'
  <2>1. request[r].text \in Text \cup {None}
    BY DEF IInv, TextInv, TypeOK, Request
  <2> QED
    BY <1>10, <2>1, Answering DEF RequestFails
<1> QED
  BY <1>1, <1>2, <1>3, <1>4, <1>5, <1>6, <1>7, <1>8, <1>9, <1>10 DEF Next

LEMMA StartKeeps == Init => IInv
<1> SUFFICES ASSUME Init PROVE IInv
  OBVIOUS
<1>1. \A p \in Paths : Original(p) \in Text /\ Original(p).of = p
  BY EditorAssumption DEF Original, Text
<1>2. TypeOK
  BY <1>1, UnusedIsRequest DEF Init, TypeOK, Unused
<1> QED
  BY <1>1, <1>2 DEF Init, IInv, TextInv, PairedInv, FilesKeepTheirText, Unused

LEMMA TextsArePaired == Spec => []IInv
  BY StartKeeps, StepKeeps, PTL DEF Spec

\* Every variable keeps its type.
THEOREM TypeCorrect == Spec => []TypeOK
  BY TextsArePaired, PTL DEF IInv, TextInv

\* However many files are opened and saved at a time, in whatever order the answers
\* come and whatever fails, no file gets the text of another one.
THEOREM TextsStayHome == Spec => []FilesKeepTheirText
  BY TextsArePaired, PTL DEF IInv, PairedInv

-----------------------------------------------------------------------------
(* The Save button.                                                        *)

Saving(r) ==
    request[r].kind = "save" /\ ~request[r].orphan /\ request[r].stage # "free"

\* A step that leaves the page alone and keeps the saves that are under way.
LEMMA ButtonKept ==
  ASSUME ButtonComesBack, currentPath' = currentPath, canSave' = canSave,
         \A r \in Requests : Saving(r) => Saving(r)'
  PROVE  ButtonComesBack'
  BY DEF ButtonComesBack, Saving

\* Sending leaves the other requests alone, and so does taking an answer.
LEMMA SentOne ==
  ASSUME TypeOK, NEW r \in Requests, NEW kind, NEW p, NEW t, Send(r, kind, p, t)
  PROVE  /\ request[r] = Unused
         /\ request'[r].kind = kind /\ request'[r].path = p /\ request'[r].text = t
         /\ request'[r].stage = "sent" /\ ~request'[r].orphan
         /\ \A q \in Requests : q # r => request'[q] = request[q]
<1>1. /\ request[r] = Unused
      /\ request'[r] = [kind |-> kind, path |-> p, text |-> t, stage |-> "sent",
                        orphan |-> FALSE]
      /\ \A q \in Requests : q # r => request'[q] = request[q]
  BY DEF Send, TypeOK
<1> QED
  BY <1>1

LEMMA TookOne ==
  ASSUME TypeOK, NEW r \in Requests, Forget(r)
  PROVE  /\ request'[r] = Unused
         /\ \A q \in Requests : q # r => request'[q] = request[q]
  BY DEF Forget, TypeOK

LEMMA AnsweredOne ==
  ASSUME TypeOK, NEW r \in Requests, NEW stage, NEW t, Answer(r, stage, t)
  PROVE  /\ request[r].orphan => request'[r] = Unused
         /\ ~request[r].orphan =>
                /\ request'[r].kind = request[r].kind /\ request'[r].path = request[r].path
                /\ request'[r].text = t
                /\ request'[r].stage = stage /\ ~request'[r].orphan
         /\ \A q \in Requests : q # r => request'[q] = request[q]
<1>1. /\ request'[r] = IF request[r].orphan THEN Unused
                       ELSE [request[r] EXCEPT !.stage = stage, !.text = t]
      /\ \A q \in Requests : q # r => request'[q] = request[q]
  BY DEF Answer, TypeOK
<1>2. request[r] \in Request
  BY DEF TypeOK
<1> QED
  BY <1>1, <1>2 DEF Request

\* The answers to a request: of a save or not, to a page that is there or is gone.
Served(r) ==
    GetFile(r) \/ PutFile(r) \/ PutFileFails(r) \/ RequestFails(r) \/ AnswerLost(r)

LEMMA ServedOne ==
  ASSUME TypeOK, NEW r \in Requests, Served(r)
  PROVE  /\ UNCHANGED <<page, hasty>> /\ request[r].stage = "sent"
         /\ \E stage \in {"ok", "error"} : \E t : Answer(r, stage, t)
  BY DEF Served, GetFile, PutFile, PutFileFails, RequestFails, AnswerLost

LEMMA ButtonStep == TypeOK /\ ButtonComesBack /\ [Next]_vars => ButtonComesBack'
<1> SUFFICES ASSUME TypeOK, ButtonComesBack, [Next]_vars PROVE ButtonComesBack'
  OBVIOUS
<1>1. CASE UNCHANGED vars
  BY <1>1 DEF vars, page, ButtonComesBack
<1>2. CASE Edit
  BY <1>2 DEF Edit, ButtonComesBack
<1>3. CASE Reload
  BY <1>3 DEF Reload, NewPage, ButtonComesBack
<1>4. ASSUME NEW r \in Requests, NEW p \in Paths, OpenFile(r, p) PROVE ButtonComesBack'
  <2>1. Send(r, "open", p, None) /\ currentPath' = currentPath /\ canSave' = canSave
    BY <1>4 DEF OpenFile, page
  <2>2. \A q \in Requests : Saving(q) => Saving(q)'
    BY <2>1, SentOne DEF Saving, Unused
  <2> QED
    BY <2>1, <2>2, ButtonKept
<1>5. ASSUME NEW r \in Requests, SaveFile(r) PROVE ButtonComesBack'
  <2>1. Saving(r)'
    BY <1>5, SentOne DEF SaveFile, Saving
  <2> QED
    BY <2>1 DEF ButtonComesBack, Saving
<1>6. ASSUME NEW r \in Requests, Opened(r) \/ Saved(r) \/ SaveFailed(r)
      PROVE  ButtonComesBack'
  BY <1>6 DEF Opened, Saved, SaveFailed, ButtonComesBack
<1>7. ASSUME NEW r \in Requests, OpenFailed(r) PROVE ButtonComesBack'
  <2>1. /\ request[r].kind = "open" /\ Forget(r)
        /\ currentPath' = currentPath /\ canSave' = canSave
    BY <1>7 DEF OpenFailed, Answered, page
  <2>2. \A q \in Requests : Saving(q) => Saving(q)'
    BY <2>1, TookOne DEF Saving
  <2> QED
    BY <2>1, <2>2, ButtonKept
<1>8. ASSUME NEW r \in Requests, Served(r) PROVE ButtonComesBack'
  <2>1. /\ currentPath' = currentPath /\ canSave' = canSave
        /\ request[r] \in Request
    BY <1>8, ServedOne DEF page, TypeOK
  <2>2. PICK stage \in {"ok", "error"} : \E t : Answer(r, stage, t)
    BY <1>8, ServedOne
  <2>3. Saving(r) => Saving(r)'
    BY <2>2, AnsweredOne DEF Saving
  <2>4. \A q \in Requests : Saving(q) => Saving(q)'
    BY <2>2, <2>3, AnsweredOne DEF Saving
  <2> QED
    BY <2>1, <2>4, ButtonKept
<1> QED
  BY <1>1, <1>2, <1>3, <1>4, <1>5, <1>6, <1>7, <1>8 DEF Next, Served

\* With a file open, the Save button is disabled only while a save is under way, also
\* after one that failed.
THEOREM ButtonReturns == Spec => []ButtonComesBack
<1>1. Init => ButtonComesBack
  BY DEF Init, ButtonComesBack
<1> QED
  BY <1>1, ButtonStep, TypeCorrect, PTL DEF Spec

-----------------------------------------------------------------------------
(* The unsaved mark.                                                       *)

Used(r) == request[r] # Unused

\* With one request at a time: a save is of the text in the editor, which is marked, and
\* what was read is what is still on the disk.
PatientInv ==
    /\ \A r \in Requests : Used(r) => request[r].stage # "free"
    /\ ~hasty =>
        /\ \A r, q \in Requests : Used(r) /\ Used(q) => r = q
        /\ \A r \in Requests : Used(r) => ~request[r].orphan
        /\ currentPath # None /\ ~dirty => file[currentPath] = text
        /\ \A r \in Requests : Used(r) /\ request[r].kind = "save" =>
            /\ currentPath # None /\ dirty
            /\ request[r].path = currentPath /\ request[r].text = text
            /\ request[r].stage = "ok" => file[currentPath] = text
        /\ \A r \in Requests : Used(r) /\ request[r].kind = "open" =>
            /\ request[r].path # currentPath
            /\ request[r].stage = "ok" => request[r].text = file[request[r].path]

LEMMA PatientStep == TypeOK /\ PatientInv /\ [Next]_vars => PatientInv'
<1> SUFFICES ASSUME TypeOK, PatientInv, [Next]_vars PROVE PatientInv'
  OBVIOUS
<1> USE DEF Used
<1>0. Unused.stage = "free" /\ Unused.kind = "open"
  BY DEF Unused
<1>1. CASE UNCHANGED vars
  BY <1>1 DEF vars, page, PatientInv
<1>2. CASE Edit
  <2>1. /\ currentPath' = currentPath /\ request' = request /\ file' = file
        /\ dirty' = TRUE
        /\ ~hasty' => ~hasty /\ \A r \in Requests : request[r] = Unused
    BY <1>2 DEF Edit, Waiting
  <2> QED
    BY <2>1 DEF PatientInv
<1>3. CASE Reload
  <2>1. currentPath' = None /\ \A r \in Requests : request[r] \in Request
    BY <1>3 DEF Reload, NewPage, TypeOK
  <2>2. \A r \in Requests : request'[r] # Unused => /\ request[r].stage = "sent"
                                                    /\ request'[r].stage = "sent"
    BY <1>3, <2>1 DEF Reload, Request
  <2>3. ~hasty' => \A r \in Requests : request'[r] = Unused
    BY <1>3, <2>2 DEF Reload
  <2> QED
    BY <2>1, <2>2, <2>3 DEF PatientInv
<1>4. ASSUME NEW r \in Requests, NEW p \in Paths, OpenFile(r, p) PROVE PatientInv'
  <2>1. /\ Send(r, "open", p, None) /\ UNCHANGED <<page, file>>
        /\ ~hasty' => ~hasty /\ p # currentPath /\ \A q \in Requests : request[q] = Unused
    BY <1>4 DEF OpenFile, Waiting
  <2>2. /\ request'[r].stage = "sent" /\ request'[r].kind = "open" /\ request'[r].path = p
        /\ ~request'[r].orphan
        /\ \A q \in Requests : q # r => request'[q] = request[q]
    BY <2>1, SentOne
  <2> QED
    BY <2>1, <2>2 DEF PatientInv, page
<1>5. ASSUME NEW r \in Requests, SaveFile(r) PROVE PatientInv'
  <2>1. /\ currentPath # None /\ Send(r, "save", currentPath, text)
        /\ UNCHANGED <<currentPath, dirty, text, file>>
        /\ ~hasty' => ~hasty /\ dirty /\ \A q \in Requests : request[q] = Unused
    BY <1>5 DEF SaveFile, Waiting
  <2>2. /\ request'[r].stage = "sent" /\ request'[r].kind = "save"
        /\ request'[r].path = currentPath /\ request'[r].text = text
        /\ ~request'[r].orphan
        /\ \A q \in Requests : q # r => request'[q] = request[q]
    BY <2>1, SentOne
  <2> QED
    BY <2>1, <2>2 DEF PatientInv
<1>6. ASSUME NEW r \in Requests, Opened(r) PROVE PatientInv'
  <2>1. /\ request[r].kind = "open" /\ request[r].stage = "ok" /\ Forget(r)
        /\ currentPath' = request[r].path /\ dirty' = FALSE
        /\ text' = IF currentPath = request[r].path THEN text ELSE request[r].text
        /\ file' = file /\ hasty' = hasty
    BY <1>6 DEF Opened, Answered
  <2>2. request'[r] = Unused /\ \A q \in Requests : q # r => request'[q] = request[q]
    BY <2>1, TookOne
  <2>3. request[r] # Unused
    BY <1>0, <2>1
  <2>4. ~hasty => /\ \A q \in Requests : request'[q] = Unused
                  /\ text' = file[request[r].path]
    BY <2>1, <2>2, <2>3 DEF PatientInv
  <2> QED
    BY <2>1, <2>2, <2>4 DEF PatientInv
<1>7. ASSUME NEW r \in Requests, OpenFailed(r) \/ Saved(r) \/ SaveFailed(r)
      PROVE  PatientInv'
  <2>1. /\ request[r].stage # "free" /\ Forget(r)
        /\ UNCHANGED <<currentPath, text, file, hasty>>
        /\ \/ dirty' = dirty
           \/ dirty' = FALSE /\ request[r].kind = "save" /\ request[r].stage = "ok"
    BY <1>7 DEF OpenFailed, Saved, SaveFailed, Answered, page
  <2>2. request'[r] = Unused /\ \A q \in Requests : q # r => request'[q] = request[q]
    BY <2>1, TookOne
  <2>3. request[r] # Unused
    BY <1>0, <2>1
  <2>4. ~hasty => \A q \in Requests : request'[q] = Unused
    BY <2>2, <2>3 DEF PatientInv
  <2>5. ~hasty /\ dirty' # dirty => file[currentPath] = text
    BY <2>1, <2>3 DEF PatientInv
  <2> QED
    BY <2>1, <2>2, <2>4, <2>5 DEF PatientInv
<1>8. ASSUME NEW r \in Requests, Served(r) PROVE PatientInv'
  <2>1. /\ UNCHANGED <<currentPath, dirty, text, hasty>> /\ request[r].stage = "sent"
        /\ request[r] \in Request /\ request[r] # Unused
    BY <1>0, <1>8, ServedOne DEF page, TypeOK
  <2>2. \A q \in Requests : q # r => request'[q] = request[q]
    BY <1>8, ServedOne, AnsweredOne
  <2>3. request'[r] # Unused => request'[r].stage \in {"ok", "error"}
    <3>1. PICK stage \in {"ok", "error"} : \E t : Answer(r, stage, t)
      BY <1>8, ServedOne
    <3> QED
      BY <3>1, AnsweredOne
  <2>4. ASSUME ~hasty, request[r].kind = "save" PROVE PatientInv'
    <3>1. /\ currentPath # None /\ dirty /\ ~request[r].orphan
          /\ request[r].path = currentPath /\ request[r].text = text
          /\ \A q \in Requests : q # r => request'[q] = Unused
      BY <2>1, <2>2, <2>4 DEF PatientInv
    <3>2. PICK stage \in {"ok", "error"} :
            /\ Answer(r, stage, text)
            /\ stage = "ok" => file' = [file EXCEPT ![currentPath] = text]
      BY <1>8, <2>4, <3>1
      DEF Served, GetFile, PutFile, PutFileFails, RequestFails, AnswerLost
    <3>3. /\ request'[r].kind = "save" /\ request'[r].path = currentPath
          /\ request'[r].text = text /\ ~request'[r].orphan
          /\ request'[r].stage \in {"ok", "error"}
      BY <2>4, <3>1, <3>2, AnsweredOne
    <3>4. request'[r].stage = "ok" => file'[currentPath] = text
      <4>1. currentPath \in Paths
        BY <3>1 DEF TypeOK
      <4> QED
        BY <3>1, <3>2, <4>1, AnsweredOne DEF TypeOK
    <3> QED
      BY <2>1, <3>1, <3>3, <3>4 DEF PatientInv
  <2>5. ASSUME ~hasty, request[r].kind = "open" PROVE PatientInv'
    <3>1. /\ ~request[r].orphan /\ request[r].path # currentPath
          /\ \A q \in Requests : q # r => request'[q] = Unused
          /\ currentPath # None /\ ~dirty => file[currentPath] = text
      BY <2>1, <2>2, <2>5 DEF PatientInv
    <3>2. /\ file' = file
          /\ \E stage \in {"ok", "error"} : \E t :
                Answer(r, stage, t) /\ (stage = "ok" => t = file[request[r].path])
      BY <1>8, <2>5
      DEF Served, GetFile, PutFile, PutFileFails, RequestFails, AnswerLost
    <3>3. /\ request'[r].kind = "open" /\ request'[r].path = request[r].path
          /\ ~request'[r].orphan /\ request'[r].stage \in {"ok", "error"}
          /\ request'[r].stage = "ok" => request'[r].text = file[request[r].path]
      BY <2>5, <3>1, <3>2, AnsweredOne
    <3> QED
      BY <2>1, <3>1, <3>2, <3>3 DEF PatientInv
  <2>6. CASE hasty
    BY <2>1, <2>2, <2>3, <2>6 DEF PatientInv
  <2> QED
    BY <2>1, <2>4, <2>5, <2>6 DEF Request
<1> QED
  BY <1>1, <1>2, <1>3, <1>4, <1>5, <1>6, <1>7, <1>8 DEF Next, Served

\* Being patient, and what it keeps, is invariant.
LEMMA PatientIsInvariant == Spec => []PatientInv
<1>1. Init => PatientInv
  BY DEF Init, PatientInv, Used
<1> QED
  BY <1>1, PatientStep, TypeCorrect, PTL DEF Spec

\* For a learner who waits for every answer, does not open the file that is open and
\* saves only changes, what is not marked as unsaved is on the disk, whatever has failed.
THEOREM UnmarkedIsOnDisk == Spec => []UnmarkedIsSaved
<1>1. PatientInv => UnmarkedIsSaved
  BY DEF PatientInv, UnmarkedIsSaved
<1> QED
  BY <1>1, PatientIsInvariant, PTL

-----------------------------------------------------------------------------
(* The page.                                                               *)

\* Whatever happens in the tree and in the bar, opening, editing and saving go on as
\* without them: what holds of Editor holds of the page.
THEOREM PageIsEditor == IDESpec => Spec
<1>1. IDEInit => Init
  BY DEF IDEInit
<1>2. [IDENext]_ideVars => [Next]_vars
  <2> SUFFICES ASSUME [IDENext]_ideVars PROVE [Next]_vars
    OBVIOUS
  <2>1. CASE TreeStep /\ UNCHANGED <<vars, bar>>
    BY <2>1
  <2>2. CASE Change \/ ReloadPage
    BY <2>2 DEF Change, ReloadPage, Next
  <2>3. ASSUME NEW r \in Requests, NEW i \in DOMAIN items, ClickFile(r, i) PROVE Next
    BY <2>3 DEF ClickFile, Next
  <2>4. ASSUME NEW r \in Requests, ShowFile(r) \/ ShowSaved(r) PROVE Next
    BY <2>4 DEF ShowFile, ShowSaved, Next
  <2>5. ASSUME NEW r \in Requests, EditorStep(r) PROVE Next
    BY <2>5 DEF EditorStep, Next
  <2>6. CASE UNCHANGED ideVars
    BY <2>6 DEF ideVars
  <2> QED
    BY <2>1, <2>2, <2>3, <2>4, <2>5, <2>6 DEF IDENext
<1> QED
  BY <1>1, <1>2, PTL DEF IDESpec, Spec

\* The bar names the open file, and shows it as unsaved when it counts as unsaved; for a
\* learner who waits for every answer and does not open the file that is open, it does
\* so only then.
THEOREM BarIsTrue == IDESpec => []MarkIsShown
<1>1. IDEInit => MarkIsShown
  <2> SUFFICES ASSUME IDEInit PROVE MarkIsShown
    OBVIOUS
  <2>1. bar.path = None /\ bar.dirty = FALSE /\ currentPath = None /\ dirty = FALSE
    BY DEF IDEInit, Init, NoFile
  <2> QED
    BY <2>1 DEF MarkIsShown
<1>2. PatientInv /\ MarkIsShown /\ [IDENext]_ideVars => MarkIsShown'
  <2> SUFFICES ASSUME PatientInv, MarkIsShown, [IDENext]_ideVars PROVE MarkIsShown'
    OBVIOUS
  <2>1. CASE UNCHANGED <<vars, bar>>
    BY <2>1 DEF vars, page, MarkIsShown
  <2>2. CASE UpdateBar
    BY <2>2 DEF UpdateBar, MarkIsShown
  <2>3. CASE UNCHANGED <<currentPath, dirty, bar>> /\ (hasty => hasty')
    BY <2>3 DEF MarkIsShown
  <2>4. CASE Change
    <3>1. CASE dirty
      BY <2>4, <3>1 DEF Change, Edit, MarkIsShown
    <3>2. CASE ~dirty
      BY <2>4, <3>2, <2>2 DEF Change
    <3> QED
      BY <3>1, <3>2
  <2>5. CASE ReloadPage
    BY <2>5 DEF ReloadPage, Reload, NewPage, NoFile, MarkIsShown
  <2>6. ASSUME NEW r \in Requests, NEW i \in DOMAIN items, ClickFile(r, i)
        PROVE  MarkIsShown'
    BY <2>6, <2>3 DEF ClickFile, OpenFile, page
  <2>7. ASSUME NEW r \in Requests, ShowFile(r) \/ ShowSaved(r) PROVE MarkIsShown'
    <3>1. CASE ShowFile(r) /\ request[r].path = currentPath
      <4>1. /\ request[r].kind = "open" /\ request[r].stage = "ok"
            /\ currentPath' = currentPath /\ bar' = bar /\ hasty' = hasty /\ dirty' = FALSE
        BY <3>1 DEF ShowFile, Opened, Answered
      <4>2. hasty
        BY <3>1, <4>1 DEF PatientInv, Used, Unused
      <4> QED
        BY <4>1, <4>2 DEF MarkIsShown
    <3> QED
      BY <2>7, <3>1, <2>2 DEF ShowFile, ShowSaved
  <2>8. ASSUME NEW r \in Requests, EditorStep(r) PROVE MarkIsShown'
    <3>1. UNCHANGED <<currentPath, dirty, bar>> /\ (hasty => hasty')
      <4>1. CASE SaveFile(r)
        BY <2>8, <4>1 DEF EditorStep, SaveFile
      <4>2. CASE ~SaveFile(r)
        BY <2>8, <4>2
        DEF EditorStep, OpenFailed, SaveFailed, GetFile, PutFile, PutFileFails,
            RequestFails, AnswerLost, page
      <4> QED
        BY <4>1, <4>2
    <3> QED
      BY <3>1, <2>3
  <2> QED
    BY <2>1, <2>4, <2>5, <2>6, <2>7, <2>8 DEF IDENext, ideVars
<1> QED
  BY <1>1, <1>2, PatientIsInvariant, PageIsEditor, PTL DEF IDESpec

-----------------------------------------------------------------------------
(* The tree.  A load knows the item whose container it fills, and as long  *)
(* as no container is loaded twice at a time the ones that are loaded are  *)
(* empty and at most one load fills each.                                  *)

Busy(l) == load[l].stage # "free"

\* What a load under way is for.
LoadsAttached ==
    \A l \in Loads :
        IF ~Busy(l) THEN load[l] = Idle
        ELSE /\ load[l].path \in Dirs
             /\ load[l].into \notin {Top, Detached} =>
                    load[l].into \in DOMAIN items /\ items[load[l].into].path = load[l].path

OneLoadEach ==
    ~doubled =>
        \A l \in Loads : Busy(l) /\ load[l].into # Detached =>
            /\ Within(load[l].into) = {}
            /\ load[l].into = Top => load[l].path = treePath
            /\ \A m \in Loads : Busy(m) /\ load[m].into = load[l].into => m = l

\* An item is in a container of the page.
ItemsPlaced ==
    \A i \in DOMAIN items : items[i].into # Top => items[i].into \in DOMAIN items

TreeInv ==
    /\ TreeTypeOK /\ LoadsAttached /\ ItemsPlaced /\ OneLoadEach
    /\ ListedOnce /\ OwnEntries

LEMMA IdleIsLoad == Idle \in Load /\ Idle.stage = "free" /\ Top # Detached
  BY TreeAssumption DEF Idle, Load, Detached, Top

LEMMA SameLength ==
  ASSUME NEW m \in Nat, NEW n \in Nat, 1..m = 1..n
  PROVE  m = n
<1>1. CASE m < n
  <2>1. n \in 1..n /\ n \notin 1..m
    BY <1>1
  <2> QED
    BY <2>1
<1>2. CASE n < m
  <2>1. m \in 1..m /\ m \notin 1..n
    BY <1>2
  <2> QED
    BY <2>1
<1> QED
  BY <1>1, <1>2

\* The items stay where they are, whatever is opened or folded.
SameItems ==
    /\ items' \in Seq(Item) /\ Len(items') = Len(items) /\ DOMAIN items' = DOMAIN items
    /\ \A i \in DOMAIN items :
           items'[i].path = items[i].path /\ items'[i].into = items[i].into

LEMMA Toggled ==
  ASSUME TreeTypeOK, NEW i \in DOMAIN items, Toggle(i)
  PROVE  SameItems
<1>1. Len(items) \in Nat /\ items \in [1..Len(items) -> Item] /\ DOMAIN items = 1..Len(items)
  BY LenProperties DEF TreeTypeOK
<1>2. items' = [items EXCEPT ![i].open = ~@]
  BY DEF Toggle
<1>3. /\ items' \in [1..Len(items) -> Item]
      /\ \A j \in DOMAIN items :
             items'[j].path = items[j].path /\ items'[j].into = items[j].into
  BY <1>1, <1>2 DEF Item
<1>4. items' \in Seq(Item)
  BY <1>1, <1>3, SeqDef
<1>5. DOMAIN items' = 1..Len(items') /\ DOMAIN items' = 1..Len(items) /\ Len(items') \in Nat
  BY <1>1, <1>3, <1>4, LenProperties
<1>6. Len(items') = Len(items)
  BY <1>1, <1>5, SameLength
<1> QED
  BY <1>1, <1>3, <1>4, <1>5, <1>6 DEF SameItems

\* What is shown in a container is a sequence.
LEMMA ShownIsSeq ==
  ASSUME TreeTypeOK, NEW c \in {Top} \cup {i \in DOMAIN items : items[i].path \in Dirs}
  PROVE  LET S == Shown(PathOf(c), c) IN
         S \in Seq(Nodes) /\ DOMAIN S = 1..Len(S) /\ Len(S) \in Nat
<1>1. PathOf(c) \in Dirs
  BY DEF PathOf, TreeTypeOK, Top
<1>2. Shown(PathOf(c), c) \in Seq(Nodes)
  BY <1>1, TreeAssumption DEF Shown
<1> QED
  BY <1>2, LenProperties

\* What holds of the items alone is kept with them.
LEMMA ItemsKept ==
  ASSUME TreeInv, SameItems, UNCHANGED <<treePath, active>>, doubled' = FALSE => ~doubled
  PROVE  /\ ItemsPlaced' /\ OwnEntries' /\ ListedOnce'
         /\ \A c : Within(c)' = Within(c)
<1>1. \A c : Within(c)' = Within(c)
  BY DEF Within, SameItems
<1>2. ItemsPlaced' /\ OwnEntries'
  BY DEF TreeInv, ItemsPlaced, OwnEntries, SameItems
<1>3. ASSUME ~doubled', NEW c \in {Top} \cup {i \in DOMAIN items : items[i].path \in Dirs},
             Within(c)' # {}
      PROVE  \E n \in 0..Len(items') : ListedFrom(n, PathOf(c), c)'
  <2>1. PICK n \in 0..Len(items) : ListedFrom(n, PathOf(c), c)
    BY <1>1, <1>3 DEF TreeInv, ListedOnce, TreeTypeOK
  <2>2. PathOf(c)' = PathOf(c)
    BY DEF PathOf, SameItems
  <2>3. ListedFrom(n, PathOf(c), c)'
    <3> DEFINE S == Shown(PathOf(c), c)
    <3>0. c \in {Top} \cup {i \in DOMAIN items : items[i].path \in Dirs} /\ TreeTypeOK
      BY DEF TreeInv, SameItems
    <3>1. DOMAIN S = 1..Len(S) /\ Len(S) \in Nat
      BY <3>0, ShownIsSeq
    <3>2. Within(c)' = (n + 1)..(n + Len(S))
      BY <1>1, <2>1 DEF ListedFrom
    <3>3. ASSUME NEW k \in DOMAIN S PROVE items'[n + k].path = S[k]
      <4>1. n + k \in (n + 1)..(n + Len(S))
        BY <3>1
      <4>2. n + k \in DOMAIN items
        BY <2>1, <4>1 DEF ListedFrom, Within
      <4> QED
        BY <2>1, <4>2 DEF ListedFrom, SameItems
    <3> QED
      BY <2>2, <3>2, <3>3 DEF ListedFrom
  <2> QED
    BY <2>1, <2>3 DEF SameItems
<1>4. ListedOnce'
  BY <1>3 DEF ListedOnce, SameItems
<1> QED
  BY <1>1, <1>2, <1>4

\* A load that leaves the state it was in, or is over.
LEMMA LoadsKept ==
  ASSUME TreeInv, UNCHANGED <<treePath, items, active, doubled>>, NEW l \in Loads,
         Busy(l), NEW q, load' = [load EXCEPT ![l] = q],
         \/ q = Idle
         \/ \E stage \in {"ok", "error"} : q = [load[l] EXCEPT !.stage = stage]
  PROVE  TreeInv'
<1>1. load \in [Loads -> Load] /\ load[l] \in Load
  BY DEF TreeInv, TreeTypeOK
<1>2. q \in Load
  BY <1>1, IdleIsLoad DEF Load
<1>3. load' \in [Loads -> Load] /\ load'[l] = q /\ \A m \in Loads : m # l => load'[m] = load[m]
  BY <1>1, <1>2
<1>4. q # Idle => q.path = load[l].path /\ q.into = load[l].into /\ q.stage # "free"
  BY <1>1 DEF Load
<1>5. TreeTypeOK' /\ ItemsPlaced' /\ OwnEntries' /\ ListedOnce'
  <2>1. TreeTypeOK'
    BY <1>3 DEF TreeInv, TreeTypeOK
  <2>2. ItemsPlaced' /\ OwnEntries'
    BY DEF TreeInv, ItemsPlaced, OwnEntries
  <2>3. \A c, n, p : /\ Within(c)' = Within(c) /\ PathOf(c)' = PathOf(c)
                     /\ ListedFrom(n, p, c)' <=> ListedFrom(n, p, c)
    BY DEF Within, PathOf, ListedFrom
  <2>4. ListedOnce'
    BY <2>3 DEF TreeInv, ListedOnce
  <2> QED
    BY <2>1, <2>2, <2>4
<1>6. LoadsAttached'
  BY <1>3, <1>4, IdleIsLoad DEF TreeInv, LoadsAttached, Busy
<1>7. \A m \in Loads : Busy(m)' => Busy(m) /\ load'[m].into = load[m].into
                                          /\ load'[m].path = load[m].path
  BY <1>3, <1>4, IdleIsLoad DEF Busy
<1>8. OneLoadEach'
  BY <1>7 DEF TreeInv, OneLoadEach, Within
<1> QED
  BY <1>5, <1>6, <1>8 DEF TreeInv

\* navigateTo and a new page: nothing is left of the tree, and what was under way for it
\* is for containers that are no longer part of the page.
LEMMA TreeCleared ==
  ASSUME LoadsAttached, load' \in [Loads -> Load], NEW l \in Loads, NEW p \in Dirs,
         load'[l] = [path |-> p, into |-> Top, stage |-> "sent"],
         \A m \in Loads \ {l} :
             \/ load'[m] = Idle
             \/ /\ Busy(m) /\ load'[m].path = load[m].path /\ load'[m].stage # "free"
                /\ load'[m].into \in {Top, Detached},
         treePath' = p, items' = <<>>, active' = {}, doubled' \in BOOLEAN,
         ~doubled' => \A m \in Loads \ {l} : load'[m].into = Detached
  PROVE  TreeInv'
<1>1. /\ items' \in Seq(Item) /\ Len(items') = 0 /\ DOMAIN items' = {}
      /\ 0 <= MaxItems
  BY EmptySeq, LenProperties, TreeAssumption
<1>2. TreeTypeOK'
  BY <1>1 DEF TreeTypeOK
<1>3. ItemsPlaced' /\ OwnEntries'
  BY <1>1 DEF ItemsPlaced, OwnEntries
<1>4. \A c : Within(c)' = {}
  BY <1>1 DEF Within
<1>5. ListedOnce'
  BY <1>4 DEF ListedOnce
<1>6. LoadsAttached'
  BY IdleIsLoad DEF LoadsAttached, Busy
<1>7. OneLoadEach'
  BY <1>4, IdleIsLoad DEF OneLoadEach, Busy
<1> QED
  BY <1>2, <1>3, <1>5, <1>6, <1>7 DEF TreeInv

LEMMA NavigateKeeps ==
  ASSUME TreeInv, NEW l \in Loads, NEW p \in Dirs, NavigateTo(l, p)
  PROVE  TreeInv'
<1>1. load \in [Loads -> Load] /\ p \in Nodes
  BY TreeAssumption DEF TreeInv, TreeTypeOK
<1>2. \A m \in Loads : load'[m] = IF m = l THEN [path |-> p, into |-> Top, stage |-> "sent"]
                                  ELSE Detach[m]
  BY <1>1 DEF NavigateTo, Detach
<1>3. \A m \in Loads :
        /\ Detach[m].path = load[m].path /\ Detach[m].stage = load[m].stage
        /\ Detach[m].into = IF load[m].into = Top THEN Top ELSE Detached
        /\ Detach[m] \in Load
        /\ load[m] = Idle => Detach[m] = Idle
  BY <1>1, IdleIsLoad DEF Detach, Load, Idle
<1>4. [path |-> p, into |-> Top, stage |-> "sent"] \in Load
  BY <1>1, TreeAssumption DEF Load, Top, Detached
<1>5. load' \in [Loads -> Load]
  BY <1>2, <1>3, <1>4 DEF NavigateTo, Detach
<1>6. \A m \in Loads \ {l} :
        \/ load'[m] = Idle
        \/ /\ Busy(m) /\ load'[m].path = load[m].path /\ load'[m].stage # "free"
           /\ load'[m].into \in {Top, Detached}
  BY <1>2, <1>3 DEF TreeInv, LoadsAttached, Busy
<1>7. ~doubled' => \A m \in Loads \ {l} : load'[m].into = Detached
  BY <1>2, <1>3, <1>6, IdleIsLoad DEF NavigateTo, LoadingInto, Busy, Idle
<1>8. LoadsAttached /\ doubled' \in BOOLEAN
  BY DEF TreeInv, NavigateTo, LoadingInto
<1> QED
  BY <1>2, <1>5, <1>6, <1>7, <1>8, TreeCleared DEF NavigateTo

\* The page boots with one load, at the top.
LEMMA Booted == TreeInit => TreeInv
<1> SUFFICES ASSUME TreeInit PROVE TreeInv
  OBVIOUS
<1>1. PICK l \in Loads :
        load = [[k \in Loads |-> Idle] EXCEPT ![l] =
                   [path |-> Home, into |-> Top, stage |-> "sent"]]
  BY DEF TreeInit, BootLoads
<1>2. /\ load[l] = [path |-> Home, into |-> Top, stage |-> "sent"]
      /\ \A m \in Loads : m # l => load[m] = Idle
  BY <1>1
<1>3. [path |-> Home, into |-> Top, stage |-> "sent"] \in Load /\ Home \in Dirs
  BY TreeAssumption DEF Load, Top, Detached
<1>4. load \in [Loads -> Load]
  BY <1>1, <1>3, IdleIsLoad
<1>5. items = <<>> /\ items \in Seq(Item) /\ Len(items) = 0 /\ DOMAIN items = {}
  BY EmptySeq, LenProperties DEF TreeInit
<1>6. TreeTypeOK
  <2>1. 0 <= MaxItems
    BY TreeAssumption
  <2> QED
    BY <1>3, <1>4, <1>5, <2>1, Zenon DEF TreeInit, TreeTypeOK
<1>7. ItemsPlaced /\ OwnEntries /\ \A c : Within(c) = {}
  BY <1>5 DEF ItemsPlaced, OwnEntries, Within
<1>8. ListedOnce
  BY <1>7 DEF ListedOnce
<1>9. LoadsAttached
  BY <1>2, <1>3, IdleIsLoad DEF LoadsAttached, Busy
<1>10. OneLoadEach
  BY <1>2, <1>7, IdleIsLoad DEF OneLoadEach, Busy, TreeInit
<1> QED
  BY <1>6, <1>7, <1>8, <1>9, <1>10 DEF TreeInv

LEMMA RebootKeeps == ASSUME Reboot PROVE TreeInv'
<1>1. TreeInit'
  BY DEF Reboot, TreeInit, BootLoads
<1> QED
  BY <1>1, Booted, PTL

\* A click on a directory, whether it is loaded or not.
LEMMA FoldKeeps ==
  ASSUME TreeInv, NEW i \in DOMAIN items, Fold(i)
  PROVE  TreeInv'
<1>1. SameItems /\ UNCHANGED <<treePath, active, load, doubled>>
  BY Toggled DEF TreeInv, Fold, Toggle
<1>2. ItemsPlaced' /\ OwnEntries' /\ ListedOnce' /\ \A c : Within(c)' = Within(c)
  BY <1>1, ItemsKept
<1>3. TreeTypeOK'
  BY <1>1 DEF TreeInv, TreeTypeOK, SameItems
<1>4. LoadsAttached'
  BY <1>1 DEF TreeInv, LoadsAttached, Busy, SameItems
<1>5. OneLoadEach'
  BY <1>1, <1>2 DEF TreeInv, OneLoadEach, Busy
<1> QED
  BY <1>2, <1>3, <1>4, <1>5 DEF TreeInv

LEMMA ExpandKeeps ==
  ASSUME TreeInv, NEW l \in Loads, NEW i \in DOMAIN items, Expand(l, i)
  PROVE  TreeInv'
<1> DEFINE q == [path |-> items[i].path, into |-> i, stage |-> "sent"]
<1>1. SameItems /\ UNCHANGED <<treePath, active>> /\ Within(i) = {}
  BY Toggled DEF TreeInv, Expand, Toggle, Expands
<1>2. doubled' = (doubled \/ LoadingInto(i)) /\ doubled' \in BOOLEAN
  BY DEF Expand, TreeInv, TreeTypeOK, LoadingInto
<1>3. ItemsPlaced' /\ OwnEntries' /\ ListedOnce' /\ \A c : Within(c)' = Within(c)
  BY <1>1, <1>2, ItemsKept
<1>4. i \in 1..MaxItems /\ i \notin {Top, Detached} /\ items[i].path \in Dirs
  BY LenProperties, TreeAssumption DEF TreeInv, TreeTypeOK, Top, Detached, Expand, Toggle
<1>5. q \in Load
  BY <1>4, TreeAssumption DEF Load, Detached
<1>6. /\ load' \in [Loads -> Load] /\ load'[l] = q
      /\ \A m \in Loads : m # l => load'[m] = load[m]
  BY <1>5 DEF TreeInv, TreeTypeOK, Expand, LoadTree
<1>7. TreeTypeOK'
  BY <1>1, <1>2, <1>6 DEF TreeInv, TreeTypeOK, SameItems
<1>8. LoadsAttached'
  BY <1>1, <1>4, <1>6 DEF TreeInv, LoadsAttached, Busy, SameItems
<1>9. OneLoadEach'
  <2> SUFFICES ASSUME ~doubled' PROVE OneLoadEach'
    BY DEF OneLoadEach
  <2>1. ~doubled /\ \A m \in Loads : Busy(m) => load[m].into # i
    BY <1>2 DEF LoadingInto, Busy
  <2>2. Busy(l)' /\ \A m \in Loads : m # l => (Busy(m)' <=> Busy(m))
    BY <1>6 DEF Busy
  <2> QED
    BY <1>1, <1>3, <1>4, <1>6, <2>1, <2>2 DEF TreeInv, OneLoadEach
<1> QED
  BY <1>3, <1>7, <1>8, <1>9 DEF TreeInv

\* What a load makes of its listing are items of its container.
LEMMA ListingItems ==
  ASSUME NEW q, q.path \in Dirs, q.into \in 0..MaxItems
  PROVE  LET S == Shown(q.path, q.into) IN
         /\ S \in Seq(Nodes) /\ Len(S) \in Nat /\ DOMAIN S = 1..Len(S)
         /\ Listing(q) \in Seq(Item) /\ Len(Listing(q)) = Len(S)
         /\ \A k \in 1..Len(S) : Listing(q)[k].path = S[k] /\ Listing(q)[k].into = q.into
<1> DEFINE S == Shown(q.path, q.into)
<1>1. S \in Seq(Nodes)
  BY TreeAssumption DEF Shown
<1> HIDE DEF S
<1>2. Len(S) \in Nat /\ S \in [1..Len(S) -> Nodes] /\ DOMAIN S = 1..Len(S)
  BY <1>1, LenProperties
<1>3. Listing(q) = [k \in 1..Len(S) |-> [path |-> S[k], into |-> q.into, open |-> FALSE]]
  BY <1>2 DEF Listing, S
<1>4. Listing(q) \in [1..Len(S) -> Item]
  BY <1>2, <1>3 DEF Item
<1>5. Listing(q) \in Seq(Item)
  BY <1>2, <1>4, SeqDef
<1>6. Len(Listing(q)) = Len(S)
  BY <1>2, <1>3, <1>5, LenProperties, SameLength
<1> QED
  BY <1>1, <1>2, <1>3, <1>5, <1>6 DEF S

\* The items of a load come after the others, into the container it was asked for.
LEMMA Grown ==
  ASSUME TreeInv, NEW q, q.path \in Dirs, q.into \in {Top} \cup DOMAIN items,
         Len(items) + Len(Listing(q)) <= MaxItems, items' = items \o Listing(q)
  PROVE  LET n == Len(items)  S == Shown(q.path, q.into) IN
         /\ n \in Nat /\ Len(S) \in Nat /\ DOMAIN S = 1..Len(S)
         /\ items' \in Seq(Item) /\ Len(items') = n + Len(S) /\ Len(items') <= MaxItems
         /\ DOMAIN items = 1..n /\ DOMAIN items' = 1..(n + Len(S))
         /\ \A i \in 1..n : items'[i] = items[i]
         /\ \A k \in 1..Len(S) : items'[n + k].path = S[k] /\ items'[n + k].into = q.into
<1> DEFINE n == Len(items)
           S == Shown(q.path, q.into)
           L == Listing(q)
<1>1. n \in Nat /\ DOMAIN items = 1..n /\ items \in Seq(Item) /\ n <= MaxItems
  BY LenProperties DEF TreeInv, TreeTypeOK
<1>2. q.into \in 0..MaxItems
  BY <1>1, TreeAssumption DEF Top
<1>3. /\ Len(S) \in Nat /\ DOMAIN S = 1..Len(S) /\ L \in Seq(Item) /\ Len(L) = Len(S)
      /\ \A k \in 1..Len(S) : L[k].path = S[k] /\ L[k].into = q.into
  BY <1>2, ListingItems
<1> HIDE DEF S, L
<1>4. /\ items \o L \in Seq(Item) /\ Len(items \o L) = n + Len(L)
      /\ \A i \in 1..(n + Len(L)) : (items \o L)[i] = IF i <= n THEN items[i] ELSE L[i - n]
  <2>1. items \in Seq(Item) /\ L \in Seq(Item)
    BY <1>1, <1>3
  <2> QED
    BY <2>1, ConcatProperties
<1>5. items' = items \o L
  BY DEF L
<1>6. DOMAIN items' = 1..(n + Len(S))
  BY <1>3, <1>4, <1>5, LenProperties
<1>7. \A i \in 1..n : items'[i] = items[i]
  BY <1>1, <1>3, <1>4, <1>5
<1>8. ASSUME NEW k \in 1..Len(S) PROVE items'[n + k] = L[k]
  <2>1. n + k \in 1..(n + Len(L)) /\ ~(n + k <= n) /\ n + k - n = k
    BY <1>1, <1>3
  <2> QED
    BY <1>4, <1>5, <2>1
<1>9. n + Len(L) <= MaxItems
  BY DEF L
<1> QED
  BY <1>1, <1>3, <1>4, <1>5, <1>6, <1>7, <1>8, <1>9 DEF S, L

\* loadTree after its fetch.
LEMMA ListedKeeps ==
  ASSUME TreeInv, NEW l \in Loads, Listed(l)
  PROVE  TreeInv'
<1>0. PICK q, n, S : q = load[l] /\ n = Len(items) /\ S = Shown(q.path, q.into)
  OBVIOUS
<1>1. /\ Busy(l) /\ q \in Load /\ q.path \in Dirs
      /\ load' = [load EXCEPT ![l] = Idle] /\ UNCHANGED <<treePath, active, doubled>>
  BY <1>0 DEF TreeInv, TreeTypeOK, LoadsAttached, Listed, Busy
<1>2. CASE q.into = Detached
  BY <1>0, <1>1, <1>2, LoadsKept DEF Listed
<1>3. CASE q.into # Detached
  <2>1. q.into = Top \/ (q.into \in DOMAIN items /\ items[q.into].path = q.path)
    BY <1>0, <1>1, <1>3 DEF TreeInv, LoadsAttached, Busy
  <2>2. Len(items) + Len(Listing(q)) <= MaxItems /\ items' = items \o Listing(q)
    BY <1>0, <1>3 DEF Listed
  <2>3. /\ n \in Nat /\ Len(S) \in Nat /\ DOMAIN S = 1..Len(S)
        /\ items' \in Seq(Item) /\ Len(items') = n + Len(S) /\ Len(items') <= MaxItems
        /\ DOMAIN items = 1..n /\ DOMAIN items' = 1..(n + Len(S))
        /\ \A i \in 1..n : items'[i] = items[i]
        /\ \A k \in 1..Len(S) : items'[n + k].path = S[k] /\ items'[n + k].into = q.into
    <3>1. q.path \in Dirs /\ q.into \in {Top} \cup DOMAIN items
      BY <1>1, <2>1
    <3>2. LET m == Len(items)  T == Shown(q.path, q.into) IN
          /\ m \in Nat /\ Len(T) \in Nat /\ DOMAIN T = 1..Len(T)
          /\ items' \in Seq(Item) /\ Len(items') = m + Len(T) /\ Len(items') <= MaxItems
          /\ DOMAIN items = 1..m /\ DOMAIN items' = 1..(m + Len(T))
          /\ \A i \in 1..m : items'[i] = items[i]
          /\ \A k \in 1..Len(T) : items'[m + k].path = T[k] /\ items'[m + k].into = q.into
      BY <2>2, <3>1, Grown
    <3> QED
      BY <1>0, <3>2
  <2>4. /\ DOMAIN items \subseteq DOMAIN items'
        /\ \A i \in DOMAIN items' \ DOMAIN items :
             \E k \in 1..Len(S) : i = n + k /\ items'[i].path = S[k] /\ items'[i].into = q.into
    <3>1. ASSUME NEW i \in DOMAIN items' \ DOMAIN items
          PROVE  i - n \in 1..Len(S) /\ i = n + (i - n)
      BY <2>3
    <3> QED
      BY <2>3, <3>1
  <2>5. /\ load' \in [Loads -> Load] /\ load'[l] = Idle
        /\ \A m \in Loads : m # l => load'[m] = load[m]
    BY <1>1, IdleIsLoad DEF TreeInv, TreeTypeOK
  <2>6. TreeTypeOK'
    BY <1>1, <2>3, <2>4, <2>5 DEF TreeInv, TreeTypeOK
  <2>7. LoadsAttached'
    BY <2>3, <2>4, <2>5, IdleIsLoad DEF TreeInv, LoadsAttached, Busy
  <2>8. ItemsPlaced'
    BY <2>1, <2>3, <2>4 DEF TreeInv, ItemsPlaced
  <2>9. OwnEntries'
    <3> SUFFICES ASSUME NEW i \in DOMAIN items', items'[i].into # Top
                 PROVE  /\ items'[items'[i].into].path \in Dirs
                        /\ Contains(Entries[items'[items'[i].into].path], items'[i].path)
      BY DEF OwnEntries
    <3>1. CASE i \in DOMAIN items
      BY <2>3, <3>1 DEF TreeInv, OwnEntries, ItemsPlaced
    <3>2. CASE i \notin DOMAIN items
      <4>1. PICK k \in 1..Len(S) : items'[i].path = S[k] /\ items'[i].into = q.into
        BY <2>4, <3>2
      <4>2. q.into # Top /\ items'[q.into].path = q.path
        BY <2>1, <2>3, <4>1
      <4>3. S = Entries[q.path]
        BY <1>0, <4>2 DEF Shown
      <4> QED
        BY <1>1, <4>1, <4>2, <4>3 DEF Contains
    <3> QED
      BY <3>1, <3>2
  <2>10. /\ \A d : d # q.into => Within(d)' = Within(d)
         /\ Within(q.into) = {} => Within(q.into)' = (n + 1)..(n + Len(S))
    <3>1. \A i \in DOMAIN items : items'[i] = items[i]
      BY <2>3
    <3>2. \A d : d # q.into => Within(d)' = Within(d)
      BY <2>4, <3>1 DEF Within
    <3>3. ASSUME Within(q.into) = {} PROVE Within(q.into)' = (n + 1)..(n + Len(S))
      <4>1. ASSUME NEW i \in Within(q.into)' PROVE i \in (n + 1)..(n + Len(S))
        <5>1. i \in DOMAIN items' /\ i \notin DOMAIN items
          BY <3>1, <3>3 DEF Within
        <5> QED
          BY <2>3, <2>4, <5>1
      <4>2. ASSUME NEW i \in (n + 1)..(n + Len(S)) PROVE i \in Within(q.into)'
        <5>1. i \in DOMAIN items' /\ i - n \in 1..Len(S) /\ n + (i - n) = i
          BY <2>3
        <5>2. items'[n + (i - n)].into = q.into
          BY <2>3, <5>1
        <5> QED
          BY <5>1, <5>2 DEF Within
      <4> QED
        BY <4>1, <4>2
    <3> QED
      BY <3>2, <3>3
  <2>11. OneLoadEach'
    <3> SUFFICES ASSUME ~doubled, NEW m \in Loads, Busy(m)', load'[m].into # Detached
                 PROVE  /\ Within(load[m].into)' = {}
                        /\ load'[m].into = Top => load'[m].path = treePath
                        /\ \A o \in Loads : Busy(o)' /\ load'[o].into = load'[m].into => o = m
      BY <1>1 DEF OneLoadEach
    <3>1. m # l /\ Busy(m) /\ load'[m] = load[m]
      BY <2>5, IdleIsLoad DEF Busy
    <3>2. /\ Within(load[m].into) = {} /\ load[m].into # q.into
          /\ load[m].into = Top => load[m].path = treePath
      BY <1>0, <1>1, <1>3, <3>1 DEF TreeInv, OneLoadEach
    <3>3. \A o \in Loads : Busy(o)' => Busy(o) /\ load'[o] = load[o]
      BY <2>5, IdleIsLoad DEF Busy
    <3>4. Within(load[m].into)' = {}
      <4>1. PICK d : d = load[m].into
        OBVIOUS
      <4>2. Within(d)' = {}
        BY <2>10, <3>2, <4>1
      <4>3. load'[m].into = d
        BY <3>1, <4>1
      <4> QED
        BY <4>2, <4>3 DEF Within
    <3> QED
      BY <3>1, <3>2, <3>3, <3>4 DEF TreeInv, OneLoadEach
  <2>12. ListedOnce'
    <3> SUFFICES ASSUME ~doubled,
                        NEW c \in {Top} \cup {i \in DOMAIN items' : items'[i].path \in Dirs},
                        Within(c)' # {}
                 PROVE  \E k \in 0..Len(items') : ListedFrom(k, PathOf(c), c)'
      BY <1>1 DEF ListedOnce
    <3>1. CASE c = q.into
      <4>1. Within(q.into) = {} /\ (q.into = Top => q.path = treePath)
        BY <1>0, <1>1, <1>3 DEF TreeInv, OneLoadEach
      <4>2. PathOf(c)' = q.path
        BY <1>1, <2>1, <2>3, <3>1, <4>1 DEF PathOf
      <4>3. ListedFrom(n, PathOf(c), c)'
        <5>1. Within(c)' = (n + 1)..(n + Len(S))
          BY <2>10, <3>1, <4>1
        <5>2. ListedFrom(n, q.path, c)'
          BY <1>0, <2>3, <3>1, <5>1 DEF ListedFrom
        <5> QED
          BY <4>2, <5>2 DEF ListedFrom
      <4> QED
        BY <2>3, <4>3
    <3>2. CASE c # q.into
      <4>1. Within(c) # {} /\ Within(c)' = Within(c)
        BY <2>10, <3>2
      <4>2. c = Top \/ c \in DOMAIN items
        BY <4>1 DEF Within, TreeInv, ItemsPlaced
      <4>3. PathOf(c)' = PathOf(c)
        BY <1>1, <2>3, <4>2 DEF PathOf
      <4>4. c \in {Top} \cup {i \in DOMAIN items : items[i].path \in Dirs}
        BY <2>3, <4>2
      <4>5. PICK k \in 0..n : ListedFrom(k, PathOf(c), c)
        BY <1>0, <4>1, <4>4 DEF TreeInv, ListedOnce
      <4>6. ListedFrom(k, PathOf(c), c)'
        <5>2. /\ DOMAIN Shown(PathOf(c), c) = 1..Len(Shown(PathOf(c), c))
              /\ Len(Shown(PathOf(c), c)) \in Nat
          BY <4>4, ShownIsSeq DEF TreeInv
        <5>3. ASSUME NEW j \in DOMAIN Shown(PathOf(c), c)
              PROVE  items'[k + j].path = Shown(PathOf(c), c)[j]
          <6>1. k + j \in (k + 1)..(k + Len(Shown(PathOf(c), c)))
            BY <5>2
          <6>2. k + j \in DOMAIN items
            BY <4>5, <6>1 DEF ListedFrom, Within
          <6> QED
            BY <2>3, <4>5, <6>2 DEF ListedFrom
        <5> QED
          BY <4>1, <4>3, <4>5, <5>3 DEF ListedFrom
      <4> QED
        BY <2>3, <4>6
    <3> QED
      BY <3>1, <3>2
  <2> QED
    BY <2>6, <2>7, <2>8, <2>9, <2>11, <2>12 DEF TreeInv
<1> QED
  BY <1>2, <1>3

\* Every step of the tree.
LEMMA TreeKept ==
  ASSUME TreeInv, \/ TreeStep \/ Reboot \/ UNCHANGED treeVars
                  \/ \E p : HighlightActive(p)
  PROVE  TreeInv'
<1>1. ASSUME NEW l \in Loads, NEW p \in Dirs, NavigateTo(l, p) PROVE TreeInv'
  BY <1>1, NavigateKeeps
<1>2. ASSUME NEW l \in Loads, NEW i \in DOMAIN items, Expand(l, i) PROVE TreeInv'
  BY <1>2, ExpandKeeps
<1>3. ASSUME NEW l \in Loads, Listed(l) PROVE TreeInv'
  BY <1>3, ListedKeeps
<1>4. ASSUME NEW l \in Loads, NotListed(l) PROVE TreeInv'
  BY <1>4, LoadsKept DEF NotListed, Busy
<1>5. ASSUME NEW l \in Loads, NEW stage \in {"ok", "error"}, ListReply(l, stage)
      PROVE  TreeInv'
  <2>1. load' = [load EXCEPT ![l] = [load[l] EXCEPT !.stage = stage]] /\ Busy(l)
    BY <1>5 DEF ListReply, Busy, TreeInv, TreeTypeOK
  <2> QED
    BY <1>5, <2>1, LoadsKept DEF ListReply
<1>6. ASSUME NEW i \in DOMAIN items, Fold(i) PROVE TreeInv'
  BY <1>6, FoldKeeps
<1>7. CASE Reboot
  BY <1>7, RebootKeeps
<1>8. ASSUME UNCHANGED <<treePath, items, load, doubled>>, active' \subseteq DOMAIN items
      PROVE  TreeInv'
  <2>1. TreeTypeOK' /\ LoadsAttached' /\ ItemsPlaced' /\ OwnEntries'
    BY <1>8 DEF TreeInv, TreeTypeOK, LoadsAttached, Busy, ItemsPlaced, OwnEntries
  <2>2. \A c, n, p : /\ Within(c)' = Within(c) /\ PathOf(c)' = PathOf(c)
                     /\ ListedFrom(n, p, c)' <=> ListedFrom(n, p, c)
    BY <1>8 DEF Within, PathOf, ListedFrom
  <2>3. ListedOnce'
    BY <1>8, <2>2 DEF TreeInv, ListedOnce
  <2>4. OneLoadEach'
    BY <1>8, <2>2 DEF TreeInv, OneLoadEach, Busy
  <2> QED
    BY <2>1, <2>3, <2>4 DEF TreeInv
<1>9. CASE UNCHANGED treeVars
  BY <1>8, <1>9 DEF treeVars, TreeInv, TreeTypeOK
<1>10. ASSUME NEW p, HighlightActive(p) PROVE TreeInv'
  BY <1>8, <1>10 DEF HighlightActive
<1> QED
  BY <1>1, <1>2, <1>3, <1>4, <1>5, <1>6, <1>7, <1>9, <1>10 DEF TreeStep, ListDir, ListFails

\* The tree of the page, whatever is opened, edited and saved beside it.
LEMMA TreeIsInvariant == IDESpec => []TreeInv
<1>1. IDEInit => TreeInv
  BY Booted DEF IDEInit
<1>2. [IDENext]_ideVars =>
        TreeStep \/ Reboot \/ UNCHANGED treeVars \/ \E p : HighlightActive(p)
  BY DEF IDENext, ideVars, Change, ReloadPage, ClickFile, ShowFile, ShowSaved, EditorStep
<1>3. TreeInv /\ [IDENext]_ideVars => TreeInv'
  BY <1>2, TreeKept
<1> QED
  BY <1>1, <1>3, PTL DEF IDESpec

\* navigateTo, loadTree: as long as no container is loaded twice at a time, each is empty or
\* the listing of its directory, for any directories and any number of loads.
THEOREM DirectoriesListedOnce == IDESpec => []ListedOnce
  BY TreeIsInvariant, PTL DEF TreeInv

\* loadTree: even when loads overlap, a directory shows nothing that is not in it.
THEOREM EntriesAreTheirOwn == IDESpec => []OwnEntries
  BY TreeIsInvariant, PTL DEF TreeInv

BarOK == bar \in [path : Paths \cup {None}, dirty : BOOLEAN]

\* The tree, the editor and the bar keep their types.
THEOREM IDETypeCorrect == IDESpec => []IDETypeOK
<1>1. IDEInit => BarOK
  BY DEF IDEInit, NoFile, BarOK
<1>2. BarOK /\ TypeOK' /\ [IDENext]_ideVars => BarOK'
  <2> SUFFICES ASSUME BarOK, TypeOK', [IDENext]_ideVars PROVE BarOK'
    OBVIOUS
  <2>1. UNCHANGED bar \/ UpdateBar \/ bar' = NoFile
    BY DEF IDENext, ideVars, Change, ReloadPage, ClickFile, ShowFile, ShowSaved, EditorStep
  <2>2. CASE UpdateBar
    BY <2>2 DEF UpdateBar, TypeOK, BarOK
  <2>3. CASE UNCHANGED bar
    BY <2>3 DEF BarOK
  <2>4. CASE bar' = NoFile
    BY <2>4 DEF NoFile, BarOK
  <2> QED
    BY <2>1, <2>2, <2>3, <2>4
<1>3. TreeInv /\ TypeOK /\ BarOK => IDETypeOK
  BY DEF TreeInv, BarOK, IDETypeOK
<1> QED
  BY <1>1, <1>2, <1>3, PageIsEditor, TypeCorrect, TreeIsInvariant, PTL DEF IDESpec

\* What the tree does by itself marks no item, and keeps the path of those that are marked.
LEMMA MarksKept ==
  ASSUME TreeInv, TreeStep
  PROVE  \A i \in active' : i \in active /\ items'[i].path = items[i].path
<1>1. active \subseteq DOMAIN items
  BY DEF TreeInv, TreeTypeOK
<1>2. ASSUME NEW l \in Loads, NEW p \in Dirs, NavigateTo(l, p) PROVE active' = {}
  BY <1>2 DEF NavigateTo
<1>3. ASSUME NEW i \in DOMAIN items, Toggle(i)
      PROVE  active' = active /\ \A j \in active : items'[j].path = items[j].path
  BY <1>1, <1>3, Toggled DEF TreeInv, Toggle, SameItems
<1>4. ASSUME NEW l \in Loads, Listed(l)
      PROVE  active' = active /\ \A j \in active : items'[j].path = items[j].path
  <2>1. CASE load[l].into = Detached
    BY <1>4, <2>1 DEF Listed
  <2>2. CASE load[l].into # Detached
    <3>1. /\ load[l].path \in Dirs /\ load[l].into \in {Top} \cup DOMAIN items
          /\ Len(items) + Len(Listing(load[l])) <= MaxItems
          /\ items' = items \o Listing(load[l])
      BY <1>4, <2>2 DEF Listed, TreeInv, LoadsAttached, Busy
    <3>2. \A j \in DOMAIN items : items'[j] = items[j]
      BY <3>1, Grown
    <3> QED
      BY <1>1, <1>4, <3>2 DEF Listed
  <2> QED
    BY <2>1, <2>2
<1> QED
  BY <1>2, <1>3, <1>4
  DEF TreeStep, Expand, Fold, NotListed, ListDir, ListFails, ListReply

\* highlightActive: what the tree marks is the open file, whatever is opened, saved, shown
\* or left in the meantime.
THEOREM MarkedIsOpen == IDESpec => []ActiveIsOpen
<1>1. IDEInit => ActiveIsOpen
  BY DEF IDEInit, TreeInit, ActiveIsOpen
<1>2. TreeInv /\ ActiveIsOpen /\ [IDENext]_ideVars => ActiveIsOpen'
  <2> SUFFICES ASSUME TreeInv, ActiveIsOpen, [IDENext]_ideVars PROVE ActiveIsOpen'
    OBVIOUS
  <2>1. CASE TreeStep /\ UNCHANGED <<vars, bar>>
    BY <2>1, MarksKept DEF vars, page, ActiveIsOpen
  <2>2. CASE UNCHANGED <<treeVars, currentPath>>
    BY <2>2 DEF treeVars, ActiveIsOpen
  <2>3. CASE ReloadPage
    BY <2>3 DEF ReloadPage, Reboot, ActiveIsOpen
  <2>4. ASSUME NEW r \in Requests, ShowFile(r) PROVE ActiveIsOpen'
    <3>1. CASE request[r].path = currentPath
      BY <2>2, <2>4, <3>1 DEF ShowFile, Opened
    <3>2. CASE request[r].path # currentPath
      BY <2>4, <3>2 DEF ShowFile, Opened, HighlightActive, ActiveIsOpen
    <3> QED
      BY <3>1, <3>2
  <2>5. CASE Change
    BY <2>2, <2>5 DEF Change, Edit
  <2>6. ASSUME NEW r \in Requests,
               EditorStep(r) \/ ShowSaved(r) \/ \E i \in DOMAIN items : ClickFile(r, i)
        PROVE  ActiveIsOpen'
    BY <2>2, <2>6
    DEF EditorStep, ShowSaved, ClickFile, OpenFile, SaveFile, OpenFailed, SaveFailed, GetFile,
        PutFile, PutFileFails, RequestFails, AnswerLost, Saved, page, treeVars
  <2>7. CASE UNCHANGED ideVars
    BY <2>2, <2>7 DEF ideVars, vars, page
  <2> QED
    BY <2>1, <2>3, <2>4, <2>5, <2>6, <2>7 DEF IDENext
<1> QED
  BY <1>1, <1>2, TreeIsInvariant, PTL DEF IDESpec
=============================================================================
