------------------------------- MODULE Preview -------------------------------
(***************************************************************************)
(* The scenario preview (cmd/scenario-preview, internal/preview): the page *)
(* of static/index.html asks for the verdict on a step while its own saves *)
(* and the terminal write the files, and has the commands of the           *)
(* instructions typed into that terminal.  Every handler of the server     *)
(* runs in a goroutine of its own, and the commands that are on their way  *)
(* share one paste buffer of the tmux server.  Which text the page saves   *)
(* into which file is left out: see Editor for what becomes of that.       *)
(***************************************************************************)
EXTENDS Naturals, Sequences

CONSTANTS
    Paths,      \* the files
    Steps,      \* the number of steps
    Checks,     \* the checks of the scenario, in their order
    Saves,      \* the saves that may be under way at the same time
    Verifies,   \* the checks that may be under way at the same time
    Runs,       \* commands clicked
    None        \* no command

Check == [step : 1..Steps, path : Paths]

\* Validate: what a scenario with a preview must satisfy.
Valid == Checks \in Seq(Check) /\ Checks # <<>>

ASSUME PreviewAssumption == Steps \in Nat \ {0} /\ Valid /\ None \notin Runs

\* Of a file's contents, only whether they are what the checks of it expect.
Contents == {"missing", "empty", "wrong", "right"}

VARIABLES
    file,         \* path -> what the workspace holds
    save,         \* the saves
    currentStep,  \* the page
    result,       \* the page: what it shows of the last check or run
    verify,       \* the checks, each with whether it is calm: no write and no other
                  \* step since it was asked for
    calm,         \* whether the check is whose verdict the page shows
    buffer,       \* tmux: the command in the paste buffer
    line,         \* tmux: the commands typed that still wait for an Enter
    run           \* the commands: how far each is, and which one its paste typed

files == <<file, save>>
check == <<currentStep, result, verify, calm>>
tmux == <<buffer, line, run>>
vars == <<files, check, tmux>>

Save == [stage : {"none", "sent", "truncated"}, path : Paths, text : {"wrong", "right"}]

Verdict == [asked : BOOLEAN, step : 1..Steps, next : 1..Len(Checks) + 1,
            passed : BOOLEAN, calm : BOOLEAN]

Stages == {"new", "asked", "loaded", "pasted", "entered", "sent", "failed"}

TypeOK ==
    /\ file \in [Paths -> Contents]
    /\ save \in [Saves -> Save]
    /\ currentStep \in 1..Steps
    /\ result \in {"", "pass", "fail", "not sent"}
    /\ verify \in [Verifies -> Verdict]
    /\ calm \in BOOLEAN
    /\ buffer \in Runs \cup {None}
    /\ line \in SUBSET Runs
    /\ run \in [Runs -> [stage : Stages, typed : Runs \cup {None}]]

\* prepare: entrypoint.sh copies the fixture before anything is served.
Prepared == [p \in Paths |-> "wrong"]

NoVerdict == [asked |-> FALSE, step |-> 1, next |-> 1, passed |-> TRUE, calm |-> FALSE]

NoSave == [stage |-> "none", path |-> CHOOSE p \in Paths : TRUE, text |-> "wrong"]

Init ==
    /\ file = Prepared /\ save = [w \in Saves |-> NoSave]
    /\ currentStep = 1 /\ result = "" /\ calm = FALSE
    /\ verify = [v \in Verifies |-> NoVerdict]
    /\ buffer = None /\ line = {}
    /\ run = [r \in Runs |-> [stage |-> "new", typed |-> None]]

-----------------------------------------------------------------------------
(* The files.                                                              *)

Disturbed ==
    /\ calm' = FALSE
    /\ verify' = [v \in Verifies |-> [verify[v] EXCEPT !.calm = FALSE]]

Written(p, contents) == file' = [file EXCEPT ![p] = contents] /\ Disturbed

\* saveFile, which does not wait for the save before it: whether the text is what the
\* checks of the file expect is up to the learner.
SaveFile(w, p, text) ==
    /\ save[w] = NoSave
    /\ save' = [save EXCEPT ![w] = [stage |-> "sent", path |-> p, text |-> text]]
    /\ UNCHANGED <<file, check, tmux>>

\* putFile: os.WriteFile creates or empties the file, then writes it.
Truncate(w) ==
    /\ save[w].stage = "sent"
    /\ save' = [save EXCEPT ![w].stage = "truncated"]
    /\ Written(save[w].path, "empty")
    /\ UNCHANGED <<currentStep, result, tmux>>

\* A file removed since stays removed, and one created anew since stays as it is; over
\* a text written since, the rest of the longer one shows at the end.
WriteFile(w) ==
    /\ save[w].stage = "truncated"
    /\ save' = [save EXCEPT ![w] = NoSave]
    /\ \E contents \in CASE file[save[w].path] = "missing" -> {"missing"}
                         [] file[save[w].path] = "empty" -> {"empty", save[w].text}
                         [] OTHER -> {"wrong", "right"} :
           Written(save[w].path, contents)
    /\ UNCHANGED <<currentStep, result, tmux>>

SaveFails(w) ==
    /\ save[w] # NoSave
    /\ save' = [save EXCEPT ![w] = NoSave]
    /\ UNCHANGED <<file, check, tmux>>

\* The commands of the terminal: they write or remove files.
Shell(p, contents) ==
    /\ contents # file[p]
    /\ Written(p, contents)
    /\ UNCHANGED <<save, currentStep, result, tmux>>

-----------------------------------------------------------------------------
(* The verdict on a step.                                                  *)

\* Whether the file of a check contains what it expects.
Contains(i) == file[Checks[i].path] = "right"

\* showStep, which keeps to the steps there are.
ShowStep(s) ==
    /\ s # currentStep
    /\ currentStep' = s /\ result' = "" /\ Disturbed
    /\ UNCHANGED <<files, tmux>>

\* checkStep, up to its request: the button stays enabled while others are under way.
CheckStep(v) ==
    /\ ~verify[v].asked
    /\ verify' = [verify EXCEPT ![v] = [asked |-> TRUE, step |-> currentStep, next |-> 1,
                                        passed |-> TRUE, calm |-> TRUE]]
    /\ UNCHANGED <<files, currentStep, result, calm, tmux>>

\* Mutant: a file that cannot be read fails no check.
VerifySkipsMissing(v) ==
    LET i == verify[v].next IN
    /\ verify[v].asked /\ i <= Len(Checks)
    /\ verify' = [verify EXCEPT ![v].next = i + 1,
           ![v].passed = @ /\ (\/ Checks[i].step # verify[v].step
                               \/ file[Checks[i].path] = "missing"
                               \/ Contains(i))]
    /\ UNCHANGED <<files, currentStep, result, calm, tmux>>

\* Verify: one check after the other, each with the file as it is by then.
Verify(v) ==
    LET i == verify[v].next IN
    /\ verify[v].asked /\ i <= Len(Checks)
    /\ verify' = [verify EXCEPT ![v].next = i + 1,
           ![v].passed = @ /\ (Checks[i].step = verify[v].step => Contains(i))]
    /\ UNCHANGED <<files, currentStep, result, calm, tmux>>

\* checkStep, once it is answered: whichever step is shown by now, and whichever
\* verdict of a check asked for later.
ShowVerdict(v) ==
    /\ verify[v].asked /\ verify[v].next = Len(Checks) + 1
    /\ verify' = [verify EXCEPT ![v] = NoVerdict]
    /\ result' = IF verify[v].passed THEN "pass" ELSE "fail"
    /\ calm' = verify[v].calm
    /\ UNCHANGED <<files, currentStep, tmux>>

VerdictLost(v) ==
    /\ verify[v].asked
    /\ verify' = [verify EXCEPT ![v] = NoVerdict]
    /\ UNCHANGED <<files, currentStep, result, calm, tmux>>

-----------------------------------------------------------------------------
(* Commands.  Each of runCommand's three tmux commands takes effect in the *)
(* tmux server; its five seconds may be over before or after that.         *)

Click(r) ==
    /\ run[r].stage = "new"
    /\ run' = [run EXCEPT ![r].stage = "asked"]
    /\ UNCHANGED <<files, check, buffer, line>>

\* load-buffer: every command uses the same buffer.
LoadBuffer(r) ==
    /\ run[r].stage = "asked"
    /\ buffer' = r
    /\ run' = [run EXCEPT ![r].stage = "loaded"]
    /\ UNCHANGED <<files, check, line>>

\* The text that is typed; a newline at its end enters the line.
Type(command, newline) ==
    line' = IF newline THEN {} ELSE line \cup {command}

\* Mutant: the buffer is pasted and kept.
PasteKeeping(r, newline) ==
    /\ run[r].stage = "loaded" /\ buffer # None
    /\ Type(buffer, newline)
    /\ run' = [run EXCEPT ![r] = [stage |-> "pasted", typed |-> buffer]]
    /\ UNCHANGED <<files, check, buffer>>

\* Mutant: nobody looks at whether there was a buffer to paste.
PasteUnchecked(r, newline) ==
    /\ run[r].stage = "loaded"
    /\ run' = [run EXCEPT ![r] = [stage |-> "pasted", typed |-> buffer]]
    /\ IF buffer = None THEN UNCHANGED line ELSE Type(buffer, newline)
    /\ buffer' = None
    /\ UNCHANGED <<files, check>>

\* paste-buffer -d: whatever the buffer holds is typed, and the buffer deleted.
PasteBuffer(r, newline) ==
    /\ run[r].stage = "loaded" /\ buffer # None
    /\ Type(buffer, newline)
    /\ run' = [run EXCEPT ![r] = [stage |-> "pasted", typed |-> buffer]]
    /\ buffer' = None
    /\ UNCHANGED <<files, check>>

\* send-keys Enter.
SendEnter(r) ==
    /\ run[r].stage = "pasted"
    /\ line' = {}
    /\ run' = [run EXCEPT ![r].stage = "entered"]
    /\ UNCHANGED <<files, check, buffer>>

Sent(r) ==
    /\ run[r].stage = "entered"
    /\ run' = [run EXCEPT ![r].stage = "sent"]
    /\ UNCHANGED <<files, check, buffer, line>>

\* A tmux command fails, for want of a buffer as well, or the time is over.
RunFails(r) ==
    /\ run[r].stage \in {"asked", "loaded", "pasted", "entered"}
    /\ run' = [run EXCEPT ![r].stage = "failed"]
    /\ result' = "not sent" /\ calm' = FALSE
    /\ UNCHANGED <<files, currentStep, verify, buffer, line>>

-----------------------------------------------------------------------------
Next ==
    \/ \E w \in Saves :
           \/ \E p \in Paths, text \in {"wrong", "right"} : SaveFile(w, p, text)
           \/ Truncate(w) \/ WriteFile(w) \/ SaveFails(w)
    \/ \E p \in Paths, contents \in Contents : Shell(p, contents)
    \/ \E s \in 1..Steps : ShowStep(s)
    \/ \E v \in Verifies :
           CheckStep(v) \/ Verify(v) \/ ShowVerdict(v) \/ VerdictLost(v)
    \/ \E r \in Runs :
           \/ Click(r) \/ LoadBuffer(r) \/ SendEnter(r) \/ Sent(r) \/ RunFails(r)
           \/ \E newline \in BOOLEAN : PasteBuffer(r, newline)

Spec == Init /\ [][Next]_vars

-----------------------------------------------------------------------------
(* A command is typed at most once, however many are on their way at the   *)
(* same time: with one buffer for all of them one may be typed by the run  *)
(* of another, or not at all, and no run types what another has typed      *)
(* (runCommand, paste-buffer -d).                                          *)
TypedOnce ==
    \A r, s \in Runs : r # s /\ run[r].typed # None => run[r].typed # run[s].typed

(* Whoever is told "Sent to Lab Terminal." has had a command typed, and    *)
(* that command no longer waits for its Enter, whatever others typed into  *)
(* the same line (runCommand).                                             *)
SuccessIsEntered ==
    \A r \in Runs :
        run[r].stage = "sent" => run[r].typed # None /\ run[r].typed \notin line

(* The verdict on display is that of the step on display and of the files  *)
(* as they are, if no file was written and no other step shown since its   *)
(* check was asked for: it passes exactly when each of the step's checks   *)
(* finds what it expects, however many checks are under way (Verify,       *)
(* checkStep, showStep).  The answer to an earlier check may come last.    *)
VerdictStands ==
    calm /\ result \in {"pass", "fail"} =>
        (result = "pass" <=>
            \A i \in 1..Len(Checks) : Checks[i].step = currentStep => Contains(i))

=============================================================================
