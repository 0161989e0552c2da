---------------------------- MODULE Preview_proofs ----------------------------
(***************************************************************************)
(* Proofs about Preview, for any commands, files and checks.               *)
(***************************************************************************)
EXTENDS Preview, TLAPS

\* The steps of a save, and of a check.
FileStep(w) ==
    \/ \E p \in Paths, text \in {"wrong", "right"} : SaveFile(w, p, text)
    \/ Truncate(w) \/ WriteFile(w) \/ SaveFails(w)

VerdictStep(v) == CheckStep(v) \/ Verify(v) \/ ShowVerdict(v) \/ VerdictLost(v)

Run == [stage : Stages, typed : Runs \cup {None}]

\* What keeps commands from being typed twice: a command is in the buffer or has been
\* typed only once its run has loaded it, and never both.
BufferInv ==
    /\ buffer \in Runs \cup {None}
    /\ run \in [Runs -> Run]
    /\ \A r, s \in Runs : run[r].typed = s => run[s].stage \notin {"new", "asked"}
    /\ \A s \in Runs : buffer = s => /\ run[s].stage \notin {"new", "asked"}
                                     /\ \A r \in Runs : run[r].typed # s
    /\ TypedOnce

\* What a run has typed is entered once its own Enter is sent: nobody else types it.
EnterInv ==
    \A r \in Runs :
        /\ run[r].stage \in {"pasted", "entered", "sent"} => run[r].typed # None
        /\ run[r].stage \in {"entered", "sent"} => run[r].typed \notin line

IInv == BufferInv /\ EnterInv

\* A run gets on, and what was typed stays as it is.
LEMMA Advancing ==
  ASSUME IInv, NEW r \in Runs, NEW stage \in Stages \ {"new", "asked"},
         run' = [run EXCEPT ![r].stage = stage],
         stage \in {"pasted", "entered", "sent"} => run[r].typed # None,
         stage \in {"entered", "sent"} => run[r].typed \notin line',
         line' \subseteq line, buffer' = buffer
  PROVE  IInv'
<1>1. /\ run' \in [Runs -> Run]
      /\ run'[r].stage = stage /\ run'[r].typed = run[r].typed
      /\ \A s \in Runs : s # r => run'[s] = run[s]
  BY DEF IInv, BufferInv, Run
<1>2. \A s \in Runs : run'[s].typed = run[s].typed
  BY <1>1
<1>3. \A s \in Runs : run'[s].stage \in {"new", "asked"} => run[s].stage \in {"new", "asked"}
  BY <1>1
<1>4. BufferInv'
  BY <1>1, <1>2, <1>3 DEF IInv, BufferInv, TypedOnce
<1>5. EnterInv'
  BY <1>1 DEF IInv, EnterInv
<1> QED
  BY <1>4, <1>5 DEF IInv

LEMMA StepKeeps == IInv /\ [Next]_vars => IInv'
<1> SUFFICES ASSUME IInv, [Next]_vars PROVE IInv'
  OBVIOUS
<1>1. CASE UNCHANGED tmux
  BY <1>1 DEF tmux, IInv, BufferInv, EnterInv, TypedOnce
<1>2. ASSUME NEW r \in Runs, Click(r) PROVE IInv'
  <2>1. /\ run[r].stage = "new" /\ run' = [run EXCEPT ![r].stage = "asked"]
        /\ buffer' = buffer /\ line' = line
    BY <1>2 DEF Click
  <2>2. /\ run' \in [Runs -> Run]
        /\ run'[r].stage = "asked" /\ run'[r].typed = run[r].typed
        /\ \A s \in Runs : s # r => run'[s] = run[s]
    BY <2>1 DEF IInv, BufferInv, Run, Stages
  <2>3. \A s \in Runs : run'[s].typed = run[s].typed
    BY <2>2
  <2>4. \A s \in Runs : run'[s].stage \in {"new", "asked"} => run[s].stage \in {"new", "asked"}
    BY <2>1, <2>2
  <2>5. BufferInv'
    BY <2>1, <2>2, <2>3, <2>4 DEF IInv, BufferInv, TypedOnce
  <2>6. EnterInv'
    BY <2>1, <2>2 DEF IInv, EnterInv
  <2> QED
    BY <2>5, <2>6 DEF IInv
<1>3. ASSUME NEW r \in Runs, LoadBuffer(r) PROVE IInv'
  <2>1. /\ run[r].stage = "asked" /\ run' = [run EXCEPT ![r].stage = "loaded"]
        /\ buffer' = r /\ line' = line
    BY <1>3 DEF LoadBuffer
  <2>2. /\ run' \in [Runs -> Run]
        /\ run'[r].stage = "loaded" /\ run'[r].typed = run[r].typed
        /\ \A s \in Runs : s # r => run'[s] = run[s]
    BY <2>1 DEF IInv, BufferInv, Run, Stages
  <2>3. \A s \in Runs : run'[s].typed = run[s].typed
    BY <2>2
  <2>4. \A s \in Runs : run[s].typed # r
    BY <2>1 DEF IInv, BufferInv
  <2>5. BufferInv'
    BY <2>1, <2>2, <2>3, <2>4 DEF IInv, BufferInv, TypedOnce
  <2>6. EnterInv'
    BY <2>1, <2>2 DEF IInv, EnterInv
  <2> QED
    BY <2>5, <2>6 DEF IInv
<1>4. ASSUME NEW r \in Runs, NEW newline \in BOOLEAN, PasteBuffer(r, newline) PROVE IInv'
  <2>1. /\ run[r].stage = "loaded" /\ buffer \in Runs /\ buffer' = None
        /\ run' = [run EXCEPT ![r] = [stage |-> "pasted", typed |-> buffer]]
        /\ line' \subseteq line \cup {buffer}
    BY <1>4 DEF PasteBuffer, Type, IInv, BufferInv
  <2>2. /\ run' \in [Runs -> Run]
        /\ run'[r].stage = "pasted" /\ run'[r].typed = buffer
        /\ \A s \in Runs : s # r => run'[s] = run[s]
    BY <2>1 DEF IInv, BufferInv, Run, Stages
  <2>3. buffer # None /\ None \notin Runs
    BY <2>1, PreviewAssumption
  <2>4. /\ run[buffer].stage \notin {"new", "asked"}
        /\ \A s \in Runs : run[s].typed # buffer
    BY <2>1 DEF IInv, BufferInv
  <2>5. \A s \in Runs : run'[s].stage \in {"new", "asked"} => run[s].stage \in {"new", "asked"}
    BY <2>2
  <2>6. \A q, s \in Runs : run'[q].typed = s => run'[s].stage \notin {"new", "asked"}
    <3> SUFFICES ASSUME NEW q \in Runs, NEW s \in Runs, run'[q].typed = s
                 PROVE  run[s].stage \notin {"new", "asked"}
      BY <2>5
    <3>1. CASE q = r
      BY <3>1, <2>2, <2>4
    <3>2. CASE q # r
      BY <3>2, <2>2 DEF IInv, BufferInv
    <3> QED
      BY <3>1, <3>2
  <2>7. TypedOnce'
    BY <2>2, <2>4 DEF IInv, BufferInv, TypedOnce
  <2>8. EnterInv'
    <3> SUFFICES ASSUME NEW s \in Runs
                 PROVE  /\ run'[s].stage \in {"pasted", "entered", "sent"}
                               => run'[s].typed # None
                        /\ run'[s].stage \in {"entered", "sent"} => run'[s].typed \notin line'
      BY DEF EnterInv
    <3>1. CASE s = r
      BY <3>1, <2>2, <2>3
    <3>2. CASE s # r
      BY <3>2, <2>1, <2>2, <2>4 DEF IInv, EnterInv
    <3> QED
      BY <3>1, <3>2
  <2> QED
    BY <2>1, <2>2, <2>3, <2>6, <2>7, <2>8 DEF IInv, BufferInv
<1>5. ASSUME NEW r \in Runs, SendEnter(r) \/ Sent(r) \/ RunFails(r) PROVE IInv'
  <2>1. CASE SendEnter(r)
    BY <2>1, Advancing DEF SendEnter, Stages, IInv, EnterInv
  <2>2. CASE Sent(r)
    BY <2>2, Advancing DEF Sent, Stages, IInv, EnterInv
  <2>3. CASE RunFails(r)
    BY <2>3, Advancing DEF RunFails, Stages
  <2> QED
    BY <1>5, <2>1, <2>2, <2>3
<1>6. CASE \/ \E w \in Saves : FileStep(w)
           \/ \E p \in Paths, contents \in Contents : Shell(p, contents)
  BY <1>6, <1>1 DEF FileStep, SaveFile, Shell, Truncate, WriteFile, SaveFails
<1>7. CASE \/ \E s \in 1..Steps : ShowStep(s)
           \/ \E v \in Verifies : VerdictStep(v)
  BY <1>7, <1>1 DEF VerdictStep, ShowStep, CheckStep, Verify, ShowVerdict, VerdictLost
<1>8. CASE UNCHANGED vars
  BY <1>8, <1>1 DEF vars
<1> QED
  BY <1>2, <1>3, <1>4, <1>5, <1>6, <1>7, <1>8 DEF Next, FileStep, VerdictStep

LEMMA StartKeeps == Init => IInv
<1> SUFFICES ASSUME Init PROVE IInv
  OBVIOUS
<1>1. /\ run \in [Runs -> Run] /\ buffer = None
      /\ \A r \in Runs : run[r].stage = "new" /\ run[r].typed = None
  BY DEF Init, Run, Stages
<1> QED
  BY <1>1, PreviewAssumption DEF IInv, BufferInv, EnterInv, TypedOnce

LEMMA RunsKeepApart == Spec => []IInv
  BY StartKeeps, StepKeeps, PTL DEF Spec

\* However many commands are on their way, no command is typed twice.
THEOREM NothingTypedTwice == Spec => []TypedOnce
  BY RunsKeepApart, PTL DEF IInv, BufferInv

\* Whoever is told that a command was sent has had one typed and entered.
THEOREM SentIsEntered == Spec => []SuccessIsEntered
<1>1. IInv => SuccessIsEntered
  BY DEF IInv, EnterInv, SuccessIsEntered
<1> QED
  BY <1>1, RunsKeepApart, PTL

-----------------------------------------------------------------------------
(* Types.                                                                  *)

\* The number of checks is one, and each is of a step and a file.
LEMMA ChecksAreChecks ==
  /\ Len(Checks) \in Nat \ {0}
  /\ \A i \in 1..Len(Checks) : Checks[i].path \in Paths
  /\ Paths # {}
<1>1. Checks \in Seq(Check) /\ Checks # <<>>
  BY PreviewAssumption DEF Valid
<1>2. Len(Checks) \in Nat /\ Len(Checks) # 0
  BY <1>1
<1>3. \A i \in 1..Len(Checks) : Checks[i] \in Check
  BY <1>1
<1>4. \A i \in 1..Len(Checks) : Checks[i].path \in Paths
  BY <1>3 DEF Check
<1> QED
  BY <1>2, <1>4

LEMMA Positions ==
  ASSUME NEW n \in Nat
  PROVE  1 \in 1..(n + 1) /\ \A i \in 1..(n + 1) : i <= n => i + 1 \in 1..(n + 1)
  OBVIOUS

\* A save that changes keeps its type, and so does a check.
LEMMA SaveTyped ==
  ASSUME save \in [Saves -> Save], NEW w \in Saves, NEW one \in Save
  PROVE  [save EXCEPT ![w] = one] \in [Saves -> Save]
  OBVIOUS

LEMMA VerdictTyped ==
  ASSUME verify \in [Verifies -> Verdict], NEW v \in Verifies, NEW one \in Verdict
  PROVE  [verify EXCEPT ![v] = one] \in [Verifies -> Verdict]
  OBVIOUS

LEMMA NoVerdictTyped == NoVerdict \in Verdict
<1>1. 1 \in 1..Steps /\ 1 \in 1..Len(Checks) + 1
  BY PreviewAssumption, ChecksAreChecks, Positions
<1> QED
  BY <1>1 DEF NoVerdict, Verdict

\* A check that is disturbed is the same check, and no longer calm.
LEMMA DisturbedTyped ==
  ASSUME verify \in [Verifies -> Verdict], Disturbed
  PROVE  /\ calm' = FALSE
         /\ verify' \in [Verifies -> Verdict]
         /\ \A v \in Verifies : verify'[v].calm = FALSE
<1>1. \A one \in Verdict : [one EXCEPT !.calm = FALSE] \in Verdict
                             /\ [one EXCEPT !.calm = FALSE].calm = FALSE
  BY DEF Verdict
<1> QED
  BY <1>1 DEF Disturbed

LEMMA FilesTyped ==
  ASSUME TypeOK,
         \/ \E w \in Saves : FileStep(w)
         \/ \E p \in Paths, contents \in Contents : Shell(p, contents)
  PROVE  TypeOK'
<1> USE DEF TypeOK, Contents
<1>1. NoSave \in Save
  BY ChecksAreChecks DEF NoSave, Save
<1>2. ASSUME NEW w \in Saves, NEW p \in Paths, NEW text \in {"wrong", "right"},
             SaveFile(w, p, text)
      PROVE  TypeOK'
  <2>1. [stage |-> "sent", path |-> p, text |-> text] \in Save
    BY DEF Save
  <2>2. save' \in [Saves -> Save]
    BY <1>2, <2>1, SaveTyped DEF SaveFile
  <2> QED
    BY <1>2, <2>2 DEF SaveFile, check, tmux
<1>3. ASSUME NEW p \in Paths, NEW contents \in Contents, Shell(p, contents) PROVE TypeOK'
  <2>1. file' \in [Paths -> Contents] /\ calm' = FALSE /\ verify' \in [Verifies -> Verdict]
    BY <1>3, DisturbedTyped DEF Shell, Written
  <2> QED
    BY <1>3, <2>1 DEF Shell, tmux
<1>4. ASSUME NEW w \in Saves, Truncate(w) PROVE TypeOK'
  <2>1. save[w] \in Save /\ [save[w] EXCEPT !.stage = "truncated"] \in Save
    BY DEF Save
  <2>2. save' \in [Saves -> Save]
    BY <1>4, <2>1, SaveTyped DEF Truncate
  <2>3. file' \in [Paths -> Contents] /\ calm' = FALSE /\ verify' \in [Verifies -> Verdict]
    BY <1>4, DisturbedTyped DEF Truncate, Written
  <2> QED
    BY <1>4, <2>2, <2>3 DEF Truncate, tmux
<1>5. ASSUME NEW w \in Saves, WriteFile(w) PROVE TypeOK'
  <2>1. PICK contents \in Contents : Written(save[w].path, contents)
    <3>1. save[w].path \in Paths /\ save[w].text \in {"wrong", "right"}
      BY DEF Save
    <3>2. /\ file[save[w].path] = "missing"
                => \E c \in {"missing"} : Written(save[w].path, c)
          /\ file[save[w].path] = "empty"
                => \E c \in {"empty", save[w].text} : Written(save[w].path, c)
          /\ file[save[w].path] \notin {"missing", "empty"}
                => \E c \in {"wrong", "right"} : Written(save[w].path, c)
      BY <1>5 DEF WriteFile
    <3> QED
      BY <3>1, <3>2
  <2>2. file' \in [Paths -> Contents] /\ calm' = FALSE /\ verify' \in [Verifies -> Verdict]
    BY <2>1, DisturbedTyped DEF Written
  <2>3. save' \in [Saves -> Save]
    BY <1>1, <1>5, SaveTyped DEF WriteFile
  <2> QED
    BY <1>5, <2>2, <2>3 DEF WriteFile, tmux
<1>6. ASSUME NEW w \in Saves, SaveFails(w) PROVE TypeOK'
  <2>1. save' \in [Saves -> Save]
    BY <1>1, <1>6, SaveTyped DEF SaveFails
  <2> QED
    BY <1>6, <2>1 DEF SaveFails, check, tmux
<1> HIDE DEF TypeOK, Contents
<1>7. ASSUME NEW w \in Saves, FileStep(w) PROVE TypeOK'
  BY <1>2, <1>4, <1>5, <1>6, <1>7, Zenon DEF FileStep
<1> QED
  BY <1>3, <1>7, Zenon

\* What becomes of a check in each of its steps.
LEMMA CheckAsked ==
  ASSUME TypeOK, NEW v \in Verifies, CheckStep(v)
  PROVE  \E one \in Verdict :
             /\ verify' = [verify EXCEPT ![v] = one]
             /\ one.step = currentStep /\ one.next = 1 /\ one.passed
<1> DEFINE one == [asked |-> TRUE, step |-> currentStep, next |-> 1,
                   passed |-> TRUE, calm |-> TRUE]
<1>1. 1 \in 1..Len(Checks) + 1
  BY ChecksAreChecks, Positions
<1>2. one \in Verdict
  BY <1>1 DEF TypeOK, Verdict
<1> QED
  BY <1>2 DEF CheckStep

LEMMA CheckRead ==
  ASSUME TypeOK, NEW v \in Verifies, Verify(v)
  PROVE  \E one \in Verdict :
             /\ verify' = [verify EXCEPT ![v] = one]
             /\ one.step = verify[v].step /\ one.next = verify[v].next + 1
             /\ one.calm = verify[v].calm
             /\ one.passed <=>
                    /\ verify[v].passed
                    /\ Checks[verify[v].next].step = verify[v].step
                          => Contains(verify[v].next)
<1> DEFINE i == verify[v].next
           passed == verify[v].passed /\ (Checks[i].step = verify[v].step => Contains(i))
           one == [verify[v] EXCEPT !.next = i + 1, !.passed = passed]
<1>1. verify[v] \in Verdict /\ verify \in [Verifies -> Verdict]
  BY DEF TypeOK
<1>2. passed \in BOOLEAN
  OBVIOUS
<1>3. i + 1 \in 1..Len(Checks) + 1
  BY <1>1, ChecksAreChecks, Positions DEF Verify, Verdict
<1>4. verify' = [verify EXCEPT ![v] = one]
  BY Zenon DEF Verify
<1> HIDE DEF passed
<1>5. /\ one \in Verdict /\ one.step = verify[v].step /\ one.next = i + 1
      /\ one.calm = verify[v].calm /\ one.passed = passed
  BY <1>1, <1>2, <1>3 DEF Verdict
<1> QED
  BY <1>4, <1>5 DEF passed

LEMMA ChecksTyped ==
  ASSUME TypeOK,
         \/ \E s \in 1..Steps : ShowStep(s)
         \/ \E v \in Verifies : VerdictStep(v)
  PROVE  TypeOK'
<1> USE DEF TypeOK, files, tmux
<1>1. ASSUME NEW s \in 1..Steps, ShowStep(s) PROVE TypeOK'
  BY <1>1, DisturbedTyped DEF ShowStep
<1>2. ASSUME NEW v \in Verifies, CheckStep(v) PROVE TypeOK'
  <2>1. verify' \in [Verifies -> Verdict]
    BY <1>2, CheckAsked, VerdictTyped
  <2> QED
    BY <1>2, <2>1 DEF CheckStep
<1>3. ASSUME NEW v \in Verifies, Verify(v) PROVE TypeOK'
  <2>1. verify' \in [Verifies -> Verdict]
    BY <1>3, CheckRead, VerdictTyped
  <2> QED
    BY <1>3, <2>1 DEF Verify
<1>4. ASSUME NEW v \in Verifies, ShowVerdict(v) PROVE TypeOK'
  <2>1. verify' \in [Verifies -> Verdict] /\ calm' \in BOOLEAN
    BY <1>4, NoVerdictTyped, VerdictTyped DEF ShowVerdict, Verdict
  <2> QED
    BY <1>4, <2>1 DEF ShowVerdict
<1>5. ASSUME NEW v \in Verifies, VerdictLost(v) PROVE TypeOK'
  <2>1. verify' \in [Verifies -> Verdict]
    BY <1>5, NoVerdictTyped, VerdictTyped DEF VerdictLost
  <2> QED
    BY <1>5, <2>1 DEF VerdictLost
<1> QED
  BY <1>1, <1>2, <1>3, <1>4, <1>5 DEF VerdictStep

LEMMA RunsTyped ==
  ASSUME TypeOK, NEW r \in Runs,
         \/ Click(r) \/ LoadBuffer(r) \/ SendEnter(r) \/ Sent(r) \/ RunFails(r)
         \/ \E newline \in BOOLEAN : PasteBuffer(r, newline)
  PROVE  TypeOK'
<1> USE DEF TypeOK, files, check
<1>1. \A stage \in Stages :
        run' = [run EXCEPT ![r].stage = stage]
            => run' \in [Runs -> [stage : Stages, typed : Runs \cup {None}]]
  OBVIOUS
<1>2. CASE Click(r) \/ LoadBuffer(r)
  BY <1>1, <1>2 DEF Click, LoadBuffer, Stages
<1>3. CASE SendEnter(r) \/ Sent(r) \/ RunFails(r)
  BY <1>1, <1>3 DEF SendEnter, Sent, RunFails, Stages
<1>4. ASSUME NEW newline \in BOOLEAN, PasteBuffer(r, newline) PROVE TypeOK'
  <2>1. line' \in SUBSET Runs
    BY <1>4 DEF PasteBuffer, Type
  <2>2. run' \in [Runs -> [stage : Stages, typed : Runs \cup {None}]]
    BY <1>4 DEF PasteBuffer, Stages
  <2> QED
    BY <1>4, <2>1, <2>2 DEF PasteBuffer
<1> QED
  BY <1>2, <1>3, <1>4

LEMMA StepTyped == TypeOK /\ [Next]_vars => TypeOK'
<1> SUFFICES ASSUME TypeOK, [Next]_vars PROVE TypeOK'
  OBVIOUS
<1>1. CASE UNCHANGED vars
  BY <1>1 DEF vars, files, check, tmux, TypeOK
<1> QED
  BY <1>1, FilesTyped, ChecksTyped, RunsTyped DEF Next, FileStep, VerdictStep

LEMMA StartTyped == Init => TypeOK
<1> SUFFICES ASSUME Init PROVE TypeOK
  OBVIOUS
<1>1. Steps \in Nat \ {0} /\ 1 \in 1..Steps /\ 1 \in 1..Len(Checks) + 1
  BY PreviewAssumption, ChecksAreChecks
<1>2. save \in [Saves -> Save]
  BY ChecksAreChecks DEF Init, NoSave, Save
<1>3. verify \in [Verifies -> Verdict]
  BY NoVerdictTyped DEF Init
<1>4. run \in [Runs -> [stage : Stages, typed : Runs \cup {None}]]
  BY DEF Init, Stages
<1> QED
  BY <1>1, <1>2, <1>3, <1>4 DEF Init, TypeOK, Prepared, Contents

\* Every variable keeps its type.
THEOREM TypeCorrect == Spec => []TypeOK
  BY StartTyped, StepTyped, PTL DEF Spec

-----------------------------------------------------------------------------
(* Verdicts.                                                               *)

\* In these files, those of the first n checks that are of a step find what they expect.
Finds(f, s, n) == \A i \in 1..n : Checks[i].step = s => f[Checks[i].path] = "right"

\* What a calm check has read so far is what a check of all of it at once would read.
VerdictInv ==
    /\ \A v \in Verifies :
           verify[v].asked /\ verify[v].calm =>
               /\ verify[v].step = currentStep
               /\ verify[v].passed <=> Finds(file, currentStep, verify[v].next - 1)
    /\ VerdictStands

\* Nothing that a verdict depends on has changed.
LEMMA Undisturbed ==
  ASSUME VerdictInv, UNCHANGED <<file, currentStep, verify>>,
         calm' = FALSE \/ UNCHANGED <<result, calm>>
  PROVE  VerdictInv'
<1>1. VerdictStands'
  BY DEF VerdictInv, VerdictStands, Contains
<1> QED
  BY <1>1 DEF VerdictInv

\* Something has, and nothing is calm any more.
LEMMA AllDisturbed ==
  ASSUME TypeOK, Disturbed
  PROVE  VerdictInv'
<1>1. calm' = FALSE /\ \A v \in Verifies : verify'[v].calm = FALSE
  BY DisturbedTyped DEF TypeOK
<1> QED
  BY <1>1 DEF VerdictInv, VerdictStands

\* One check gets on, and the others are where they were.
LEMMA OneGetsOn ==
  ASSUME TypeOK, VerdictInv, NEW v \in Verifies, NEW one \in Verdict,
         verify' = [verify EXCEPT ![v] = one], UNCHANGED <<file, currentStep>>,
         one.asked /\ one.calm =>
             /\ one.step = currentStep
             /\ one.passed <=> Finds(file, currentStep, one.next - 1),
         VerdictStands'
  PROVE  VerdictInv'
<1> SUFFICES ASSUME NEW w \in Verifies, verify'[w].asked, verify'[w].calm
             PROVE  /\ verify'[w].step = currentStep
                    /\ verify'[w].passed <=> Finds(file, currentStep, verify'[w].next - 1)
  BY DEF VerdictInv
<1>1. CASE w = v
  BY <1>1 DEF TypeOK
<1>2. CASE w # v
  BY <1>2 DEF TypeOK, VerdictInv
<1> QED
  BY <1>1, <1>2

LEMMA VerdictKept == TypeOK /\ VerdictInv /\ [Next]_vars => VerdictInv'
<1> SUFFICES ASSUME TypeOK, VerdictInv, [Next]_vars PROVE VerdictInv'
  OBVIOUS
<1>0. UNCHANGED <<file, currentStep, result, calm>> => VerdictStands'
  BY DEF VerdictInv, VerdictStands, Contains
<1>1. CASE UNCHANGED vars
  BY <1>1, Undisturbed DEF vars, files, check
<1>2. ASSUME NEW w \in Saves, FileStep(w) PROVE VerdictInv'
  <2>1. CASE SaveFails(w) \/ \E p \in Paths, text \in {"wrong", "right"} : SaveFile(w, p, text)
    BY <2>1, Undisturbed DEF SaveFile, SaveFails, check
  <2>2. CASE Truncate(w) \/ WriteFile(w)
    <3>1. Disturbed
      BY <2>2 DEF Truncate, WriteFile, Written
    <3> QED
      BY <3>1, AllDisturbed
  <2> QED
    BY <1>2, <2>1, <2>2 DEF FileStep
<1>3. CASE \/ \E p \in Paths, contents \in Contents : Shell(p, contents)
           \/ \E s \in 1..Steps : ShowStep(s)
  BY <1>3, AllDisturbed DEF Shell, Written, ShowStep
<1>4. ASSUME NEW v \in Verifies, CheckStep(v) PROVE VerdictInv'
  <2>1. \A f, s : Finds(f, s, 1 - 1)
    BY DEF Finds
  <2>2. VerdictStands' /\ UNCHANGED <<file, currentStep>>
    BY <1>0, <1>4 DEF CheckStep, files
  <2>3. PICK one \in Verdict : /\ verify' = [verify EXCEPT ![v] = one]
                               /\ one.step = currentStep /\ one.next = 1 /\ one.passed
    BY <1>4, CheckAsked
  <2> QED
    BY <2>1, <2>2, <2>3, OneGetsOn
<1>5. ASSUME NEW v \in Verifies, Verify(v) PROVE VerdictInv'
  <2> DEFINE i == verify[v].next
  <2>1. VerdictStands' /\ UNCHANGED <<file, currentStep>> /\ verify[v].asked
    BY <1>0, <1>5 DEF Verify, files
  <2>2. i \in Nat /\ i >= 1
    <3>1. i \in 1..Len(Checks) + 1 /\ Len(Checks) \in Nat
      BY ChecksAreChecks DEF TypeOK, Verdict
    <3> QED
      BY <3>1
  <2>3. PICK one \in Verdict :
            /\ verify' = [verify EXCEPT ![v] = one]
            /\ one.step = verify[v].step /\ one.next = i + 1 /\ one.calm = verify[v].calm
            /\ one.passed <=> /\ verify[v].passed
                              /\ Checks[i].step = verify[v].step => Contains(i)
    BY <1>5, CheckRead
  <2>4. Finds(file, currentStep, i) <=> /\ Finds(file, currentStep, i - 1)
                                        /\ Checks[i].step = currentStep => Contains(i)
    <3>1. \A j : j \in 1..i <=> j \in 1..(i - 1) \/ j = i
      BY <2>2
    <3> QED
      BY <3>1 DEF Finds, Contains
  <2>5. one.next - 1 = i
    BY <2>2, <2>3
  <2>6. one.calm => /\ verify[v].step = currentStep
                    /\ verify[v].passed <=> Finds(file, currentStep, i - 1)
    BY <2>1, <2>3 DEF VerdictInv
  <2>7. one.calm => /\ one.step = currentStep
                    /\ one.passed <=> Finds(file, currentStep, one.next - 1)
    BY <2>3, <2>4, <2>5, <2>6
  <2> QED
    BY <2>1, <2>3, <2>7, OneGetsOn
<1>6. ASSUME NEW v \in Verifies, ShowVerdict(v) PROVE VerdictInv'
  <2>1. /\ UNCHANGED <<file, currentStep>> /\ verify[v].next = Len(Checks) + 1
        /\ verify[v].asked /\ verify' = [verify EXCEPT ![v] = NoVerdict]
        /\ result' = (IF verify[v].passed THEN "pass" ELSE "fail")
        /\ calm' = verify[v].calm
    BY <1>6 DEF ShowVerdict, files
  <2>2. calm' => (verify[v].passed <=> Finds(file, currentStep, Len(Checks)))
    <3>1. (Len(Checks) + 1) - 1 = Len(Checks)
      BY ChecksAreChecks
    <3> QED
      BY <2>1, <3>1 DEF VerdictInv
  <2>3. verify[v].passed \in BOOLEAN
    BY DEF TypeOK, Verdict
  <2>4. calm' => (result' = "pass" <=> Finds(file, currentStep, Len(Checks)))
    BY <2>1, <2>2, <2>3
  <2>5. VerdictStands'
    BY <2>1, <2>4 DEF VerdictStands, Finds, Contains
  <2>6. ~NoVerdict.asked
    BY DEF NoVerdict
  <2> QED
    BY <2>1, <2>5, <2>6, NoVerdictTyped, OneGetsOn
<1>7. ASSUME NEW v \in Verifies, VerdictLost(v) PROVE VerdictInv'
  <2>1. /\ VerdictStands' /\ UNCHANGED <<file, currentStep>>
        /\ verify' = [verify EXCEPT ![v] = NoVerdict]
    BY <1>0, <1>7 DEF VerdictLost, files
  <2>2. ~NoVerdict.asked
    BY DEF NoVerdict
  <2> QED
    BY <2>1, <2>2, NoVerdictTyped, OneGetsOn
<1>8. ASSUME NEW r \in Runs,
             \/ Click(r) \/ LoadBuffer(r) \/ SendEnter(r) \/ Sent(r) \/ RunFails(r)
             \/ \E newline \in BOOLEAN : PasteBuffer(r, newline)
      PROVE  VerdictInv'
  BY <1>8, Undisturbed
  DEF Click, LoadBuffer, SendEnter, Sent, RunFails, PasteBuffer, files, check
<1> QED
  BY <1>1, <1>2, <1>3, <1>4, <1>5, <1>6, <1>7, <1>8 DEF Next, FileStep, VerdictStep

\* A verdict that is shown while nothing was written and no other step shown since its
\* check was asked for is that of the step on display and of the files as they are,
\* however many checks and saves are under way.
THEOREM VerdictsStand == Spec => []VerdictStands
<1>1. Init => VerdictInv
  <2> SUFFICES ASSUME Init PROVE VerdictInv
    OBVIOUS
  <2>1. ~calm /\ \A v \in Verifies : ~verify[v].asked
    BY DEF Init, NoVerdict
  <2> QED
    BY <2>1 DEF VerdictInv, VerdictStands
<1>2. VerdictInv => VerdictStands
  BY DEF VerdictInv
<1> QED
  BY <1>1, <1>2, TypeCorrect, VerdictKept, PTL DEF Spec
=============================================================================
