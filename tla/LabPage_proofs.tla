---------------------------- MODULE LabPage_proofs ----------------------------
(***************************************************************************)
(* Proofs about LabPage and LabTabs, for any number of polls in flight,    *)
(* pauses, failed answers and tabs.                                        *)
(***************************************************************************)
EXTENDS LabTabs, SequenceTheorems, TLAPS

\* Once terminalOpened is set no loop is started; before, there is none.
TerminalInv ==
    /\ waiting \in Nat /\ terminals \in Nat
    /\ waiting + terminals <= 1
    /\ ~terminalOpened => waiting = 0 /\ terminals = 0

\* Steps that leave the terminal alone.
LEMMA TerminalKept ==
  ASSUME TerminalInv, UNCHANGED terminal
  PROVE  TerminalInv'
  BY DEF TerminalInv, terminal

\* Opening the setup terminal, for the first or for the n-th time.
LEMMA TerminalOpens ==
  ASSUME TerminalInv, OpenSetupTerminal
  PROVE  TerminalInv'
  BY DEF TerminalInv, OpenSetupTerminal

\* The page opens one terminal by itself, whatever answers come in whatever order.
THEOREM OneTerminal == Spec => []OneSetupTerminal
<1>1. Init => TerminalInv
  BY DEF Init, TerminalInv
<1>2. TerminalInv /\ [Next]_vars => TerminalInv'
  <2> SUFFICES ASSUME TerminalInv, [Next]_vars PROVE TerminalInv'
    OBVIOUS
  <2>1. CASE UNCHANGED vars
    BY <2>1, TerminalKept DEF vars
  <2>2. ASSUME NEW k \in Polls, Poll(k) \/ Answer(k) \/ LosePoll(k) PROVE TerminalInv'
    BY <2>2, TerminalKept DEF Poll, Answer, LosePoll
  <2>3. ASSUME NEW k \in Polls, HandleAnswer(k) PROVE TerminalInv'
    <3>1. OpenSetupTerminal \/ UNCHANGED terminal
      BY <2>3 DEF HandleAnswer, ShowReady, ShowPaused, ShowRunning
    <3>2. QED
      BY <3>1, TerminalKept, TerminalOpens
  <2>4. CASE TerminalAnswers
    BY <2>4 DEF TerminalAnswers, TerminalInv
  <2>5. CASE ResumeLab \/ DeadlinePasses
    BY <2>5, TerminalKept DEF ResumeLab, DeadlinePasses
  <2>6. CASE EndLab \/ PauseLab \/ TimerTick \/ \E request \in Requests : GoBack(request)
    BY <2>6, TerminalKept DEF EndLab, PauseLab, TimerTick, Leave, GoBack
  <2>7. CASE SessionComesUp \/ SessionPaused \/ ResumedElsewhere \/ SessionOver
    BY <2>7, TerminalKept
    DEF SessionComesUp, SessionPaused, ResumedElsewhere, SessionOver, StatusBecomes
  <2>8. QED
    BY <2>1, <2>2, <2>3, <2>4, <2>5, <2>6, <2>7 DEF Next
<1>3. TerminalInv => OneSetupTerminal
  BY DEF TerminalInv, OneSetupTerminal
<1>4. QED
  BY <1>1, <1>2, <1>3, PTL DEF Spec

\* Polling is given up only once the page shows the session as ready or paused, or
\* has been told that there is none, or is being left.
THEOREM GivesUpOnlyInformed == Spec => GivesUpInformed
<1>1. [Next]_vars /\ polling /\ ~polling' =>
          \/ labReady' \/ resumeBtn' # "hidden" \/ leaving' # {} \/ Broken
  <2> SUFFICES ASSUME [Next]_vars, polling, ~polling'
               PROVE  labReady' \/ resumeBtn' # "hidden" \/ leaving' # {} \/ Broken
    OBVIOUS
  <2>1. CASE \E k \in Polls : HandleAnswer(k)
    BY <2>1 DEF HandleAnswer, ShowReady, ShowPaused, ShowRunning, Broken
  <2>2. CASE EndLab \/ PauseLab \/ TimerTick
    BY <2>2 DEF EndLab, PauseLab, TimerTick, Leave
  <2>3. polling' = polling \/ (\E k \in Polls : HandleAnswer(k)) \/ EndLab \/ PauseLab
        \/ TimerTick
    BY DEF Next, vars, Poll, Answer, LosePoll, TerminalAnswers, GoBack, ResumeLab,
           DeadlinePasses, SessionComesUp, SessionPaused, ResumedElsewhere,
           SessionOver, StatusBecomes
  <2>4. QED
    BY <2>1, <2>2, <2>3
<1>2. QED
  BY <1>1, PTL DEF Spec, GivesUpInformed

\* The page asks no more, and every answer has been handled.
NoAnswersToCome == ~polling /\ \A k \in Polls : polls[k] = "unused"

\* From then on nothing unlocks the lab.
StaysAsItIs == NoAnswersToCome => NoAnswersToCome' /\ labReady' = labReady

\* pollSession, resumeLab: nothing sets the interval again once it has been cleared, so a
\* page that has handled its last answer shows the lab as it did then, also when the
\* learner clicks Resume and the session comes up: what ResumeReconnects is refuted by is
\* no race, but what every such page does.
THEOREM NothingReconnects == Spec => [][StaysAsItIs]_vars
<1>1. ASSUME [Next]_vars, NoAnswersToCome PROVE NoAnswersToCome' /\ labReady' = labReady
  <2> USE DEF NoAnswersToCome
  <2>1. ASSUME NEW k \in Polls, Poll(k) \/ Answer(k) \/ HandleAnswer(k) \/ LosePoll(k)
        PROVE  FALSE
    BY <1>1, <2>1 DEF Poll, Answer, HandleAnswer, LosePoll, Answers, Statuses
  <2>2. CASE EndLab \/ PauseLab \/ TimerTick \/ \E request \in Requests : GoBack(request)
    BY <1>1, <2>2 DEF EndLab, PauseLab, TimerTick, Leave, GoBack, display
  <2>3. CASE \/ UNCHANGED vars \/ TerminalAnswers \/ ResumeLab \/ DeadlinePasses
             \/ SessionComesUp \/ SessionPaused \/ ResumedElsewhere \/ SessionOver
    BY <1>1, <2>3 DEF vars, display, TerminalAnswers, ResumeLab, DeadlinePasses,
       SessionComesUp, SessionPaused, ResumedElsewhere, SessionOver, StatusBecomes
  <2>4. QED
    BY <1>1, <2>1, <2>2, <2>3 DEF Next
<1>2. QED
  BY <1>1, PTL DEF Spec, StaysAsItIs

-----------------------------------------------------------------------------
(* Types.                                                                  *)

\* Every action keeps the types.
LEMMA StepTyped == TypeOK /\ [Next]_vars => TypeOK'
<1> SUFFICES ASSUME TypeOK, [Next]_vars PROVE TypeOK'
  OBVIOUS
<1> USE DEF TypeOK, Statuses, Answers
<1>1. CASE UNCHANGED vars
  BY <1>1 DEF vars, timer, going, display, terminal, bounds
<1>2. ASSUME NEW k \in Polls, Poll(k) PROVE TypeOK'
  BY <1>2 DEF Poll, timer, going, display, terminal, bounds
<1>3. ASSUME NEW k \in Polls, Answer(k) PROVE TypeOK'
  <2>1. failures' \in 0..MaxFailures
    BY <1>3, PageAssumption DEF Answer
  <2> QED
    BY <1>3, <2>1 DEF Answer, timer, going, display, terminal
<1>4. ASSUME NEW k \in Polls, LosePoll(k) PROVE TypeOK'
  <2>1. failures' \in 0..MaxFailures
    BY <1>4, PageAssumption DEF LosePoll
  <2> QED
    BY <1>4, <2>1 DEF LosePoll, timer, going, display, terminal
<1>5. ASSUME NEW k \in Polls, HandleAnswer(k) PROVE TypeOK'
  <2>1. terminalOpened' \in BOOLEAN /\ waiting' \in Nat /\ terminals' \in Nat
    <3>1. OpenSetupTerminal \/ UNCHANGED terminal
      BY <1>5 DEF HandleAnswer, ShowReady, ShowPaused, ShowRunning
    <3>2. /\ waiting' = waiting \/ waiting' = waiting + 1
          /\ terminals' = terminals
          /\ terminalOpened' = TRUE \/ terminalOpened' = terminalOpened
      BY <3>1 DEF OpenSetupTerminal, terminal
    <3>3. waiting' \in Nat /\ terminals' \in Nat
      BY <3>2
    <3> QED
      BY <3>2, <3>3
  <2>2. /\ polls' \in [Polls -> {"unused", "asked"} \cup Answers]
        /\ polling' \in BOOLEAN /\ expiresAt' \in BOOLEAN /\ ticking' \in BOOLEAN
        /\ sessionStatus' \in Statuses /\ labReady' \in BOOLEAN
        /\ resumeBtn' \in {"hidden", "enabled", "resuming"}
    BY <1>5 DEF HandleAnswer, ShowReady, ShowPaused, ShowRunning, StartTimer, timer, display
  <2> QED
    BY <1>5, <2>1, <2>2 DEF HandleAnswer, going, bounds
<1>6. CASE TerminalAnswers
  BY <1>6 DEF TerminalAnswers, timer, going, display, bounds
<1>7. CASE EndLab \/ PauseLab \/ TimerTick
  <2>1. PICK request \in Requests : Leave(request)
    BY <1>7 DEF EndLab, PauseLab, TimerTick, Requests
  <2>2. leaving' \subseteq Requests
    BY <2>1 DEF Leave
  <2> QED
    BY <2>1, <2>2 DEF Leave, display, terminal, bounds
<1>11. ASSUME NEW request \in Requests, GoBack(request) PROVE TypeOK'
  <2>1. pauses' \in 0..MaxPauses
    BY <1>11, PageAssumption DEF GoBack
  <2> QED
    BY <1>11, <2>1 DEF GoBack, timer, display, terminal
<1>8. CASE ResumeLab \/ DeadlinePasses
  <2>1. CASE ResumeLab
    BY <2>1 DEF ResumeLab, timer, going, terminal, bounds
  <2>2. CASE DeadlinePasses
    BY <2>2 DEF DeadlinePasses, timer, going, display, terminal, bounds
  <2> QED
    BY <1>8, <2>1, <2>2
<1>9. CASE SessionComesUp \/ ResumedElsewhere \/ SessionOver
  BY <1>9 DEF SessionComesUp, ResumedElsewhere, SessionOver, StatusBecomes, timer, going,
              display, terminal
<1>10. CASE SessionPaused
  <2>1. pauses' \in 0..MaxPauses
    BY <1>10, PageAssumption DEF SessionPaused
  <2> QED
    BY <1>10, <2>1 DEF SessionPaused, StatusBecomes, timer, going, display, terminal
<1> QED
  BY <1>1, <1>2, <1>3, <1>4, <1>5, <1>6, <1>7, <1>8, <1>9, <1>10, <1>11 DEF Next

\* Every variable of the page keeps its type.
THEOREM TypeCorrect == Spec => []TypeOK
<1>1. Init => TypeOK
  <2> SUFFICES ASSUME Init PROVE TypeOK
    OBVIOUS
  <2>1. polls \in [Polls -> {"unused", "asked"} \cup Answers]
    BY DEF Init
  <2>2. pauses \in 0..MaxPauses /\ failures \in 0..MaxFailures
    BY PageAssumption DEF Init
  <2> QED
    BY <2>1, <2>2 DEF Init, TypeOK, Statuses
<1> QED
  BY <1>1, StepTyped, PTL DEF Spec

-----------------------------------------------------------------------------
(* Tabs.                                                                   *)

\* Whatever happens to the tabs, the page polls, waits and leaves as without them.
THEOREM TabsAreThePage == TabsSpec => Spec
<1>1. TabsInit => Init
  BY DEF TabsInit
<1>2. [TabsNext]_tabVars => [Next]_vars
  <2> SUFFICES ASSUME [TabsNext]_tabVars PROVE [Next]_vars
    OBVIOUS
  <2>1. CASE Click
    BY <2>1 DEF Click
  <2>2. CASE TerminalReached
    BY <2>2 DEF TerminalReached, Next
  <2>3. ASSUME NEW k \in Polls, Handle(k) PROVE Next
    BY <2>3 DEF Handle, Next
  <2>4. CASE \E k \in Polls : Aside(Poll(k)) \/ Aside(Answer(k)) \/ Aside(LosePoll(k))
    BY <2>4 DEF Aside, Next
  <2>5. CASE \/ Aside(EndLab) \/ Aside(PauseLab) \/ Aside(ResumeLab) \/ Aside(TimerTick)
             \/ Aside(SessionComesUp) \/ Aside(SessionPaused) \/ Aside(ResumedElsewhere)
             \/ Aside(SessionOver) \/ Aside(DeadlinePasses)
             \/ \E request \in Requests : Aside(GoBack(request))
    BY <2>5 DEF Aside, Next
  <2>6. CASE UNCHANGED tabVars
    BY <2>6 DEF tabVars
  <2> QED
    BY <2>1, <2>2, <2>3, <2>4, <2>5, <2>6 DEF TabsNext
<1> QED
  BY <1>1, <1>2, PTL DEF TabsSpec, Spec

\* The tabs carry their own numbers, and the active one is there if any is.
TabsInv ==
    /\ tabs \in Seq(Tab) /\ Len(tabs) <= MaxTabs
    /\ activeTab \in 0..MaxTabs
    /\ ideOpen \in BOOLEAN
    /\ tabs # <<>> => activeTab \in 1..Len(tabs)
    /\ OneShown /\ ButtonsFollow

Shape(T) ==
    /\ T \in Seq(Tab) /\ Len(T) <= MaxTabs
    /\ \A i \in 1..Len(T) : T[i].acts = i

\* Whatever the tabs are by then, showing one of them hides the others.
LEMMA Switching ==
  ASSUME NEW T, Shape(T), NEW k \in 1..MaxTabs, T # <<>> => k <= Len(T), SwitchTab(T, k)
  PROVE  TabsInv'
<1> DEFINE n == Len(T)
<1>1. n \in Nat /\ DOMAIN T = 1..n /\ T \in [1..n -> Tab]
  BY LenProperties DEF Shape
<1>2. tabs' \in [1..n -> Tab]
  <2>1. \A i \in 1..n : [T[i] EXCEPT !.shown = (i = k)] \in Tab
    BY <1>1 DEF Tab
  <2> QED
    BY <1>1, <2>1 DEF SwitchTab
<1>3. tabs' \in Seq(Tab) /\ Len(tabs') = n /\ DOMAIN tabs' = 1..n
  BY <1>1, <1>2, SeqDef
<1>4. \A i \in 1..n : (tabs'[i].shown <=> i = k) /\ tabs'[i].acts = i
  <2> SUFFICES ASSUME NEW i \in 1..n
               PROVE  (tabs'[i].shown <=> i = k) /\ tabs'[i].acts = i
    OBVIOUS
  <2>1. T[i] \in Tab /\ T[i].acts = i
    BY <1>1 DEF Shape
  <2>2. CASE i = k
    <3>1. tabs'[i] = [T[i] EXCEPT !.shown = TRUE]
      BY <1>1, <2>2 DEF SwitchTab
    <3> QED
      BY <2>1, <2>2, <3>1 DEF Tab
  <2>3. CASE i # k
    <3>1. tabs'[i] = [T[i] EXCEPT !.shown = FALSE]
      BY <1>1, <2>3 DEF SwitchTab
    <3> QED
      BY <2>1, <2>3, <3>1 DEF Tab
  <2> QED
    BY <2>2, <2>3
<1>5. activeTab' = k /\ ideOpen' = FALSE
  BY DEF SwitchTab
<1>6. tabs' # <<>> => n # 0
  BY <1>3, EmptySeq
<1>7. tabs' # <<>> => k \in 1..n
  BY <1>1, <1>6, EmptySeq
<1>8. OneShown'
  BY <1>3, <1>4, <1>5, <1>7 DEF OneShown
<1>9. ButtonsFollow'
  BY <1>3, <1>4 DEF ButtonsFollow
<1>10. activeTab' \in 0..MaxTabs
  BY <1>5, TabsAssumption
<1> QED
  BY <1>1, <1>3, <1>5, <1>7, <1>8, <1>9, <1>10 DEF TabsInv, Shape

\* Another tab gets the next number.
LEMMA Adding == ASSUME TabsInv, AddTab PROVE TabsInv'
<1>1. CASE Len(tabs) >= MaxTabs
  BY <1>1 DEF AddTab, screen, TabsInv, OneShown, ButtonsFollow
<1>2. CASE ~(Len(tabs) >= MaxTabs)
  <2> DEFINE id == Len(tabs) + 1
             new == [terminal |-> IF id = 1 THEN "main" ELSE "shell",
                     shown |-> FALSE, acts |-> id]
             T == Append(tabs, new)
  <2>1. Len(tabs) \in Nat /\ DOMAIN tabs = 1..Len(tabs)
    BY LenProperties DEF TabsInv
  <2>2. id \in 1..MaxTabs
    BY <1>2, <2>1, TabsAssumption
  <2>3. new \in Tab
    BY <2>2 DEF Tab
  <2>4. T \in Seq(Tab) /\ Len(T) = id /\ T[id] = new
        /\ \A i \in 1..Len(tabs) : T[i] = tabs[i]
    BY <2>3, AppendProperties DEF TabsInv
  <2>5. \A i \in 1..id : T[i].acts = i
    BY <2>1, <2>4 DEF TabsInv, ButtonsFollow
  <2>6. Shape(T)
    BY <2>2, <2>4, <2>5 DEF Shape
  <2>7. SwitchTab(T, id)
    BY <1>2 DEF AddTab
  <2>8. id <= Len(T)
    BY <2>2, <2>4
  <2> HIDE DEF T, id
  <2> QED
    BY <2>2, <2>6, <2>7, <2>8, Switching
<1> QED
  BY <1>1, <1>2

\* One is closed: the others move up and get new numbers.
LEMMA Closing ==
  ASSUME TabsInv, NEW k \in 1..Len(tabs), CloseTab(k)
  PROVE  TabsInv'
<1> DEFINE R == RemoveAt(tabs, k)
           T == Renumbered(R)
           m == Len(tabs) - 1
<1>1. Len(tabs) \in Nat /\ Len(tabs) > 1 /\ tabs \in [1..Len(tabs) -> Tab]
  BY LenProperties DEF TabsInv, CloseTab
<1>2. R \in Seq(Tab) /\ Len(R) = m
  <2> DEFINE a == SubSeq(tabs, 1, k - 1)
             b == SubSeq(tabs, k + 1, Len(tabs))
  <2>1. /\ k - 1 \in Int /\ k + 1 \in Int /\ Len(tabs) \in Int /\ 1 \in Int
        /\ \A i \in 1..(k - 1) : tabs[i] \in Tab
        /\ \A i \in (k + 1)..Len(tabs) : tabs[i] \in Tab
    BY <1>1
  <2>2. a \in Seq(Tab) /\ Len(a) = IF 1 <= k - 1 THEN k - 1 - 1 + 1 ELSE 0
    BY <2>1, SubSeqProperties
  <2>3. /\ b \in Seq(Tab)
        /\ Len(b) = IF k + 1 <= Len(tabs) THEN Len(tabs) - (k + 1) + 1 ELSE 0
    BY <2>1, SubSeqProperties
  <2>4. R = a \o b
    BY DEF RemoveAt
  <2> HIDE DEF R, a, b
  <2>5. R \in Seq(Tab) /\ Len(R) = Len(a) + Len(b)
    BY <2>2, <2>3, <2>4, ConcatProperties
  <2>6. Len(a) = k - 1
    BY <1>1, <2>2
  <2>7. Len(b) = Len(tabs) - k
    <3>1. CASE k + 1 <= Len(tabs)
      BY <1>1, <2>3, <3>1
    <3>2. CASE ~(k + 1 <= Len(tabs))
      <4>1. k = Len(tabs)
        <5>1. \A x, y \in Nat : y <= x /\ ~(y + 1 <= x) => y = x
          OBVIOUS
        <5>2. k \in Nat /\ k <= Len(tabs)
          BY <1>1
        <5> QED
          BY <1>1, <3>2, <5>1, <5>2
      <4> QED
        BY <1>1, <2>3, <3>2, <4>1
    <3> QED
      BY <3>1, <3>2
  <2> QED
    BY <1>1, <2>5, <2>6, <2>7
<1>3. R \in [1..m -> Tab] /\ DOMAIN R = 1..m /\ m \in 1..MaxTabs
  <2>1. m \in 1..MaxTabs
    BY <1>1, TabsAssumption DEF TabsInv
  <2> HIDE DEF R
  <2> QED
    BY <2>1, <1>2, LenProperties
<1>4. T \in [1..m -> Tab] /\ \A i \in 1..m : T[i].acts = i
  <2> HIDE DEF R
  <2>1. \A i \in 1..m : R[i] \in Tab /\ i \in 1..MaxTabs
    BY <1>3, TabsAssumption
  <2>2. \A x \in Tab, i \in 1..MaxTabs : /\ [x EXCEPT !.acts = i] \in Tab
                                         /\ [x EXCEPT !.acts = i].acts = i
    BY DEF Tab
  <2> QED
    BY <1>3, <2>1, <2>2 DEF Renumbered
<1>5. T \in Seq(Tab) /\ Len(T) = m
  BY <1>3, <1>4, SeqDef
<1>6. Shape(T)
  BY <1>3, <1>4, <1>5 DEF Shape
<1>7. SwitchTab(T, IF k <= m THEN k ELSE m)
  BY <1>5 DEF CloseTab
<1>8. \E j \in 1..m : SwitchTab(T, j)
  BY <1>1, <1>3, <1>7
<1> HIDE DEF T
<1> QED
  BY <1>3, <1>5, <1>6, <1>8, TabsAssumption, Switching

\* What the learner clicks on.
LEMMA Clicking == ASSUME TabsInv, Click PROVE TabsInv'
<1>1. Len(tabs) \in Nat /\ DOMAIN tabs = 1..Len(tabs) /\ Shape(tabs)
  BY LenProperties DEF TabsInv, ButtonsFollow, Shape
<1>2. tabs # <<>> => Len(tabs) # 0
  BY <1>1, EmptySeq DEF TabsInv
<1>3. CASE AddTab
  BY <1>3, Adding
<1>4. CASE ToggleIDE
  <2>1. CASE ~ideOpen
    <3>1. /\ ideOpen' = TRUE /\ activeTab' = activeTab
          /\ tabs' = [i \in DOMAIN tabs |-> [tabs[i] EXCEPT !.shown = FALSE]]
      BY <1>4, <2>1 DEF ToggleIDE, OpenIDE
    <3>2. tabs \in [1..Len(tabs) -> Tab]
      BY LenProperties DEF TabsInv
    <3>3. /\ tabs' \in [1..Len(tabs) -> Tab]
          /\ \A i \in 1..Len(tabs) : tabs'[i].shown = FALSE /\ tabs'[i].acts = i
      <4>1. ASSUME NEW i \in 1..Len(tabs)
            PROVE  tabs'[i] \in Tab /\ tabs'[i].shown = FALSE /\ tabs'[i].acts = i
        <5>1. tabs[i] \in Tab /\ tabs[i].acts = i
          BY <1>1, <3>2 DEF Shape
        <5>2. tabs'[i] = [tabs[i] EXCEPT !.shown = FALSE]
          BY <1>1, <3>1
        <5> QED
          BY <5>1, <5>2 DEF Tab
      <4> QED
        BY <1>1, <3>1, <4>1
    <3>4. tabs' \in Seq(Tab) /\ Len(tabs') = Len(tabs) /\ DOMAIN tabs' = 1..Len(tabs)
      BY <1>1, <3>3, SeqDef
    <3>5. tabs' # <<>> => tabs # <<>>
      BY <3>4, EmptySeq
    <3>6. OneShown' /\ ButtonsFollow'
      BY <3>1, <3>3, <3>4 DEF OneShown, ButtonsFollow
    <3> QED
      BY <3>1, <3>4, <3>5, <3>6 DEF TabsInv
  <2>2. CASE ideOpen /\ activeTab # 0
    <3>1. activeTab \in 1..MaxTabs /\ (tabs # <<>> => activeTab <= Len(tabs))
      BY <2>2, <1>1, TabsAssumption DEF TabsInv
    <3> QED
      BY <1>1, <1>4, <2>2, <3>1, Switching DEF ToggleIDE
  <2>3. CASE ideOpen /\ activeTab = 0
    <3>1. tabs = <<>>
      BY <2>3, <1>1 DEF TabsInv
    <3>2. ideOpen' = FALSE /\ tabs' = tabs /\ activeTab' = activeTab
      BY <1>4, <2>3 DEF ToggleIDE
    <3> QED
      BY <3>1, <3>2 DEF TabsInv, OneShown, ButtonsFollow
  <2> QED
    BY <2>1, <2>2, <2>3 DEF TabsInv
<1>5. ASSUME NEW i \in DOMAIN tabs, SwitchTab(tabs, tabs[i].acts) PROVE TabsInv'
  <2>1. tabs[i].acts \in 1..MaxTabs /\ tabs[i].acts <= Len(tabs)
    BY <1>1, TabsAssumption DEF Shape
  <2> QED
    BY <1>1, <1>5, <2>1, Switching
<1>6. ASSUME NEW i \in DOMAIN tabs, CloseTab(tabs[i].acts) PROVE TabsInv'
  BY <1>1, <1>6, Closing DEF Shape
<1>7. CASE RunCommand
  <2>1. 1 \in 1..MaxTabs /\ (tabs # <<>> => 1 <= Len(tabs))
    BY <1>1, <1>2, TabsAssumption
  <2>2. CASE UNCHANGED screen
    BY <2>2 DEF screen, TabsInv, OneShown, ButtonsFollow
  <2> QED
    BY <1>1, <1>7, <2>1, <2>2, Switching DEF RunCommand
<1> QED
  BY <1>3, <1>4, <1>5, <1>6, <1>7 DEF Click

LEMMA TabsKept == TabsInv /\ [TabsNext]_tabVars => TabsInv'
<1> SUFFICES ASSUME TabsInv, [TabsNext]_tabVars PROVE TabsInv'
  OBVIOUS
<1>1. CASE UNCHANGED screen
  BY <1>1 DEF screen, TabsInv, OneShown, ButtonsFollow
<1>2. Click \/ TerminalReached \/ UNCHANGED screen
  BY DEF TabsNext, Handle, Aside, tabVars
<1> QED
  BY <1>1, <1>2, Clicking, Adding DEF TerminalReached

LEMMA TabsAreInvariant == TabsSpec => []TabsInv
<1>1. TabsInit => TabsInv
  <2> SUFFICES ASSUME TabsInit PROVE TabsInv
    OBVIOUS
  <2>1. tabs = <<>> /\ tabs \in Seq(Tab) /\ Len(tabs) = 0
    BY EmptySeq DEF TabsInit
  <2>2. 0 \in 0..MaxTabs /\ 0 <= MaxTabs
    BY TabsAssumption
  <2>3. DOMAIN tabs = {}
    BY <2>1, LenProperties
  <2>4. OneShown /\ ButtonsFollow
    BY <2>1, <2>3 DEF OneShown, ButtonsFollow
  <2> QED
    BY <2>1, <2>2, <2>4 DEF TabsInit, TabsInv
<1> QED
  BY <1>1, TabsKept, PTL DEF TabsSpec

\* Whatever is opened and closed, by the learner or by the page, the IDE is shown alone,
\* or else the active tab and no other one.
THEOREM OneTabShown == TabsSpec => []OneShown
  BY TabsAreInvariant, PTL DEF TabsInv

\* After any tabs have been closed and added, a tab's buttons act on that tab.
THEOREM ButtonsFollowTabs == TabsSpec => []ButtonsFollow
  BY TabsAreInvariant, PTL DEF TabsInv

\* The buttons for another tab and for the IDE are enabled or not.
ToolsOK == tools \in BOOLEAN

LEMMA ToolsKept == ToolsOK /\ [TabsNext]_tabVars => ToolsOK'
<1> SUFFICES ASSUME ToolsOK, [TabsNext]_tabVars PROVE ToolsOK'
  OBVIOUS
<1>1. CASE UNCHANGED tools
  BY <1>1 DEF ToolsOK
<1>2. ASSUME NEW k \in Polls, Handle(k) PROVE ToolsOK'
  BY <1>2 DEF Handle, ToolsOK
<1>3. UNCHANGED tools \/ \E k \in Polls : Handle(k)
  BY DEF TabsNext, Click, TerminalReached, Aside, tabVars
<1> QED
  BY <1>1, <1>2, <1>3

\* addTab, closeTab, toggleIDE and the answers keep the page's state of its type, and there
\* are never more than MAX_TABS tabs.
THEOREM TabsTypeCorrect == TabsSpec => []TabsTypeOK
<1>1. TabsInit => ToolsOK
  BY DEF TabsInit, ToolsOK
<1>2. TypeOK /\ TabsInv /\ ToolsOK => TabsTypeOK
  BY DEF TabsInv, ToolsOK, TabsTypeOK
<1> QED
  BY <1>1, <1>2, ToolsKept, TabsAreThePage, TypeCorrect, TabsAreInvariant, PTL DEF TabsSpec
=============================================================================
