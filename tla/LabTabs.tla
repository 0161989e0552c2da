------------------------------- MODULE LabTabs -------------------------------
(***************************************************************************)
(* The right half of the lab page (web/static/lab.html), on top of LabPage:*)
(* the terminal tabs, the first of which the page opens by itself once the *)
(* terminal answers, the Web IDE that is shown instead of them, and the    *)
(* clicks on commands, which bring the first tab to the front.             *)
(***************************************************************************)
EXTENDS LabPage, SequencesExt

CONSTANT MaxTabs    \* MAX_TABS

ASSUME TabsAssumption == MaxTabs \in Nat \ {0}

\* A tab's terminal is tmux, which the setup and the clicked commands use, or a shell of
\* its own.  The tabs are numbered from 1; acts: the number its button was given.
Tab == [terminal : {"main", "shell"}, shown : BOOLEAN, acts : 1..MaxTabs]

VARIABLES
    tabs,
    activeTab,  \* 0: none yet
    ideOpen,
    tools       \* the buttons for another tab and for the IDE were enabled

screen == <<tabs, activeTab, ideOpen>>
tabVars == <<vars, screen, tools>>

TabsTypeOK ==
    /\ TypeOK
    /\ tabs \in Seq(Tab) /\ Len(tabs) <= MaxTabs
    /\ activeTab \in 0..MaxTabs
    /\ ideOpen \in BOOLEAN /\ tools \in BOOLEAN

TabsInit == Init /\ tabs = <<>> /\ activeTab = 0 /\ ideOpen = FALSE /\ tools = FALSE

-----------------------------------------------------------------------------
(* Tabs.                                                                   *)

\* switchTab, of the tabs as they are by then; it leaves the IDE.
SwitchTab(T, k) ==
    /\ tabs' = [i \in DOMAIN T |-> [T[i] EXCEPT !.shown = (i = k)]]
    /\ activeTab' = k
    /\ ideOpen' = FALSE

\* Mutant: there may be any number of tabs.
AddAnyTab ==
    LET id == Len(tabs) + 1 IN
    SwitchTab(Append(tabs, [terminal |-> IF id = 1 THEN "main" ELSE "shell",
                            shown |-> FALSE, acts |-> id]), id)

\* addTab.
AddTab ==
    LET id == Len(tabs) + 1 IN
    IF Len(tabs) >= MaxTabs THEN UNCHANGED screen
    ELSE SwitchTab(Append(tabs, [terminal |-> IF id = 1 THEN "main" ELSE "shell",
                                 shown |-> FALSE, acts |-> id]), id)

\* Mutant: the buttons keep the numbers they were given.
Unnumbered(T) == T

\* closeTab gives the tabs that are left new numbers.
Renumbered(T) == [i \in DOMAIN T |-> [T[i] EXCEPT !.acts = i]]

CloseTab(k) ==
    LET T == Renumbered(RemoveAt(tabs, k)) IN
    /\ Len(tabs) > 1
    /\ SwitchTab(T, IF k <= Len(T) THEN k ELSE Len(T))

\* Mutant: the tabs stay where they are.
OpenIDEOver == ideOpen' = TRUE /\ UNCHANGED <<tabs, activeTab>>

OpenIDE ==
    /\ ideOpen' = TRUE
    /\ tabs' = [i \in DOMAIN tabs |-> [tabs[i] EXCEPT !.shown = FALSE]]
    /\ UNCHANGED activeTab

ToggleIDE ==
    IF ~ideOpen THEN OpenIDE
    ELSE IF activeTab # 0 THEN SwitchTab(tabs, activeTab)
    ELSE ideOpen' = FALSE /\ UNCHANGED <<tabs, activeTab>>

\* A click on a command.  Without a tab it raises after it has made the first, which is
\* not there, the active one.
RunCommand ==
    /\ labReady
    /\ IF activeTab # 1 THEN SwitchTab(tabs, 1) ELSE UNCHANGED screen

Click ==
    /\ ~left
    /\ \/ (tools \/ tabs # <<>>) /\ AddTab
       \/ tools /\ ToggleIDE
       \/ \E i \in DOMAIN tabs : SwitchTab(tabs, tabs[i].acts) \/ CloseTab(tabs[i].acts)
       \/ RunCommand
    /\ UNCHANGED <<vars, tools>>

-----------------------------------------------------------------------------
(* What the page does by itself.                                           *)

TerminalReached == TerminalAnswers /\ AddTab /\ UNCHANGED tools

Handle(k) ==
    /\ HandleAnswer(k)
    /\ tools' = (tools \/ polls[k] = "ready")
    /\ UNCHANGED screen

\* The rest of LabPage has no part in it.
Aside(A) == A /\ UNCHANGED <<screen, tools>>

TabsNext ==
    \/ Click \/ TerminalReached
    \/ \E k \in Polls : Handle(k)
    \/ \E k \in Polls : Aside(Poll(k)) \/ Aside(Answer(k)) \/ Aside(LosePoll(k))
    \/ Aside(EndLab) \/ Aside(PauseLab) \/ Aside(ResumeLab) \/ Aside(TimerTick)
    \/ Aside(SessionComesUp) \/ Aside(SessionPaused) \/ Aside(ResumedElsewhere)
    \/ Aside(SessionOver) \/ Aside(DeadlinePasses)
    \/ \E request \in Requests : Aside(GoBack(request))

\* As in LabPage; the learner does not have to click on anything.
TabsFairness ==
    /\ \A k \in Polls :
        /\ WF_tabVars(Aside(Poll(k))) /\ WF_tabVars(Aside(Answer(k)))
        /\ WF_tabVars(Handle(k))
    /\ WF_tabVars(TerminalReached)
    /\ WF_tabVars(Aside(TimerTick)) /\ WF_tabVars(Aside(SessionComesUp))
    /\ \A request \in Requests : WF_tabVars(Aside(GoBack(request)))

TabsSpec == TabsInit /\ [][TabsNext]_tabVars /\ TabsFairness

-----------------------------------------------------------------------------
(* Properties.                                                             *)

\* switchTab, toggleIDE: whatever is opened and closed, by the learner or by the page itself,
\* the IDE is shown alone, or else the active tab and no other one.
OneShown ==
    tabs # <<>> => {i \in DOMAIN tabs : tabs[i].shown} = IF ideOpen THEN {} ELSE {activeTab}

\* closeTab: after any tabs have been closed and added, a tab's buttons act on that tab.
ButtonsFollow == \A i \in DOMAIN tabs : tabs[i].acts = i
=============================================================================
