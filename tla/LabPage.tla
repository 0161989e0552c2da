------------------------------- MODULE LabPage -------------------------------
(***************************************************************************)
(* The lab page (web/static/lab.html): how it follows its session by       *)
(* polling, opens the setup terminal, and lets the learner pause, resume   *)
(* and end the lab.  The interval timer starts a poll every 4 seconds      *)
(* whether or not the one before has been answered, so several are in      *)
(* flight and their answers are handled in any order.  StepChecks models   *)
(* the steps and their checks.                                             *)
(***************************************************************************)
EXTENDS Naturals, FiniteSets

CONSTANTS
    Polls,        \* the polls that can be in flight at a time
    MaxPauses,    \* pauses of the session, from whatever page
    MaxFailures   \* answers that are errors because the API server failed

ASSUME PageAssumption ==
    /\ IsFiniteSet(Polls)
    /\ MaxPauses \in Nat /\ MaxFailures \in Nat

\* Statuses of a session in the lab server's answers (lsToSession).
Statuses == {"provisioning", "running", "ready", "paused", "expired"}

Answers == Statuses \cup {"error"}

VARIABLES
    status,      \* what the lab server answers now
    polls,       \* the state of each poll: unused, asked, or its answer
    polling,     \* pollInterval is set
    sessionStatus, \* the status the overview is drawn for
    labReady,    \* the lab is unlocked
    resumeBtn,   \* "hidden", "enabled" or "resuming"
    terminalOpened,
    waiting,     \* loops of waitForTerminal that wait for the terminal
    terminals,   \* tabs the page has opened by itself
    expiresAt,   \* it is known
    ticking,     \* timerInterval is set
    leaving,     \* requests that are awaited before the page is left
    left,        \* the page has gone back to the catalog
    deadline,    \* the clock is past expiresAt
    pauses, failures

display == <<sessionStatus, labReady, resumeBtn>>
terminal == <<terminalOpened, waiting, terminals>>
timer == <<expiresAt, ticking>>
going == <<leaving, left>>
bounds == <<pauses, failures>>
vars == <<status, polls, polling, timer, display, terminal, going, deadline, bounds>>

\* DELETE and POST .../pause.
Requests == {"end", "pause"}

TypeOK ==
    /\ status \in Statuses
    /\ polls \in [Polls -> {"unused", "asked"} \cup Answers]
    /\ polling \in BOOLEAN /\ expiresAt \in BOOLEAN /\ ticking \in BOOLEAN
    /\ sessionStatus \in Statuses
    /\ labReady \in BOOLEAN
    /\ resumeBtn \in {"hidden", "enabled", "resuming"}
    /\ terminalOpened \in BOOLEAN
    /\ waiting \in Nat /\ terminals \in Nat
    /\ leaving \subseteq Requests
    /\ left \in BOOLEAN /\ deadline \in BOOLEAN
    /\ pauses \in 0..MaxPauses /\ failures \in 0..MaxFailures

\* init() has shown the first step and calls pollSession.
Init ==
    /\ status \in Statuses \ {"expired"}
    /\ polls = [k \in Polls |-> "unused"]
    /\ polling = TRUE /\ expiresAt = FALSE /\ ticking = FALSE
    /\ sessionStatus = "provisioning" /\ labReady = FALSE /\ resumeBtn = "hidden"
    /\ terminalOpened = FALSE /\ waiting = 0 /\ terminals = 0
    /\ leaving = {} /\ left = FALSE /\ deadline = FALSE
    /\ pauses = MaxPauses /\ failures = MaxFailures

-----------------------------------------------------------------------------
(* Polling.                                                                *)

Poll(k) ==
    /\ polling /\ ~left /\ polls[k] = "unused"
    /\ polls' = [polls EXCEPT ![k] = "asked"]
    /\ UNCHANGED <<status, polling, timer, display, terminal, going, deadline, bounds>>

\* The lab server reads the session; it answers an error of the API server with
\* 404, which the page cannot tell from a session that does not exist.
Answer(k) ==
    /\ polls[k] = "asked"
    /\ \/ polls' = [polls EXCEPT ![k] = status] /\ UNCHANGED failures
       \/ /\ failures > 0 /\ failures' = failures - 1
          /\ polls' = [polls EXCEPT ![k] = "error"]
    /\ UNCHANGED <<status, polling, timer, display, terminal, going, deadline, pauses>>

\* Mutant: what is opened is noted only once the terminal is there.
OpenSetupTerminalLate ==
    /\ waiting' = IF terminals > 0 THEN waiting ELSE waiting + 1
    /\ UNCHANGED <<terminalOpened, terminals>>

OpenSetupTerminal ==
    /\ terminalOpened' = TRUE
    /\ waiting' = IF terminalOpened THEN waiting ELSE waiting + 1
    /\ UNCHANGED terminals

\* Mutant: the timer is started when the lab is ready.
StartTimerReady(answer) ==
    /\ expiresAt' = (expiresAt \/ answer = "ready")
    /\ ticking' = (ticking \/ (answer = "ready" /\ ~expiresAt))

\* The timer starts with the first answer, which carries expires_at, even if the page is
\* being left by then.
StartTimer(answer) ==
    /\ expiresAt' = TRUE
    /\ ticking' = (ticking \/ ~expiresAt)

ShowReady ==
    /\ polling' = FALSE
    /\ labReady' = TRUE /\ resumeBtn' = "hidden"
    /\ OpenSetupTerminal

ShowPaused ==
    /\ polling' = FALSE
    /\ labReady' = FALSE /\ resumeBtn' = "enabled"
    /\ UNCHANGED terminal

\* Mutant: polling stops as soon as there is a terminal to show.
ShowRunningStops ==
    /\ polling' = FALSE
    /\ OpenSetupTerminal
    /\ UNCHANGED <<labReady, resumeBtn>>

ShowRunning ==
    /\ OpenSetupTerminal
    /\ UNCHANGED <<polling, labReady, resumeBtn>>

\* The callback of a poll, whatever polls were sent or handled since.
HandleAnswer(k) ==
    /\ polls[k] \in Answers /\ ~left
    /\ polls' = [polls EXCEPT ![k] = "unused"]
    /\ \/ /\ polls[k] = "error"
          /\ polling' = FALSE
          /\ UNCHANGED <<timer, display, terminal>>
       \/ /\ polls[k] # "error"
          /\ StartTimer(polls[k])
          /\ sessionStatus' = polls[k]
          /\ \/ polls[k] = "ready" /\ ShowReady
             \/ polls[k] = "paused" /\ ShowPaused
             \/ polls[k] = "running" /\ ShowRunning
             \/ /\ polls[k] \in {"provisioning", "expired"}
                /\ UNCHANGED <<polling, labReady, resumeBtn, terminal>>
    /\ UNCHANGED <<status, going, deadline, bounds>>

\* Mutant: a failed fetch ends the polling.
LosePollStops(k) ==
    /\ polls[k] = "asked" /\ failures > 0 /\ failures' = failures - 1
    /\ polls' = [polls EXCEPT ![k] = "unused"]
    /\ polling' = FALSE
    /\ UNCHANGED <<status, timer, display, terminal, going, deadline, pauses>>

\* The fetch itself fails: the callback raises, the interval goes on.
LosePoll(k) ==
    /\ polls[k] = "asked" /\ failures > 0 /\ failures' = failures - 1
    /\ polls' = [polls EXCEPT ![k] = "unused"]
    /\ UNCHANGED <<status, polling, timer, display, terminal, going, deadline, pauses>>

\* waitForTerminal: every 2 seconds until the proxy reaches ttyd.
TerminalAnswers ==
    /\ waiting > 0 /\ ~left /\ status \in {"running", "ready"}
    /\ waiting' = waiting - 1 /\ terminals' = terminals + 1
    /\ UNCHANGED <<status, polls, polling, timer, display, terminalOpened, going, deadline,
                   bounds>>

-----------------------------------------------------------------------------
(* What the learner does.                                                  *)

\* The intervals are cleared before the request is sent; polls in flight go on.
Leave(request) ==
    /\ ~left /\ leaving' = leaving \cup {request}
    /\ polling' = FALSE /\ ticking' = FALSE
    /\ UNCHANGED <<status, polls, expiresAt, display, terminal, left, deadline, bounds>>

EndLab == Leave("end")

PauseLab == Leave("pause")

\* Whether or not the request succeeds, the page goes back to the catalog.  What the
\* server does may be seen before its answer: SessionOver, SessionPaused.
GoBack(request) ==
    /\ request \in leaving
    /\ leaving' = {} /\ left' = TRUE
    /\ \/ UNCHANGED <<status, pauses>>
       \/ request = "end" /\ status' = "expired" /\ UNCHANGED pauses
       \/ /\ request = "pause" /\ status \notin {"paused", "expired"} /\ status' = "paused"
          /\ pauses > 0 /\ pauses' = pauses - 1
    /\ UNCHANGED <<polls, polling, timer, display, terminal, deadline, failures>>

\* The request may fail.
ResumeLab ==
    /\ resumeBtn = "enabled" /\ ~left
    /\ resumeBtn' = "resuming"
    /\ status' \in {status, IF status = "paused" THEN "provisioning" ELSE status}
    /\ UNCHANGED <<polls, polling, timer, sessionStatus, labReady, terminal, going, deadline,
                   bounds>>

\* The countdown reaches zero, maybe while the lab is being paused.
TimerTick ==
    /\ ticking /\ deadline
    /\ EndLab

-----------------------------------------------------------------------------
(* The session, whatever moves it: the operator or another page.           *)

StatusBecomes(from, to) ==
    /\ status \in from /\ status' = to
    /\ UNCHANGED <<polls, polling, timer, display, terminal, going, deadline, failures>>

SessionComesUp ==
    /\ \/ StatusBecomes({"provisioning"}, "running")
       \/ StatusBecomes({"running"}, "ready")
    /\ UNCHANGED pauses

SessionPaused ==
    /\ StatusBecomes({"provisioning", "running", "ready"}, "paused")
    /\ pauses > 0 /\ pauses' = pauses - 1

ResumedElsewhere ==
    StatusBecomes({"paused"}, "provisioning") /\ UNCHANGED pauses

\* Mutant: lsToSession passes the phase Failed on.
SessionOverFailed ==
    StatusBecomes(Statuses \ {"expired"}, "failed") /\ UNCHANGED pauses

\* It fails, or is ended elsewhere.
SessionOver ==
    StatusBecomes(Statuses \ {"expired"}, "expired") /\ UNCHANGED pauses

DeadlinePasses ==
    /\ ~deadline /\ deadline' = TRUE
    /\ UNCHANGED <<status, polls, polling, timer, display, terminal, going, bounds>>

Next ==
    \/ \E k \in Polls : Poll(k) \/ Answer(k) \/ HandleAnswer(k) \/ LosePoll(k)
    \/ TerminalAnswers \/ EndLab \/ PauseLab \/ ResumeLab
    \/ TimerTick \/ \E request \in Requests : GoBack(request)
    \/ SessionComesUp \/ SessionPaused \/ ResumedElsewhere \/ SessionOver
    \/ DeadlinePasses

Spec == Init /\ [][Next]_vars

\* The browser runs its timers and callbacks, requests are answered or fail, and a session
\* that is neither paused nor over comes up.  The learner has to do nothing.
FairSpec ==
    /\ Spec
    /\ \A k \in Polls : WF_vars(Poll(k)) /\ WF_vars(Answer(k)) /\ WF_vars(HandleAnswer(k))
    /\ WF_vars(TerminalAnswers) /\ WF_vars(TimerTick) /\ WF_vars(SessionComesUp)
    /\ \A request \in Requests : WF_vars(GoBack(request))

-----------------------------------------------------------------------------
(* Properties.                                                             *)

\* However many answers say running or ready, and in whatever order they come,
\* the page waits for the terminal in one loop and opens one tab by itself.
OneSetupTerminal == waiting + terminals <= 1

Broken == \E k \in Polls : polls[k] = "error"

\* Polling is given up only once the page shows the session as ready or paused,
\* has been told that there is none, or is being left.
GivesUpInformed ==
    [][polling /\ ~polling' =>
          labReady' \/ resumeBtn' # "hidden" \/ leaving' # {} \/ Broken]_vars

\* A page that polls learns that its session is ready or paused, unless an error
\* of the API server stops it or the lab is over.
PollingInforms ==
    polling ~> \/ labReady \/ resumeBtn # "hidden" \/ left
               \/ Broken \/ status = "expired"

\* A page that follows its session, or did so until it showed it as ready or
\* paused, leaves at the deadline, whatever it shows by then.
LeavesAtDeadline ==
    deadline /\ (polling \/ labReady \/ resumeBtn # "hidden") ~> left \/ Broken

-----------------------------------------------------------------------------
(* What the code or its documents say and the runs refute.                 *)

\* "Poll will re-enable terminal when VM is ready" (resumeLab in lab.html).
ResumeReconnects ==
    resumeBtn = "resuming" ~> labReady \/ left \/ status \in {"paused", "expired"}
=============================================================================
