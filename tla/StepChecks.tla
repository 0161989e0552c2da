----------------------------- MODULE StepChecks -----------------------------
(***************************************************************************)
(* Checking the steps of a scenario, from the Check button of a lab page   *)
(* (web/static/lab.html) through the lab server's verifyStep               *)
(* (cmd/labserver/main.go) and the single-threaded agent in the VM         *)
(* (vm/lab-inject.py) to the record that MarkStepComplete leaves in the    *)
(* session's status (internal/session/manager.go).  Several checks are in  *)
(* flight at once: a page is not held back by the one it waits for, and a  *)
(* session may be open in several pages.                                   *)
(***************************************************************************)
EXTENDS Naturals, Sequences

CONSTANTS
    N,            \* the scenario has steps 1..N, each with a verify script
    Pages,        \* the pages the session is open in
    Calls,        \* verify requests the server handles at a time
    None,         \* no page or call
    MaxJobs,      \* requests waiting for the agent
    MaxClock,     \* the latest time stamp
    MaxFailures,  \* failed calls of the API server in a behaviour
    MaxStops      \* stops of the VM in a behaviour

ASSUME StepsAssumption ==
    /\ N \in Nat \ {0}
    /\ MaxJobs \in Nat \ {0}
    /\ MaxClock \in Nat /\ MaxFailures \in Nat /\ MaxStops \in Nat
    /\ None \notin Pages /\ None \notin Calls

Steps == 1..N

Record == [step : Steps, at : 0..MaxClock]

\* Where the handler of a verify request stands: its request to the agent is
\* out, the agent has answered pass, MarkStepComplete has read the session.
Stages == {"free", "asked", "passed", "marking"}

\* page: who gets the answer, None once it has gone away.  copy, at: the
\* records MarkStepComplete has read, and when.
Call == [page : Pages \cup {None}, step : Steps, stage : Stages,
         copy : Seq(Record), at : 0..MaxClock]

\* A script to run, and the request that waits for it.
Job == [call : Calls \cup {None}, step : Steps]

Free == [page |-> None, step |-> 1, stage |-> "free", copy |-> <<>>, at |-> 0]

VARIABLES
    current,   \* page -> the step it shows
    verified,  \* page -> stepVerified
    canCheck,  \* page -> the Check button is enabled
    canNext,   \* page -> the Next button is enabled
    call,      \* the verify requests
    jobs,      \* the agent's backlog of scripts to run, with the waiting call
    records,   \* status.completedSteps
    done,      \* the steps whose script would pass now
    exited0,   \* the steps whose script has ever passed
    told,      \* the steps some page was told have passed
    running,   \* the session is Ready and its agent runs
    now, failures, stops

page == <<current, verified, canCheck, canNext>>
server == <<call, records>>
history == <<exited0, told>>
vars == <<page, server, jobs, done, history, running, now, failures, stops>>

TypeOK ==
    /\ current \in [Pages -> Steps]
    /\ verified \in [Pages -> SUBSET Steps]
    /\ canCheck \in [Pages -> BOOLEAN] /\ canNext \in [Pages -> BOOLEAN]
    /\ call \in [Calls -> Call]
    /\ jobs \in Seq(Job)
    /\ Len(jobs) <= MaxJobs
    /\ records \in Seq(Record)
    /\ done \subseteq Steps /\ exited0 \subseteq Steps /\ told \subseteq Steps
    /\ running \in BOOLEAN
    /\ now \in 0..MaxClock
    /\ failures \in 0..MaxFailures /\ stops \in 0..MaxStops

Init ==
    /\ current = [p \in Pages |-> 1] /\ verified = [p \in Pages |-> {}]
    /\ canCheck = [p \in Pages |-> TRUE] /\ canNext = [p \in Pages |-> FALSE]
    /\ call = [k \in Calls |-> Free] /\ jobs = <<>> /\ records = <<>>
    /\ done = {} /\ exited0 = {} /\ told = {}
    /\ running = TRUE /\ now = 0
    /\ failures = MaxFailures /\ stops = MaxStops

-----------------------------------------------------------------------------
(* The page.                                                               *)

\* Whatever the buttons showed for the step before is set anew.
ShowStep(p, n) ==
    /\ current' = [current EXCEPT ![p] = n]
    /\ canCheck' = [canCheck EXCEPT ![p] = n \notin verified[p]]
    /\ canNext' = [canNext EXCEPT ![p] = n \in verified[p]]
    /\ UNCHANGED <<verified, server, jobs, done, history, running, now, failures,
                   stops>>

PrevStep(p) == current[p] > 1 /\ ShowStep(p, current[p] - 1)

\* Mutant: the last step has one after it.
NextStepBeyond(p) == canNext[p] /\ ShowStep(p, current[p] + 1)

NextStep(p) == canNext[p] /\ current[p] < N /\ ShowStep(p, current[p] + 1)

\* The dots above the instructions lead to every step.
ClickDot(p, n) == n # current[p] /\ ShowStep(p, n)

\* checkStep, and verifyStep up to its request to the agent.
Check(p, k) ==
    /\ canCheck[p] /\ running /\ call[k] = Free /\ Len(jobs) < MaxJobs
    /\ canCheck' = [canCheck EXCEPT ![p] = FALSE]
    /\ call' = [call EXCEPT ![k] =
                   [Free EXCEPT !.page = p, !.step = current[p], !.stage = "asked"]]
    /\ jobs' = Append(jobs, [call |-> k, step |-> current[p]])
    /\ UNCHANGED <<current, verified, canNext, records, done, history, running,
                   now, failures, stops>>

\* The page is reloaded: what it knew is lost, and its requests are cancelled.
Leave(p) ==
    /\ current' = [current EXCEPT ![p] = 1]
    /\ verified' = [verified EXCEPT ![p] = {}]
    /\ canCheck' = [canCheck EXCEPT ![p] = TRUE]
    /\ canNext' = [canNext EXCEPT ![p] = FALSE]
    /\ call' = [k \in Calls |-> IF call[k].page = p THEN [call[k] EXCEPT !.page = None]
                                                    ELSE call[k]]
    /\ UNCHANGED <<records, jobs, done, history, running, now, failures, stops>>

\* The rest of checkStep: a pass is credited to the step the page shows by now.
Passes(k) ==
    LET p == call[k].page IN
    /\ call' = [call EXCEPT ![k] = Free]
    /\ \/ /\ p = None /\ UNCHANGED <<page, told>>
       \/ /\ p # None
          /\ verified' = [verified EXCEPT ![p] = @ \cup {current[p]}]
          /\ canNext' = [canNext EXCEPT ![p] = TRUE]
          /\ told' = told \cup {call[k].step}
          /\ UNCHANGED <<current, canCheck>>

\* The button is enabled again when a check has not passed or has failed.
Refuses(k) ==
    LET p == call[k].page IN
    /\ call' = [call EXCEPT ![k] = Free]
    /\ canCheck' = [q \in Pages |-> IF q = p THEN TRUE ELSE canCheck[q]]
    /\ UNCHANGED <<current, verified, canNext, told>>

-----------------------------------------------------------------------------
(* The agent runs one script at a time, in the order the requests came.    *)

\* Mutant: a script that is killed at its timeout counts as passed.
RunScriptLeniently ==
    /\ jobs # <<>> /\ running
    /\ jobs' = Tail(jobs)
    /\ LET k == Head(jobs).call  s == Head(jobs).step IN
        \/ /\ s \in done
           /\ exited0' = exited0 \cup {s}
           /\ call' = IF k = None THEN call ELSE [call EXCEPT ![k].stage = "passed"]
           /\ UNCHANGED <<page, told>>
        \/ /\ UNCHANGED exited0
           /\ call' = IF k = None THEN call ELSE [call EXCEPT ![k].stage = "passed"]
           /\ UNCHANGED <<page, told>>
    /\ UNCHANGED <<records, done, running, now, failures, stops>>

\* The script fails as well when it is killed after 30 seconds.
RunScript ==
    /\ jobs # <<>> /\ running
    /\ jobs' = Tail(jobs)
    /\ LET k == Head(jobs).call  s == Head(jobs).step IN
        \/ /\ s \in done
           /\ exited0' = exited0 \cup {s}
           /\ call' = IF k = None THEN call ELSE [call EXCEPT ![k].stage = "passed"]
           /\ UNCHANGED <<page, told>>
        \/ /\ UNCHANGED exited0
           /\ IF k = None THEN UNCHANGED <<call, page, told>> ELSE Refuses(k)
    /\ UNCHANGED <<records, done, running, now, failures, stops>>

\* After 35 seconds, or when the agent cannot be reached; the script still runs.
TimesOut(k) ==
    /\ call[k].stage = "asked"
    /\ Refuses(k)
    /\ jobs' = [i \in DOMAIN jobs |->
                   IF jobs[i].call = k THEN [jobs[i] EXCEPT !.call = None] ELSE jobs[i]]
    /\ UNCHANGED <<records, done, exited0, running, now, failures, stops>>

-----------------------------------------------------------------------------
(* MarkStepComplete, called with the context of the page's request.        *)

Recorded == {records[i].step : i \in DOMAIN records}

MarkGet(k) ==
    /\ call[k].stage = "passed" /\ call[k].page # None
    /\ \/ /\ call[k].step \in Recorded
          /\ Passes(k)
       \/ /\ call[k].step \notin Recorded
          /\ call' = [call EXCEPT ![k].stage = "marking", ![k].copy = records,
                                  ![k].at = now]
          /\ UNCHANGED <<page, told>>
    /\ UNCHANGED <<records, jobs, done, exited0, running, now, failures, stops>>

\* Mutant: the step is added to the list the API server holds.
MarkPatchAppends(k) ==
    /\ call[k].stage = "marking"
    /\ records' = Append(records, [step |-> call[k].step, at |-> call[k].at])
    /\ Passes(k)
    /\ UNCHANGED <<jobs, done, exited0, running, now, failures, stops>>

\* Mutant: the newest record comes first.
MarkPatchPrepends(k) ==
    /\ call[k].stage = "marking"
    /\ records' = <<[step |-> call[k].step, at |-> call[k].at]>> \o call[k].copy
    /\ Passes(k)
    /\ UNCHANGED <<jobs, done, exited0, running, now, failures, stops>>

\* A merge patch replaces the whole list.
MarkPatch(k) ==
    /\ call[k].stage = "marking"
    /\ records' = Append(call[k].copy, [step |-> call[k].step, at |-> call[k].at])
    /\ Passes(k)
    /\ UNCHANGED <<jobs, done, exited0, running, now, failures, stops>>

\* The error is logged and the step is answered as passed all the same.  A
\* request the page has abandoned fails for its cancelled context.
MarkFails(k) ==
    /\ call[k].stage \in {"passed", "marking"}
    /\ \/ call[k].page = None /\ UNCHANGED failures
       \/ call[k].page # None /\ failures > 0 /\ failures' = failures - 1
    /\ Passes(k)
    /\ UNCHANGED <<records, jobs, done, exited0, running, now, stops>>

-----------------------------------------------------------------------------
(* The learner's work, the VM and the clock.                               *)

Work(s) ==
    /\ done' = IF s \in done THEN done \ {s} ELSE done \cup {s}
    /\ UNCHANGED <<page, server, jobs, history, running, now, failures, stops>>

\* The session is paused or its VM fails: the agent's backlog is lost with it.
VMStops ==
    /\ running /\ stops > 0
    /\ running' = FALSE /\ stops' = stops - 1 /\ jobs' = <<>>
    /\ UNCHANGED <<page, server, done, history, now, failures>>

VMStarts ==
    /\ ~running /\ running' = TRUE
    /\ UNCHANGED <<page, server, jobs, done, history, now, failures, stops>>

Tick ==
    /\ now < MaxClock /\ now' = now + 1
    /\ UNCHANGED <<page, server, jobs, done, history, running, failures, stops>>

Handle(k) == TimesOut(k) \/ MarkGet(k) \/ MarkPatch(k) \/ MarkFails(k)

Next ==
    \/ \E p \in Pages :
        \/ PrevStep(p) \/ NextStep(p) \/ Leave(p)
        \/ \E n \in Steps : ClickDot(p, n)
        \/ \E k \in Calls : Check(p, k)
    \/ \E k \in Calls : Handle(k)
    \/ RunScript
    \/ \E s \in Steps : Work(s)
    \/ VMStops \/ VMStarts \/ Tick

Spec == Init /\ [][Next]_vars

-----------------------------------------------------------------------------
(* Properties.                                                             *)

\* However checks of the same step overlap, a step has one record, so that the
\* dashboard's count of completed steps is a count of steps.
RecordedOnce ==
    \A i, j \in DOMAIN records : records[i].step = records[j].step => i = j

\* The dashboard subtracts the times of neighbouring records (adminCSM): no step
\* ends before the one before it, even if a slow check overtakes another.
RecordedInTime ==
    \A i, j \in DOMAIN records : i < j => records[i].at <= records[j].at

\* A record is evidence: its script has passed, whatever timed out or was retried.
RecordedPassed == Recorded \subseteq exited0

\* "CompletedSteps records each step that has passed verification"
\* (labsession_types.go), at least each one that a learner was told has passed: so
\* it is with one check at a time and a healthy API server, but two checks that
\* overlap lose a record.
EachPassRecorded == told \subseteq Recorded
=============================================================================
