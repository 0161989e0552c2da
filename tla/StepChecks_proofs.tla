-------------------------- MODULE StepChecks_proofs --------------------------
(***************************************************************************)
(* Proofs about StepChecks, for any scenario, any number of pages and of   *)
(* overlapping checks, and any bound: the records the server leaves are    *)
(* well formed, although concurrent checks may overwrite one another's.    *)
(* And about Dashboard, for any number of sessions in any order: what a    *)
(* row of it shows is what these records say.                              *)
(***************************************************************************)
EXTENDS Dashboard, FiniteSetTheorems, TLAPS

\* The natural numbers are well ordered.
LEMMA LeastNatural ==
  ASSUME NEW T, T \subseteq Nat, T # {}
  PROVE  \E n \in T : \A m \in T : n <= m
<1> DEFINE R == OpToRel(<, Nat)
<1>1. \A i, j \in Nat : i < j => <<i, j>> \in R
  BY DEF OpToRel
<1>2. IsWellFoundedOn(R, Nat)
  BY NatLessThanWellFounded
<1> HIDE DEF R
<1>3. \E n \in T : \A m \in T : ~ (<<m, n>> \in R)
  BY <1>2, WFMin
<1>4. PICK n \in T : \A m \in T : ~ (<<m, n>> \in R)
  BY <1>3
<1>5. \A m \in T : ~ (m < n)
  BY <1>1, <1>4
<1> QED
  BY <1>5

\* So a set that has 0, and n + 1 with every n, has them all.
LEMMA Induction ==
  ASSUME NEW P, 0 \in P, \A n \in Nat : n \in P => n + 1 \in P
  PROVE  Nat \subseteq P
<1> SUFFICES ASSUME Nat \ P # {} PROVE FALSE
  OBVIOUS
<1>1. PICK n \in Nat \ P : \A m \in Nat \ P : n <= m
  BY LeastNatural
<1>2. n # 0 /\ n - 1 \in Nat /\ n - 1 \notin Nat \ P
  BY <1>1
<1> QED
  BY <1>1, <1>2

USE StepsAssumption

\* A free request is a request.
LEMMA FreeType == Free \in Call
  BY DEF Free, Call, Steps, Stages

\* The variables a check's answer changes, and the whole state of the page.
PageTypeOK ==
    /\ current \in [Pages -> Steps]
    /\ verified \in [Pages -> SUBSET Steps]
    /\ canCheck \in [Pages -> BOOLEAN] /\ canNext \in [Pages -> BOOLEAN]
    /\ told \subseteq Steps

\* What ends a check leaves the page and the requests well typed.
LEMMA AnswerType ==
  ASSUME TypeOK, NEW k \in Calls, Passes(k) \/ Refuses(k)
  PROVE  PageTypeOK' /\ call' \in [Calls -> Call]
<1> DEFINE p == call[k].page
<1>1. call[k].page \in Pages \cup {None} /\ call[k].step \in Steps
  BY DEF TypeOK, Call
<1>2. call' \in [Calls -> Call]
  BY FreeType DEF TypeOK, Passes, Refuses
<1>0. PageTypeOK
  BY DEF TypeOK, PageTypeOK
<1>3. CASE Passes(k)
  <2>1. CASE UNCHANGED <<page, told>>
    <3>1. /\ current' = current /\ verified' = verified
          /\ canCheck' = canCheck /\ canNext' = canNext /\ told' = told
      BY <2>1 DEF page
    <3>2. PageTypeOK' <=> PageTypeOK
      BY <3>1 DEF PageTypeOK
    <3>3. QED
      BY <1>0, <1>2, <3>2
  <2>2. CASE /\ p # None
             /\ verified' = [verified EXCEPT ![p] = @ \cup {current[p]}]
             /\ canNext' = [canNext EXCEPT ![p] = TRUE]
             /\ told' = told \cup {call[k].step}
             /\ UNCHANGED <<current, canCheck>>
    <3>1. current[p] \in Steps /\ verified[p] \subseteq Steps
      BY <1>1, <2>2 DEF TypeOK
    <3>2. verified' \in [Pages -> SUBSET Steps]
      BY <2>2, <3>1 DEF TypeOK
    <3>3. canNext' \in [Pages -> BOOLEAN]
      BY <2>2 DEF TypeOK
    <3>4. told' \subseteq Steps
      BY <1>1, <2>2 DEF TypeOK
    <3>5. /\ current' \in [Pages -> Steps] /\ canCheck' \in [Pages -> BOOLEAN]
      BY <2>2 DEF TypeOK
    <3>6. QED
      BY <1>0, <1>2, <3>2, <3>3, <3>4, <3>5 DEF PageTypeOK
  <2>3. QED
    BY <1>3, <2>1, <2>2 DEF Passes
<1>4. CASE Refuses(k)
  <2>1. \A q \in Pages : canCheck[q] \in BOOLEAN
    BY DEF TypeOK
  <2>2. canCheck' \in [Pages -> BOOLEAN]
    BY <1>4, <2>1 DEF Refuses
  <2>3. current' = current /\ verified' = verified /\ canNext' = canNext /\ told' = told
    BY <1>4 DEF Refuses
  <2>4. QED
    BY <1>0, <1>2, <2>2, <2>3 DEF PageTypeOK
<1>5. QED
  BY <1>2, <1>3, <1>4

\* Every variable keeps its type.
LEMMA TypePreserved ==
  ASSUME TypeOK, [Next]_vars
  PROVE  TypeOK'
<1> USE DEF page, server, history
<1>1. CASE UNCHANGED vars
  BY <1>1 DEF vars, TypeOK
<1>2. ASSUME NEW p \in Pages, NEW n \in Steps, ShowStep(p, n) PROVE TypeOK'
  <2>1. /\ current' \in [Pages -> Steps]
        /\ canCheck' \in [Pages -> BOOLEAN] /\ canNext' \in [Pages -> BOOLEAN]
    BY <1>2 DEF ShowStep, TypeOK
  <2>2. QED
    BY <1>2, <2>1 DEF ShowStep, TypeOK
<1>3. ASSUME NEW p \in Pages, PrevStep(p) \/ NextStep(p) \/ \E n \in Steps : ClickDot(p, n)
      PROVE  TypeOK'
  <2>1. current[p] \in Steps
    BY DEF TypeOK
  <2>2. PICK n \in Steps : ShowStep(p, n)
    BY <1>3, <2>1 DEF PrevStep, NextStep, ClickDot, Steps
  <2>3. QED
    BY <1>2, <2>2
<1>4. ASSUME NEW p \in Pages, NEW k \in Calls, Check(p, k) PROVE TypeOK'
  <2>1. current[p] \in Steps
    BY DEF TypeOK
  <2>2. [Free EXCEPT !.page = p, !.step = current[p], !.stage = "asked"] \in Call
    <3> HIDE DEF Steps
    <3>1. Free.at \in 0..MaxClock /\ Free.copy \in Seq(Record)
      BY DEF Free
    <3>2. QED
      BY <2>1, <3>1 DEF Free, Call, Stages
  <2>3. call' \in [Calls -> Call] /\ canCheck' \in [Pages -> BOOLEAN]
    BY <1>4, <2>2 DEF Check, TypeOK
  <2>4. jobs' \in Seq(Job) /\ Len(jobs') <= MaxJobs
    <3>1. [call |-> k, step |-> current[p]] \in Job
      BY <2>1 DEF Job
    <3>2. jobs \in Seq(Job) /\ Len(jobs) < MaxJobs
          /\ jobs' = Append(jobs, [call |-> k, step |-> current[p]])
      BY <1>4 DEF Check, TypeOK
    <3>3. QED
      BY <3>1, <3>2
  <2>5. QED
    BY <1>4, <2>3, <2>4 DEF Check, TypeOK
<1>5. ASSUME NEW p \in Pages, Leave(p) PROVE TypeOK'
  <2>1. /\ current' \in [Pages -> Steps] /\ verified' \in [Pages -> SUBSET Steps]
        /\ canCheck' \in [Pages -> BOOLEAN] /\ canNext' \in [Pages -> BOOLEAN]
    BY <1>5 DEF Leave, TypeOK, Steps
  <2>2. \A k \in Calls : call[k] \in Call /\ [call[k] EXCEPT !.page = None] \in Call
    BY DEF TypeOK, Call
  <2>3. call' \in [Calls -> Call]
    BY <1>5, <2>2 DEF Leave
  <2>4. QED
    BY <1>5, <2>1, <2>3 DEF Leave, TypeOK
<1>6. ASSUME NEW k \in Calls, NEW s \in Stages
      PROVE  [call EXCEPT ![k].stage = s] \in [Calls -> Call]
  <2>1. call \in [Calls -> Call] /\ [call[k] EXCEPT !.stage = s] \in Call
    BY DEF TypeOK, Call
  <2>2. QED
    BY <2>1
<1>7. CASE RunScript
  <2>1. /\ Head(jobs).call \in Calls \cup {None} /\ Head(jobs).step \in Steps
        /\ jobs' \in Seq(Job) /\ Len(jobs') <= MaxJobs
    <3>1. /\ jobs \in Seq(Job) /\ Len(jobs) <= MaxJobs
          /\ jobs # <<>> /\ jobs' = Tail(jobs)
      BY <1>7 DEF RunScript, TypeOK
    <3>2. Head(jobs) \in Job /\ jobs' \in Seq(Job)
      BY <3>1
    <3>3. Len(jobs') <= MaxJobs
      BY <3>1
    <3>4. Head(jobs).call \in Calls \cup {None} /\ Head(jobs).step \in Steps
      BY <3>2 DEF Job
    <3>5. QED
      BY <3>2, <3>3, <3>4
  <2>2. exited0' \subseteq Steps
    BY <1>7, <2>1 DEF RunScript, TypeOK
  <2>3. PageTypeOK' /\ call' \in [Calls -> Call]
    <3> DEFINE k == Head(jobs).call
    <3>1. CASE UNCHANGED <<page, told>> /\ call' = [call EXCEPT ![k].stage = "passed"]
               /\ k \in Calls
      BY <1>6, <3>1 DEF TypeOK, PageTypeOK, Stages
    <3>2. CASE UNCHANGED <<page, told, call>>
      BY <3>2 DEF TypeOK, PageTypeOK
    <3>3. CASE k \in Calls /\ Refuses(k)
      BY <3>3, AnswerType
    <3>4. QED
      BY <1>7, <2>1, <3>1, <3>2, <3>3 DEF RunScript
  <2>4. QED
    BY <1>7, <2>1, <2>2, <2>3 DEF RunScript, TypeOK, PageTypeOK
<1>8. ASSUME NEW k \in Calls, TimesOut(k) PROVE TypeOK'
  <2>1. PageTypeOK' /\ call' \in [Calls -> Call]
    BY <1>8, AnswerType DEF TimesOut
  <2>2. jobs' \in Seq(Job) /\ Len(jobs') = Len(jobs)
    <3>1. jobs \in Seq(Job)
      BY DEF TypeOK
    <3>2. \A j \in Job : [j EXCEPT !.call = None] \in Job
      BY DEF Job
    <3>3. DOMAIN jobs = 1..Len(jobs) /\ \A i \in DOMAIN jobs : jobs[i] \in Job
      BY <3>1
    <3>4. QED
      BY <1>8, <3>1, <3>2, <3>3 DEF TimesOut
  <2>3. QED
    BY <1>8, <2>1, <2>2 DEF TimesOut, TypeOK, PageTypeOK
<1>9. ASSUME NEW k \in Calls, MarkGet(k) PROVE TypeOK'
  <2>1. CASE Passes(k)
    BY <1>9, <2>1, AnswerType DEF MarkGet, TypeOK, PageTypeOK
  <2>2. CASE /\ call' = [call EXCEPT ![k].stage = "marking", ![k].copy = records,
                                     ![k].at = now]
             /\ UNCHANGED <<page, told>>
    <3>1. call[k] \in Call /\ records \in Seq(Record) /\ now \in 0..MaxClock
      BY DEF TypeOK
    <3>2. [call[k] EXCEPT !.stage = "marking", !.copy = records, !.at = now] \in Call
      BY <3>1 DEF Call, Stages
    <3>3. call' \in [Calls -> Call]
      BY <2>2, <3>2 DEF TypeOK
    <3>4. QED
      BY <1>9, <2>2, <3>3 DEF MarkGet, TypeOK
  <2>3. QED
    BY <1>9, <2>1, <2>2 DEF MarkGet
<1>10. ASSUME NEW k \in Calls, MarkPatch(k) PROVE TypeOK'
  <2>1. PageTypeOK' /\ call' \in [Calls -> Call]
    BY <1>10, AnswerType DEF MarkPatch
  <2>2. records' \in Seq(Record)
    <3>1. call[k].copy \in Seq(Record) /\ [step |-> call[k].step, at |-> call[k].at] \in Record
      BY DEF TypeOK, Call, Record
    <3>2. QED
      BY <1>10, <3>1 DEF MarkPatch
  <2>3. QED
    BY <1>10, <2>1, <2>2 DEF MarkPatch, TypeOK, PageTypeOK
<1>11. ASSUME NEW k \in Calls, MarkFails(k) PROVE TypeOK'
  <2>1. PageTypeOK' /\ call' \in [Calls -> Call]
    BY <1>11, AnswerType DEF MarkFails
  <2>2. failures' \in 0..MaxFailures
    BY <1>11 DEF MarkFails, TypeOK
  <2>3. QED
    BY <1>11, <2>1, <2>2 DEF MarkFails, TypeOK, PageTypeOK
<1>12. ASSUME NEW s \in Steps, Work(s) PROVE TypeOK'
  BY <1>12 DEF Work, TypeOK
<1>13. CASE VMStops
  <2>1. /\ stops' \in 0..MaxStops /\ running' \in BOOLEAN
        /\ jobs' \in Seq(Job) /\ Len(jobs') <= MaxJobs
    <3>1. jobs' = <<>> /\ running' = FALSE
      BY <1>13 DEF VMStops
    <3>2. stops' \in 0..MaxStops
      BY <1>13 DEF VMStops, TypeOK
    <3>3. jobs' \in Seq(Job) /\ Len(jobs') <= MaxJobs
      BY <3>1
    <3>4. running' \in BOOLEAN
      BY <3>1
    <3>5. QED
      BY <3>2, <3>3, <3>4
  <2>2. UNCHANGED <<page, server, done, history, now, failures>>
    BY <1>13 DEF VMStops
  <2>3. QED
    BY <2>1, <2>2 DEF TypeOK
<1>14. CASE VMStarts \/ Tick
  <2>1. running' \in BOOLEAN /\ now' \in 0..MaxClock
    <3>1. CASE VMStarts
      BY <3>1 DEF VMStarts, TypeOK
    <3>2. CASE Tick
      <4>1. running' = running /\ now' = now + 1 /\ now < MaxClock
        BY <3>2 DEF Tick
      <4>2. running \in BOOLEAN /\ now \in 0..MaxClock
        BY DEF TypeOK
      <4>3. now' \in 0..MaxClock
        BY <4>1, <4>2
      <4>4. QED
        BY <4>1, <4>2, <4>3
    <3>3. QED
      BY <1>14, <3>1, <3>2
  <2>2. UNCHANGED <<page, server, jobs, done, history, failures, stops>>
    BY <1>14 DEF VMStarts, Tick
  <2>3. QED
    BY <2>1, <2>2 DEF TypeOK
<1>15. QED
  BY <1>1, <1>3, <1>4, <1>5, <1>7, <1>8, <1>9, <1>10, <1>11, <1>12, <1>13, <1>14
  DEF Next, Handle

\* Every variable keeps its type.
THEOREM TypeCorrect == Spec => []TypeOK
<1>1. Init => TypeOK
  BY FreeType DEF Init, TypeOK, Steps
<1>2. QED
  BY <1>1, TypePreserved, PTL DEF Spec

-----------------------------------------------------------------------------
(* The records are well formed.                                            *)

\* A list of records as MarkStepComplete should leave it at time t.
WellFormed(r, t) ==
    \A i, j \in DOMAIN r :
        /\ r[i].step = r[j].step => i = j
        /\ i < j => r[i].at <= r[j].at
        /\ r[i].at <= t

\* What a check is about to write back at time t.
CopyOK(c, t) ==
    /\ WellFormed(c.copy, c.at) /\ c.at <= t
    /\ c.stage = "marking" => \A i \in DOMAIN c.copy : c.copy[i].step # c.step

\* The list at the API server, and the copy each check works on.
ListsInv ==
    /\ WellFormed(records, now)
    /\ \A k \in Calls : CopyOK(call[k], now)

\* A list stays well formed as time passes.
LEMMA LaterList ==
  ASSUME NEW r \in Seq(Record), NEW t \in Nat, NEW u \in Nat, WellFormed(r, t), t <= u
  PROVE  WellFormed(r, u)
<1>1. \A i \in DOMAIN r : r[i].at \in Nat
  <2>1. \A i \in DOMAIN r : r[i] \in Record
    OBVIOUS
  <2>2. QED
    BY <2>1 DEF Record
<1>2. QED
  BY <1>1 DEF WellFormed

\* MarkStepComplete adds a step the list lacks, at the time it was read.
LEMMA MarkedList ==
  ASSUME NEW r \in Seq(Record), NEW s \in Steps, NEW t \in 0..MaxClock, WellFormed(r, t),
         \A i \in DOMAIN r : r[i].step # s
  PROVE  WellFormed(Append(r, [step |-> s, at |-> t]), t)
<1> DEFINE e == [step |-> s, at |-> t]  q == Append(r, e)
<1>1. /\ DOMAIN q = 1..(Len(r) + 1) /\ DOMAIN r = 1..Len(r) /\ Len(r) \in Nat
      /\ q[Len(r) + 1] = e /\ \A i \in 1..Len(r) : q[i] = r[i]
  BY DEF Record
<1>2. e.step = s /\ e.at = t /\ t \in Nat
  OBVIOUS
<1> HIDE DEF e, q
<1>3. SUFFICES ASSUME NEW i \in DOMAIN q, NEW j \in DOMAIN q
               PROVE  /\ q[i].step = q[j].step => i = j
                      /\ i < j => q[i].at <= q[j].at
                      /\ q[i].at <= t
  BY DEF WellFormed, e, q
<1>4. CASE i \in DOMAIN r /\ j \in DOMAIN r
  BY <1>1, <1>4 DEF WellFormed
<1>5. CASE i \in DOMAIN r /\ j = Len(r) + 1
  BY <1>1, <1>2, <1>5 DEF WellFormed
<1>6. CASE i = Len(r) + 1 /\ j \in DOMAIN r
  BY <1>1, <1>2, <1>6
<1>7. CASE i = Len(r) + 1 /\ j = Len(r) + 1
  BY <1>2, <1>7, <1>1
<1>8. QED
  BY <1>1, <1>4, <1>5, <1>6, <1>7

\* A request that has read nothing has nothing to spoil.
LEMMA FreshCopy ==
  ASSUME NEW c, c.copy = <<>>, c.at = 0, c.stage # "marking", NEW t \in Nat
  PROVE  CopyOK(c, t)
  BY DEF CopyOK, WellFormed

\* The records and the copies stay well formed.
LEMMA ListsPreserved ==
  ASSUME TypeOK, TypeOK', ListsInv, [Next]_vars
  PROVE  ListsInv'
<1>1. /\ records \in Seq(Record) /\ now \in Nat /\ now \in 0..MaxClock
      /\ \A k \in Calls : /\ call[k].copy \in Seq(Record) /\ call[k].step \in Steps
                           /\ call[k].at \in 0..MaxClock /\ call[k].at \in Nat
      /\ call \in [Calls -> Call]
  BY DEF TypeOK, Call
<1>2. WellFormed(records, now) /\ \A k \in Calls : CopyOK(call[k], now)
  BY DEF ListsInv
<1>3. CopyOK(Free, now)
  BY <1>1, FreshCopy DEF Free
<1>4. ASSUME UNCHANGED <<records, call, now>> PROVE ListsInv'
  BY <1>2, <1>4 DEF ListsInv
<1>5. ASSUME NEW k \in Calls, Passes(k) \/ Refuses(k)
      PROVE  \A m \in Calls : CopyOK(call'[m], now)
  BY <1>1, <1>2, <1>3, <1>5 DEF Passes, Refuses
<1>6. ASSUME NEW p \in Pages, NEW k \in Calls, Check(p, k) PROVE ListsInv'
  <2> DEFINE c == [Free EXCEPT !.page = p, !.step = current[p], !.stage = "asked"]
  <2>1. c.copy = <<>> /\ c.at = 0 /\ c.stage # "marking"
    BY DEF Free
  <2>2. CopyOK(c, now)
    BY <1>1, <2>1, FreshCopy
  <2> HIDE DEF c
  <2>3. call' = [call EXCEPT ![k] = c] /\ records' = records /\ now' = now
    BY <1>6 DEF Check, c
  <2>4. QED
    BY <1>1, <1>2, <2>2, <2>3 DEF ListsInv
<1>7. ASSUME NEW p \in Pages, Leave(p) PROVE ListsInv'
  <2>1. \A k \in Calls : /\ call'[k].copy = call[k].copy /\ call'[k].at = call[k].at
                         /\ call'[k].stage = call[k].stage /\ call'[k].step = call[k].step
    BY <1>7, <1>1 DEF Leave, Call
  <2>2. \A k \in Calls : CopyOK(call'[k], now)
    BY <1>2, <2>1 DEF CopyOK
  <2>3. QED
    BY <1>2, <1>7, <2>2 DEF Leave, ListsInv
<1>8. CASE RunScript
  <2>1. records' = records /\ now' = now
    BY <1>8 DEF RunScript
  <2>2. \A m \in Calls : CopyOK(call'[m], now)
    <3> DEFINE k == Head(jobs).call
    <3>1. CASE call' = call
      BY <1>2, <3>1
    <3>2. CASE call' = [call EXCEPT ![k].stage = "passed"]
      <4>1. \A m \in Calls : /\ call'[m].copy = call[m].copy /\ call'[m].at = call[m].at
                             /\ call'[m].stage # "marking" \/ call'[m] = call[m]
        BY <1>1, <3>2 DEF Call
      <4>2. QED
        BY <1>2, <4>1 DEF CopyOK
    <3>3. CASE Refuses(k) /\ k # None
      <4>1. jobs \in Seq(Job) /\ jobs # <<>>
        BY <1>8 DEF RunScript, TypeOK
      <4>2. Head(jobs) \in Job
        BY <4>1
      <4>3. k \in Calls
        BY <3>3, <4>2 DEF Job
      <4>4. QED
        BY <1>5, <3>3, <4>3
    <3>4. QED
      BY <1>8, <3>1, <3>2, <3>3 DEF RunScript
  <2>3. QED
    BY <1>2, <2>1, <2>2 DEF ListsInv
<1>9. ASSUME NEW k \in Calls, TimesOut(k) \/ MarkFails(k) PROVE ListsInv'
  <2>1. (Passes(k) \/ Refuses(k)) /\ records' = records /\ now' = now
    BY <1>9 DEF TimesOut, MarkFails
  <2>2. QED
    BY <1>2, <1>5, <2>1 DEF ListsInv
<1>10. ASSUME NEW k \in Calls, MarkGet(k) PROVE ListsInv'
  <2>1. records' = records /\ now' = now
    BY <1>10 DEF MarkGet
  <2>2. CASE Passes(k)
    BY <1>2, <1>5, <2>1, <2>2 DEF ListsInv
  <2>3. CASE ~Passes(k)
    <3>1. /\ call[k].step \notin Recorded
          /\ call' = [call EXCEPT ![k].stage = "marking", ![k].copy = records, ![k].at = now]
      BY <1>10, <2>3 DEF MarkGet
    <3>2. /\ call'[k].copy = records /\ call'[k].at = now /\ call'[k].step = call[k].step
          /\ \A m \in Calls \ {k} : call'[m] = call[m]
      BY <1>1, <3>1 DEF Call
    <3>3. CopyOK(call'[k], now)
      BY <1>1, <1>2, <3>1, <3>2 DEF CopyOK, Recorded
    <3>4. QED
      BY <1>2, <2>1, <3>2, <3>3 DEF ListsInv
  <2>4. QED
    BY <2>2, <2>3
<1>11. ASSUME NEW k \in Calls, MarkPatch(k) PROVE ListsInv'
  <2>1. /\ records' = Append(call[k].copy, [step |-> call[k].step, at |-> call[k].at])
        /\ now' = now /\ Passes(k) /\ call[k].stage = "marking"
    BY <1>11 DEF MarkPatch
  <2>2. WellFormed(call[k].copy, call[k].at) /\ call[k].at <= now
        /\ \A i \in DOMAIN call[k].copy : call[k].copy[i].step # call[k].step
    BY <1>2, <2>1 DEF CopyOK
  <2>3. WellFormed(records', call[k].at)
    BY <1>1, <2>1, <2>2, MarkedList
  <2>4. records' \in Seq(Record)
    BY DEF TypeOK
  <2>5. WellFormed(records', now)
    BY <1>1, <2>2, <2>3, <2>4, LaterList
  <2>6. QED
    BY <1>5, <2>1, <2>5 DEF ListsInv
<1>12. CASE Tick
  <2>1. now' = now + 1 /\ records' = records /\ call' = call
    BY <1>12 DEF Tick, server
  <2>2. WellFormed(records, now + 1)
    BY <1>1, <1>2, LaterList
  <2>3. \A k \in Calls : CopyOK(call[k], now + 1)
    BY <1>1, <1>2 DEF CopyOK
  <2>4. QED
    BY <2>1, <2>2, <2>3 DEF ListsInv
<1>13. ASSUME NEW p \in Pages,
              PrevStep(p) \/ NextStep(p) \/ \E n \in Steps : ClickDot(p, n)
       PROVE  UNCHANGED <<records, call, now>>
  BY <1>13 DEF PrevStep, NextStep, ClickDot, ShowStep, server
<1>14. ASSUME (\E s \in Steps : Work(s)) \/ VMStops \/ VMStarts \/ UNCHANGED vars
       PROVE  UNCHANGED <<records, call, now>>
  BY <1>14 DEF Work, VMStops, VMStarts, vars, server
<1>15. QED
  BY <1>4, <1>6, <1>7, <1>8, <1>9, <1>10, <1>11, <1>12, <1>13, <1>14 DEF Next, Handle

\* The records and the copies are always well formed.
THEOREM ListsAreInvariant == Spec => []ListsInv
<1>1. ASSUME Init PROVE ListsInv
  <2>1. records = <<>> /\ now = 0 /\ call = [k \in Calls |-> Free]
    BY <1>1 DEF Init
  <2>2. Free.copy = <<>> /\ Free.at = 0 /\ Free.stage # "marking"
    BY DEF Free
  <2>3. CopyOK(Free, 0)
    BY <2>2, FreshCopy
  <2>4. \A k \in Calls : CopyOK(call[k], now)
    BY <2>1, <2>3
  <2>5. WellFormed(records, now)
    BY <2>1 DEF WellFormed
  <2>6. QED
    BY <2>4, <2>5 DEF ListsInv
<1>2. QED
  BY <1>1, TypeCorrect, ListsPreserved, PTL DEF Spec

\* However checks overlap, no two records are for one step.
THEOREM RecordsAreOnce == Spec => []RecordedOnce
<1>1. ListsInv => RecordedOnce
  BY DEF ListsInv, WellFormed, RecordedOnce
<1>2. QED
  BY <1>1, ListsAreInvariant, PTL

\* However checks overlap and overtake one another, the records are in the order
\* of their times.
THEOREM RecordsAreInTime == Spec => []RecordedInTime
<1>1. ListsInv => RecordedInTime
  BY DEF ListsInv, WellFormed, RecordedInTime
<1>2. QED
  BY <1>1, ListsAreInvariant, PTL

-----------------------------------------------------------------------------
(* A record is evidence.                                                   *)

\* Each script that waits for the agent waits for one request, which is asked for
\* that very step and waits for no other script.
JobsInv ==
    \A i \in DOMAIN jobs : jobs[i].call # None =>
        /\ call[jobs[i].call].stage = "asked"
        /\ call[jobs[i].call].step = jobs[i].step
        /\ \A j \in DOMAIN jobs : jobs[j].call = jobs[i].call => i = j

\* A check is handed on only once its script has passed, and copies what was
\* recorded with the same right.
CallsInv ==
    \A k \in Calls :
        /\ call[k].stage \in {"passed", "marking"} => call[k].step \in exited0
        /\ \A i \in DOMAIN call[k].copy : call[k].copy[i].step \in exited0

EvidenceInv == RecordedPassed /\ CallsInv /\ JobsInv

\* A request that has its answer from the agent may change as it will.
LEMMA JobsUndisturbed ==
  ASSUME TypeOK, JobsInv, jobs' = jobs,
         \A k \in Calls : call[k].stage = "asked" =>
                         call'[k].stage = "asked" /\ call'[k].step = call[k].step
  PROVE  JobsInv'
<1>1. \A i \in DOMAIN jobs : jobs[i] \in Job
  BY DEF TypeOK
<1>2. \A i \in DOMAIN jobs : jobs[i].call \in Calls \cup {None}
  BY <1>1 DEF Job
<1>3. QED
  BY <1>2 DEF JobsInv

\* What ends a check puts no claim in the place of another.
LEMMA CallsUndisturbed ==
  ASSUME TypeOK, CallsInv, exited0 \subseteq exited0', NEW k \in Calls,
         Passes(k) \/ Refuses(k)
  PROVE  CallsInv'
<1>1. Free.copy = <<>> /\ Free.stage = "free" /\ call' = [call EXCEPT ![k] = Free]
  BY DEF Free, Passes, Refuses
<1>2. call \in [Calls -> Call]
  BY DEF TypeOK
<1>3. \A m \in Calls : m # k => call'[m] = call[m]
  BY <1>1, <1>2
<1>4. call'[k].copy = <<>> /\ call'[k].stage = "free"
  BY <1>1, <1>2
<1>5. QED
  BY <1>3, <1>4 DEF CallsInv

\* The three parts hold one another up.
LEMMA EvidencePreserved ==
  ASSUME TypeOK, TypeOK', EvidenceInv, [Next]_vars
  PROVE  EvidenceInv'
<1>1. /\ RecordedPassed /\ CallsInv /\ JobsInv
      /\ call \in [Calls -> Call] /\ jobs \in Seq(Job) /\ None \notin Calls
      /\ DOMAIN jobs = 1..Len(jobs) /\ Len(jobs) \in Nat
  BY StepsAssumption DEF EvidenceInv, TypeOK
<1>2. \A i \in DOMAIN jobs : jobs[i].call \in Calls \cup {None} /\ jobs[i].step \in Steps
  <2>1. \A i \in DOMAIN jobs : jobs[i] \in Job
    BY <1>1
  <2>2. QED
    BY <2>1 DEF Job
<1>3. ASSUME UNCHANGED <<records, call, exited0>>, jobs' = jobs \/ jobs' = <<>>
      PROVE  EvidenceInv'
  BY <1>1, <1>3 DEF EvidenceInv, RecordedPassed, Recorded, CallsInv, JobsInv
<1>4. ASSUME UNCHANGED <<records, exited0>> PROVE RecordedPassed'
  BY <1>1, <1>4 DEF RecordedPassed, Recorded
<1>5. ASSUME NEW p \in Pages, NEW k \in Calls, Check(p, k) PROVE EvidenceInv'
  <2> DEFINE c == [Free EXCEPT !.page = p, !.step = current[p], !.stage = "asked"]
             e == [call |-> k, step |-> current[p]]
  <2>1. c.copy = <<>> /\ c.stage = "asked" /\ c.step = current[p]
    BY DEF Free
  <2>2. e.call = k /\ e.step = current[p]
    OBVIOUS
  <2>3. e \in Job
    <3>1. current[p] \in Steps
      BY DEF TypeOK
    <3>2. QED
      BY <3>1 DEF Job
  <2> HIDE DEF c, e
  <2>4. /\ call' = [call EXCEPT ![k] = c] /\ jobs' = Append(jobs, e)
        /\ call[k] = Free /\ UNCHANGED <<records, exited0>>
    BY <1>5 DEF Check, c, e, history
  <2>5. call'[k] = c /\ \A m \in Calls : m # k => call'[m] = call[m]
    BY <1>1, <2>4
  <2>6. CallsInv'
    BY <1>1, <2>1, <2>4, <2>5 DEF CallsInv
  <2>7. /\ DOMAIN jobs' = 1..(Len(jobs) + 1) /\ jobs'[Len(jobs) + 1] = e
        /\ \A i \in 1..Len(jobs) : jobs'[i] = jobs[i]
    BY <1>1, <2>3, <2>4
  <2>8. \A i \in DOMAIN jobs : jobs[i].call # k
    <3>1. call[k].stage = "free"
      BY <2>4 DEF Free
    <3>2. QED
      BY <1>1, <3>1 DEF JobsInv
  <2>9. JobsInv'
    <3>1. SUFFICES ASSUME NEW i \in DOMAIN jobs', jobs'[i].call # None
                   PROVE  /\ call'[jobs'[i].call].stage = "asked"
                          /\ call'[jobs'[i].call].step = jobs'[i].step
                          /\ \A j \in DOMAIN jobs' : jobs'[j].call = jobs'[i].call => i = j
      BY DEF JobsInv
    <3>2. CASE i = Len(jobs) + 1
      BY <1>1, <2>1, <2>2, <2>5, <2>7, <2>8, <3>2
    <3>3. CASE i \in 1..Len(jobs)
      <4>1. jobs'[i] = jobs[i] /\ jobs[i].call # k /\ jobs[i].call \in Calls
        BY <1>1, <1>2, <2>7, <2>8, <3>1, <3>3
      <4>2. call'[jobs[i].call] = call[jobs[i].call]
        BY <2>5, <4>1
      <4>3. /\ call[jobs[i].call].stage = "asked" /\ call[jobs[i].call].step = jobs[i].step
            /\ \A j \in DOMAIN jobs : jobs[j].call = jobs[i].call => i = j
        BY <1>1, <3>1, <3>3, <4>1 DEF JobsInv
      <4>4. ASSUME NEW j \in DOMAIN jobs', jobs'[j].call = jobs'[i].call PROVE i = j
        <5>1. j # Len(jobs) + 1
          BY <2>2, <2>7, <4>1, <4>4
        <5>2. j \in 1..Len(jobs)
          BY <1>1, <2>7, <5>1
        <5>3. QED
          BY <1>1, <2>7, <4>1, <4>3, <4>4, <5>2
      <4>5. QED
        BY <4>1, <4>2, <4>3, <4>4
    <3>4. QED
      BY <1>1, <2>7, <3>2, <3>3
  <2>10. QED
    BY <1>4, <2>4, <2>6, <2>9 DEF EvidenceInv
<1>6. ASSUME NEW p \in Pages, Leave(p) PROVE EvidenceInv'
  <2>1. \A k \in Calls : /\ call'[k].copy = call[k].copy /\ call'[k].stage = call[k].stage
                         /\ call'[k].step = call[k].step
    BY <1>6, <1>1 DEF Leave, Call
  <2>2. UNCHANGED <<records, exited0, jobs>>
    BY <1>6 DEF Leave, history
  <2>3. CallsInv'
    BY <1>1, <2>1, <2>2 DEF CallsInv
  <2>4. JobsInv'
    BY <1>1, <2>1, <2>2, JobsUndisturbed
  <2>5. QED
    BY <1>4, <2>2, <2>3, <2>4 DEF EvidenceInv
<1>7. CASE RunScript
  <2> DEFINE k == Head(jobs).call  s == Head(jobs).step
  <2>1. /\ jobs # <<>> /\ jobs' = Tail(jobs) /\ records' = records
        /\ \/ /\ s \in done /\ exited0' = exited0 \cup {s}
              /\ call' = IF k = None THEN call ELSE [call EXCEPT ![k].stage = "passed"]
           \/ /\ exited0' = exited0
              /\ k = None => call' = call
              /\ k # None => Refuses(k)
    BY <1>7 DEF RunScript
  <2>2. /\ Len(jobs) > 0 /\ k = jobs[1].call /\ s = jobs[1].step
        /\ DOMAIN jobs' = 1..(Len(jobs) - 1)
        /\ \A i \in 1..(Len(jobs) - 1) : jobs'[i] = jobs[i + 1]
    BY <1>1, <2>1
  <2>3. k \in Calls \cup {None}
    BY <1>1, <1>2, <2>2
  <2>4. k # None => call[k].stage = "asked" /\ call[k].step = s
    BY <1>1, <2>2 DEF JobsInv
  <2>5. \A i \in 1..(Len(jobs) - 1) : k # None => jobs'[i].call # k
    <3>1. ASSUME NEW i \in 1..(Len(jobs) - 1), k # None, jobs'[i].call = k PROVE FALSE
      <4>1. i + 1 \in DOMAIN jobs /\ 1 \in DOMAIN jobs /\ i + 1 # 1
        BY <1>1, <2>2
      <4>2. jobs[i + 1].call = jobs[1].call
        BY <2>2, <3>1
      <4>3. QED
        BY <1>1, <2>2, <3>1, <4>1, <4>2 DEF JobsInv
    <3>2. QED
      BY <3>1
  <2> HIDE DEF k, s
  <2>6. \A m \in Calls : m # k => call'[m] = call[m]
    BY <1>1, <2>1, <2>3 DEF Refuses
  <2>7. CallsInv'
    <3>1. CASE call' = call
      BY <1>1, <2>1, <3>1 DEF CallsInv
    <3>2. CASE k # None /\ Refuses(k)
      BY <1>1, <2>1, <2>3, <3>2, CallsUndisturbed
    <3>3. CASE /\ k # None /\ call' = [call EXCEPT ![k].stage = "passed"]
               /\ exited0' = exited0 \cup {s}
      <4>1. call'[k].copy = call[k].copy /\ call'[k].step = call[k].step /\ k \in Calls
        BY <1>1, <2>3, <3>3 DEF Call
      <4>2. QED
        BY <1>1, <2>4, <2>6, <3>3, <4>1 DEF CallsInv
    <3>4. QED
      BY <2>1, <3>1, <3>2, <3>3
  <2>8. JobsInv'
    <3>1. SUFFICES ASSUME NEW i \in DOMAIN jobs', jobs'[i].call # None
                   PROVE  /\ call'[jobs'[i].call].stage = "asked"
                          /\ call'[jobs'[i].call].step = jobs'[i].step
                          /\ \A j \in DOMAIN jobs' : jobs'[j].call = jobs'[i].call => i = j
      BY DEF JobsInv
    <3>2. /\ i \in 1..(Len(jobs) - 1) /\ i + 1 \in DOMAIN jobs /\ jobs'[i] = jobs[i + 1]
      BY <1>1, <2>2, <3>1
    <3>3. jobs'[i].call \in Calls /\ jobs'[i].call # k
      BY <1>2, <2>3, <2>5, <3>1, <3>2
    <3>4. /\ call[jobs'[i].call].stage = "asked" /\ call[jobs'[i].call].step = jobs'[i].step
          /\ \A j \in DOMAIN jobs : jobs[j].call = jobs'[i].call => i + 1 = j
      BY <1>1, <3>1, <3>2 DEF JobsInv
    <3>5. ASSUME NEW j \in DOMAIN jobs', jobs'[j].call = jobs'[i].call PROVE i = j
      <4>1. j \in 1..(Len(jobs) - 1) /\ j + 1 \in DOMAIN jobs /\ jobs'[j] = jobs[j + 1]
        BY <1>1, <2>2, <3>5
      <4>2. i + 1 = j + 1
        BY <3>4, <3>5, <4>1
      <4>3. QED
        BY <3>2, <4>1, <4>2
    <3>6. QED
      BY <2>6, <3>3, <3>4, <3>5
  <2>9. RecordedPassed'
    BY <1>1, <2>1 DEF RecordedPassed, Recorded
  <2>10. QED
    BY <2>7, <2>8, <2>9 DEF EvidenceInv
<1>8. ASSUME NEW k \in Calls, TimesOut(k) PROVE EvidenceInv'
  <2>1. /\ Refuses(k) /\ UNCHANGED <<records, exited0>>
        /\ DOMAIN jobs' = DOMAIN jobs
        /\ \A i \in DOMAIN jobs :
              jobs'[i] = IF jobs[i].call = k THEN [jobs[i] EXCEPT !.call = None] ELSE jobs[i]
    BY <1>8 DEF TimesOut
  <2>2. CallsInv'
    BY <1>1, <2>1, CallsUndisturbed
  <2>3. \A m \in Calls : m # k => call'[m] = call[m]
    BY <1>1, <2>1 DEF Refuses
  <2>4. \A i \in DOMAIN jobs :
          /\ jobs[i].call # k => jobs'[i] = jobs[i]
          /\ jobs[i].call = k => jobs'[i].call = None
    <3>1. \A i \in DOMAIN jobs : jobs[i] \in Job
      BY <1>1
    <3>2. QED
      BY <2>1, <3>1 DEF Job
  <2>5. JobsInv'
    <3>1. SUFFICES ASSUME NEW i \in DOMAIN jobs, jobs'[i].call # None
                   PROVE  /\ call'[jobs'[i].call].stage = "asked"
                          /\ call'[jobs'[i].call].step = jobs'[i].step
                          /\ \A j \in DOMAIN jobs : jobs'[j].call = jobs'[i].call => i = j
      BY <2>1 DEF JobsInv
    <3>2. jobs'[i] = jobs[i] /\ jobs[i].call # k /\ jobs[i].call \in Calls
      BY <1>2, <2>4, <3>1
    <3>3. QED
      BY <1>1, <2>3, <2>4, <3>1, <3>2 DEF JobsInv
  <2>6. QED
    BY <1>4, <2>1, <2>2, <2>5 DEF EvidenceInv
<1>9. ASSUME NEW k \in Calls, Passes(k), call[k].stage # "asked", UNCHANGED <<jobs, exited0>>
      PROVE  CallsInv' /\ JobsInv'
  <2>1. CallsInv'
    BY <1>1, <1>9, CallsUndisturbed
  <2>2. \A m \in Calls : m # k => call'[m] = call[m]
    BY <1>1, <1>9 DEF Passes
  <2>3. QED
    BY <1>1, <1>9, <2>1, <2>2, JobsUndisturbed
<1>10. ASSUME NEW k \in Calls, MarkGet(k) PROVE EvidenceInv'
  <2>1. /\ UNCHANGED <<records, jobs, exited0>> /\ call[k].stage = "passed"
    BY <1>10 DEF MarkGet
  <2>2. CASE Passes(k)
    BY <1>4, <1>9, <2>1, <2>2 DEF EvidenceInv
  <2>3. CASE call' = [call EXCEPT ![k].stage = "marking", ![k].copy = records, ![k].at = now]
    <3>1. /\ call'[k].copy = records /\ call'[k].step = call[k].step
          /\ \A m \in Calls : m # k => call'[m] = call[m]
      BY <1>1, <2>3 DEF Call
    <3>2. call[k].step \in exited0 /\ \A i \in DOMAIN records : records[i].step \in exited0
      BY <1>1, <2>1 DEF CallsInv, RecordedPassed, Recorded
    <3>3. CallsInv'
      BY <1>1, <2>1, <3>1, <3>2 DEF CallsInv
    <3>4. JobsInv'
      BY <1>1, <2>1, <3>1, JobsUndisturbed
    <3>5. QED
      BY <1>4, <2>1, <3>3, <3>4 DEF EvidenceInv
  <2>4. QED
    BY <1>10, <2>2, <2>3 DEF MarkGet
<1>11. ASSUME NEW k \in Calls, MarkPatch(k) PROVE EvidenceInv'
  <2> DEFINE e == [step |-> call[k].step, at |-> call[k].at]
  <2>1. /\ records' = Append(call[k].copy, e) /\ Passes(k) /\ call[k].stage = "marking"
        /\ UNCHANGED <<jobs, exited0>>
    BY <1>11 DEF MarkPatch
  <2>2. /\ call[k].copy \in Seq(Record) /\ e \in Record /\ e.step = call[k].step
    BY DEF TypeOK, Call, Record
  <2>3. /\ call[k].step \in exited0
        /\ \A i \in DOMAIN call[k].copy : call[k].copy[i].step \in exited0
    BY <1>1, <2>1 DEF CallsInv
  <2> HIDE DEF e
  <2>4. /\ DOMAIN records' = 1..(Len(call[k].copy) + 1)
        /\ DOMAIN call[k].copy = 1..Len(call[k].copy) /\ Len(call[k].copy) \in Nat
        /\ records'[Len(call[k].copy) + 1] = e
        /\ \A i \in 1..Len(call[k].copy) : records'[i] = call[k].copy[i]
    BY <2>1, <2>2
  <2>5. \A i \in DOMAIN records' : records'[i].step \in exited0
    BY <2>2, <2>3, <2>4
  <2>6. RecordedPassed'
    BY <2>1, <2>5 DEF RecordedPassed, Recorded
  <2>7. QED
    BY <1>9, <2>1, <2>6 DEF EvidenceInv
<1>12. ASSUME NEW k \in Calls, MarkFails(k) PROVE EvidenceInv'
  <2>1. Passes(k) /\ call[k].stage # "asked" /\ UNCHANGED <<records, jobs, exited0>>
    BY <1>12 DEF MarkFails
  <2>2. QED
    BY <1>4, <1>9, <2>1 DEF EvidenceInv
<1>13. ASSUME NEW p \in Pages,
              PrevStep(p) \/ NextStep(p) \/ \E n \in Steps : ClickDot(p, n)
       PROVE  UNCHANGED <<records, call, exited0, jobs>>
  BY <1>13 DEF PrevStep, NextStep, ClickDot, ShowStep, server, history
<1>14. ASSUME (\E s \in Steps : Work(s)) \/ VMStops \/ VMStarts \/ Tick \/ UNCHANGED vars
       PROVE  UNCHANGED <<records, call, exited0>> /\ (jobs' = jobs \/ jobs' = <<>>)
  BY <1>14 DEF Work, VMStops, VMStarts, Tick, vars, server, history
<1>15. QED
  BY <1>3, <1>5, <1>6, <1>7, <1>8, <1>10, <1>11, <1>12, <1>13, <1>14 DEF Next, Handle

\* Whatever times out, is retried, lost or left behind, a recorded step is one
\* whose script has passed.
THEOREM RecordsAreEvidence == Spec => []RecordedPassed
<1>1. Init => EvidenceInv
  BY DEF Init, Free, EvidenceInv, RecordedPassed, Recorded, CallsInv, JobsInv
<1>2. EvidenceInv => RecordedPassed
  BY DEF EvidenceInv
<1>3. QED
  BY <1>1, <1>2, TypeCorrect, EvidencePreserved, PTL DEF Spec

-----------------------------------------------------------------------------
(* What it takes to record each pass.                                      *)

\* What a check is about to write back has every record there is.
CopiesComplete == \A k \in Calls : call[k].stage = "marking" => call[k].copy = records

\* "CompletedSteps records each step that has passed verification": with one check at a time
\* and an API server that does not fail it is so, whatever the learner leaves or undoes and
\* however often the VM stops; two checks that overlap are what breaks it.
THEOREM EachPassIsRecorded ==
  ASSUME \A k, m \in Calls : k = m, MaxFailures = 0
  PROVE  Spec => []EachPassRecorded
<1> DEFINE Inv == CopiesComplete /\ EachPassRecorded
<1>1. Init => Inv
  BY DEF Init, Free, CopiesComplete, EachPassRecorded
<1>2. ASSUME TypeOK, Inv, [Next]_vars PROVE Inv'
  <2> USE DEF page, server, history
  <2>1. /\ records \in Seq(Record) /\ failures = 0 /\ call \in [Calls -> Call]
        /\ CopiesComplete /\ told \subseteq Recorded
    BY <1>2 DEF TypeOK, EachPassRecorded
  <2>2. ASSUME records' = records, told' \subseteq Recorded,
               \A k \in Calls : call'[k].stage = "marking"
                                    => /\ call[k].stage = "marking"
                                       /\ call'[k].copy = call[k].copy
        PROVE  Inv'
    BY <2>1, <2>2 DEF CopiesComplete, EachPassRecorded, Recorded
  <2>3. ASSUME NEW k \in Calls, Passes(k) \/ Refuses(k)
        PROVE  /\ \A m \in Calls : call'[m].stage = "marking"
                                     => call[m].stage = "marking" /\ call'[m].copy = call[m].copy
               /\ told' \subseteq told \cup {call[k].step}
               /\ call[k].page = None => told' = told
    <3>1. call' = [call EXCEPT ![k] = Free] /\ Free.stage = "free"
      BY <2>3 DEF Passes, Refuses, Free
    <3>2. \A m \in Calls : call'[m].stage = "marking"
                             => call[m].stage = "marking" /\ call'[m].copy = call[m].copy
      BY <2>1, <3>1
    <3>3. told' = told \/ (call[k].page # None /\ told' = told \cup {call[k].step})
      BY <2>3 DEF Passes, Refuses
    <3>4. QED
      BY <3>2, <3>3
  <2>4. CASE UNCHANGED vars
    BY <2>1, <2>2, <2>4 DEF vars
  <2>5. ASSUME NEW p \in Pages, NEW n \in Steps, ShowStep(p, n) PROVE Inv'
    BY <2>1, <2>2, <2>5 DEF ShowStep
  <2>6. ASSUME NEW p \in Pages, PrevStep(p) \/ NextStep(p) \/ \E n \in Steps : ClickDot(p, n)
        PROVE  Inv'
    <3>1. current[p] \in Steps
      BY <1>2 DEF TypeOK
    <3>2. QED
      BY <2>5, <2>6, <3>1 DEF PrevStep, NextStep, ClickDot, Steps
  <2>7. ASSUME NEW p \in Pages, NEW k \in Calls, Check(p, k) PROVE Inv'
    BY <2>1, <2>2, <2>7 DEF Check, Free
  <2>8. ASSUME NEW p \in Pages, Leave(p) PROVE Inv'
    <3>1. \A k \in Calls : call'[k].stage = call[k].stage /\ call'[k].copy = call[k].copy
      BY <2>1, <2>8 DEF Leave, Call
    <3>2. QED
      BY <2>1, <2>2, <2>8, <3>1 DEF Leave
  <2>9. CASE RunScript
    <3> DEFINE k == Head(jobs).call
    <3>1. records' = records
      BY <2>9 DEF RunScript
    <3>2. CASE UNCHANGED <<call, page, told>>
      BY <2>1, <2>2, <3>1, <3>2
    <3>3. CASE k # None /\ Refuses(k)
      <4>1. \A m \in Calls : call'[m].stage = "marking"
                               => call[m].stage = "marking" /\ call'[m].copy = call[m].copy
        BY <2>1, <3>3 DEF Refuses, Free
      <4>2. told' = told
        BY <3>3 DEF Refuses
      <4>3. QED
        BY <2>1, <2>2, <3>1, <4>1, <4>2
    <3>4. CASE call' = [call EXCEPT ![k].stage = "passed"] /\ UNCHANGED <<page, told>>
      <4>1. \A m \in Calls : call'[m].stage = "marking"
                               => call[m].stage = "marking" /\ call'[m].copy = call[m].copy
        BY <2>1, <3>4 DEF Call
      <4>2. QED
        BY <2>1, <2>2, <3>1, <3>4, <4>1
    <3>5. QED
      BY <2>9, <3>2, <3>3, <3>4 DEF RunScript
  <2>10. ASSUME NEW k \in Calls, TimesOut(k) PROVE Inv'
    <3>1. told' = told /\ records' = records
      BY <2>10 DEF TimesOut, Refuses
    <3>2. QED
      BY <2>1, <2>2, <2>3, <2>10, <3>1 DEF TimesOut
  <2>11. ASSUME NEW k \in Calls, MarkGet(k) PROVE Inv'
    <3>1. records' = records
      BY <2>11 DEF MarkGet
    <3>2. CASE call[k].step \in Recorded /\ Passes(k)
      BY <2>1, <2>2, <2>3, <3>1, <3>2
    <3>3. CASE /\ call' = [call EXCEPT ![k].stage = "marking", ![k].copy = records, ![k].at = now]
               /\ UNCHANGED <<page, told>>
      <4>1. \A m \in Calls : call'[m].stage = "marking" => call'[m].copy = records
        BY <2>1, <3>3 DEF CopiesComplete, Call
      <4>2. QED
        BY <2>1, <3>1, <3>3, <4>1 DEF CopiesComplete, EachPassRecorded, Recorded
    <3>4. QED
      BY <2>11, <3>2, <3>3 DEF MarkGet
  <2>12. ASSUME NEW k \in Calls, MarkPatch(k) PROVE Inv'
    <3> DEFINE r == [step |-> call[k].step, at |-> call[k].at]
    <3>1. records' = Append(records, r) /\ Passes(k)
      BY <2>1, <2>12 DEF MarkPatch, CopiesComplete
    <3>2. Recorded' = Recorded \cup {call[k].step}
      <4>1. /\ DOMAIN records' = 1..(Len(records) + 1) /\ DOMAIN records = 1..Len(records)
            /\ \A i \in DOMAIN records : records'[i] = records[i]
            /\ records'[Len(records) + 1] = r /\ Len(records) \in Nat
        BY <2>1, <3>1
      <4>2. r.step = call[k].step
        OBVIOUS
      <4> HIDE DEF r
      <4>3. \A i \in DOMAIN records' : i \in DOMAIN records \/ i = Len(records) + 1
        BY <4>1
      <4>4. \A i \in DOMAIN records : i \in DOMAIN records'
        BY <4>1
      <4>5. Len(records) + 1 \in DOMAIN records'
        BY <4>1
      <4>6. QED
        BY <4>1, <4>2, <4>3, <4>4, <4>5 DEF Recorded
    <3>3. told' \subseteq Recorded'
      BY <2>1, <2>3, <3>1, <3>2
    <3>4. \A m \in Calls : call'[m].stage # "marking"
      <4>1. call' = [call EXCEPT ![k] = Free] /\ Free.stage = "free"
        BY <3>1 DEF Passes, Free
      <4>2. QED
        BY <2>1, <4>1
    <3>5. QED
      BY <3>3, <3>4 DEF CopiesComplete, EachPassRecorded
  <2>13. ASSUME NEW k \in Calls, MarkFails(k) PROVE Inv'
    <3>1. call[k].page = None /\ Passes(k) /\ records' = records
      BY <2>1, <2>13 DEF MarkFails
    <3>2. QED
      BY <2>1, <2>2, <2>3, <3>1
  <2>14. CASE VMStops \/ VMStarts \/ Tick \/ \E s \in Steps : Work(s)
    BY <2>1, <2>2, <2>14 DEF VMStops, VMStarts, Tick, Work
  <2>15. QED
    BY <1>2, <2>4, <2>6, <2>7, <2>8, <2>9, <2>10, <2>11, <2>12, <2>13, <2>14 DEF Next, Handle
<1>3. Inv => EachPassRecorded
  OBVIOUS
<1>4. QED
  BY <1>1, <1>2, <1>3, TypeCorrect, PTL DEF Spec

-----------------------------------------------------------------------------
(* The dashboard.  What adminCSM computes in its loop over the sessions is *)
(* shown by induction on how far it has come.                              *)

\* The loop over n sessions, from one to the next.
Loops(list, key, n) ==
    {best \in [0..n -> 0..n] :
        best[0] = 0 /\ \A i \in 1..n : best[i] = Challenge(list, key, i, best[i - 1])}

\* It has a result.
LEMMA LoopComputes ==
  ASSUME NEW list, NEW key, NEW n \in Nat
  PROVE  Loops(list, key, n) # {}
<1> DEFINE Runs(m, best) ==
             /\ best \in [0..m -> 0..m] /\ best[0] = 0
             /\ \A i \in 1..m : best[i] = Challenge(list, key, i, best[i - 1])
           P == {m \in Nat : \E best : Runs(m, best)}
<1>1. 0 \in P
  <2>1. Runs(0, [i \in 0..0 |-> 0])
    OBVIOUS
  <2> QED
    BY <2>1
<1>2. ASSUME NEW m \in Nat, m \in P PROVE m + 1 \in P
  <2>1. PICK best : Runs(m, best)
    BY <1>2
  <2> DEFINE last == Challenge(list, key, m + 1, best[m])
             more == [i \in 0..(m + 1) |-> IF i = m + 1 THEN last ELSE best[i]]
  <2>2. best \in [0..m -> 0..m] /\ best[m] \in 0..m
    BY <2>1
  <2>3. last \in 0..(m + 1)
    BY <2>2 DEF Challenge
  <2>4. more \in [0..(m + 1) -> 0..(m + 1)] /\ more[0] = 0
    BY <2>1, <2>2, <2>3
  <2>5. ASSUME NEW i \in 1..(m + 1)
        PROVE  more[i] = Challenge(list, key, i, more[i - 1])
    <3>1. CASE i = m + 1
      <4>1. i - 1 \in 0..(m + 1) /\ i - 1 = m /\ i - 1 # m + 1
        BY <3>1
      <4> QED
        BY <3>1, <4>1
    <3>2. CASE i \in 1..m
      <4>1. /\ i \in 0..(m + 1) /\ i # m + 1
            /\ i - 1 \in 0..(m + 1) /\ i - 1 # m + 1
        BY <3>2
      <4>2. more[i] = best[i] /\ more[i - 1] = best[i - 1]
        BY <4>1
      <4> QED
        BY <2>1, <3>2, <4>2
    <3> QED
      BY <3>1, <3>2
  <2>6. Runs(m + 1, more)
    BY <2>4, <2>5
  <2> HIDE DEF Runs
  <2> QED
    BY <2>6
<1>3. n \in P
  <2> HIDE DEF P
  <2> QED
    BY <1>1, <1>2, Induction
<1>4. \E best : Runs(n, best)
  BY <1>3
<1> QED
  BY <1>4 DEF Loops

\* What BestAfter is: the result of the loop.
LEMMA BestAfterDef ==
  ASSUME NEW list, NEW key, NEW n \in Nat, n = Len(list)
  PROVE  LET best == BestAfter(list, key) IN
         best[0] = 0 /\ \A i \in 1..n : best[i] = Challenge(list, key, i, best[i - 1])
<1> DEFINE Is(f) == f = [i \in 0..n |-> IF i = 0 THEN 0
                                        ELSE Challenge(list, key, i, f[i - 1])]
           best == BestAfter(list, key)
<1>1. PICK f : f \in Loops(list, key, n)
  BY LoopComputes
<1>2. /\ f \in [0..n -> 0..n] /\ f[0] = 0
      /\ \A i \in 1..n : f[i] = Challenge(list, key, i, f[i - 1])
  BY <1>1 DEF Loops
<1>3. Is(f)
  <2> DEFINE g == [i \in 0..n |-> IF i = 0 THEN 0 ELSE Challenge(list, key, i, f[i - 1])]
  <2>1. \A i \in 0..n : f[i] = g[i]
    BY <1>2
  <2>2. f = g
    BY <1>2, <2>1
  <2> QED
    BY <2>2
<1>4. best = CHOOSE f0 : Is(f0)
  BY DEF BestAfter
<1>5. Is(best)
  <2> HIDE DEF Is, best
  <2> QED
    BY <1>3, <1>4
<1> HIDE DEF best
<1>6. \A i \in 0..n : best[i] = IF i = 0 THEN 0 ELSE Challenge(list, key, i, best[i - 1])
  <2> DEFINE g == [i \in 0..n |-> IF i = 0 THEN 0 ELSE Challenge(list, key, i, best[i - 1])]
  <2>1. best = g
    BY <1>5
  <2>2. \A i \in 0..n : g[i] = IF i = 0 THEN 0 ELSE Challenge(list, key, i, best[i - 1])
    OBVIOUS
  <2> HIDE DEF g
  <2> QED
    BY <2>1, <2>2
<1> QED
  BY <1>6 DEF best

\* b is the best of the group among the first m sessions, if it has any.
BestOf(list, key, m, b) ==
    /\ b \in 0..m
    /\ b = 0 => \A j \in 1..m : ~InGroup(list[j], key)
    /\ b # 0 => /\ InGroup(list[b], key)
                /\ \A j \in 1..m : InGroup(list[j], key) => ~Better(list[j], list[b])

\* Who has to give way was not better than anybody the winner is compared with.
LEMMA BetterOrders ==
  ASSUME NEW x \in View, NEW y \in View, NEW z \in View
  PROVE  /\ ~Better(x, x)
         /\ Better(x, y) /\ ~Better(z, y) => ~Better(z, x)
<1>1. /\ Len(x.steps) \in Nat /\ Len(y.steps) \in Nat /\ Len(z.steps) \in Nat
      /\ x.live \in BOOLEAN /\ y.live \in BOOLEAN /\ z.live \in BOOLEAN
  BY DEF View
<1> QED
  BY <1>1 DEF Better

\* One turn of the loop keeps the best of what it has seen.
LEMMA ChallengeKeeps ==
  ASSUME NEW n \in Nat, NEW list \in [1..n -> View], NEW key, NEW m \in 0..(n - 1), NEW b,
         BestOf(list, key, m, b)
  PROVE  BestOf(list, key, m + 1, Challenge(list, key, m + 1, b))
<1>1. m + 1 \in 1..n /\ b \in 0..m /\ list[m + 1] \in View /\ (b # 0 => list[b] \in View)
  BY DEF BestOf
<1>2. \A j \in 1..(m + 1) : j \in 1..m \/ j = m + 1
  OBVIOUS
<1>3. \A j \in 1..m : list[j] \in View
  OBVIOUS
<1>4. CASE InGroup(list[m + 1], key) /\ b = 0
  <2>1. Challenge(list, key, m + 1, b) = m + 1 /\ m + 1 # 0
    BY <1>4 DEF Challenge
  <2>2. \A j \in 1..m : ~InGroup(list[j], key)
    BY <1>4 DEF BestOf
  <2> QED
    BY <1>1, <1>2, <1>4, <2>1, <2>2, BetterOrders DEF BestOf
<1>5. CASE InGroup(list[m + 1], key) /\ b # 0 /\ Better(list[m + 1], list[b])
  <2>1. Challenge(list, key, m + 1, b) = m + 1 /\ m + 1 # 0
    BY <1>5 DEF Challenge
  <2>2. \A j \in 1..m : InGroup(list[j], key) => ~Better(list[j], list[b])
    BY <1>5 DEF BestOf
  <2>3. \A j \in 1..m : InGroup(list[j], key) => ~Better(list[j], list[m + 1])
    BY <1>1, <1>3, <1>5, <2>2, BetterOrders
  <2> QED
    BY <1>1, <1>2, <1>5, <2>1, <2>3, BetterOrders DEF BestOf
<1>6. CASE ~InGroup(list[m + 1], key) \/ (b # 0 /\ ~Better(list[m + 1], list[b]))
  <2>1. Challenge(list, key, m + 1, b) = b
    BY <1>6 DEF Challenge
  <2> QED
    BY <1>1, <1>2, <1>6, <2>1 DEF BestOf
<1> QED
  BY <1>4, <1>5, <1>6

\* adminCSM's loop finds the best session of a group, however long the list is.
LEMMA LoopFindsBest ==
  ASSUME NEW n \in Nat, NEW list \in [1..n -> View], n = Len(list), NEW key
  PROVE  BestOf(list, key, n, BestAfter(list, key)[n])
<1> DEFINE best == BestAfter(list, key)
           P == {m \in Nat : m <= n => BestOf(list, key, m, best[m])}
<1>1. best[0] = 0 /\ \A i \in 1..n : best[i] = Challenge(list, key, i, best[i - 1])
  BY BestAfterDef
<1> HIDE DEF best
<1>2. 0 \in P
  BY <1>1 DEF BestOf
<1>3. ASSUME NEW m \in Nat, m \in P PROVE m + 1 \in P
  <2> SUFFICES ASSUME m + 1 <= n PROVE BestOf(list, key, m + 1, best[m + 1])
    OBVIOUS
  <2>1. m \in 0..(n - 1) /\ m + 1 \in 1..n /\ m + 1 - 1 = m
    OBVIOUS
  <2>2. BestOf(list, key, m, best[m])
    BY <1>3, <2>1
  <2>3. best[m + 1] = Challenge(list, key, m + 1, best[m])
    BY <1>1, <2>1
  <2> QED
    BY <2>1, <2>2, <2>3, ChallengeKeeps
<1>4. n \in P
  <2> HIDE DEF P
  <2> QED
    BY <1>2, <1>3, Induction
<1> QED
  BY <1>4 DEF best

\* The record of what the dashboard knows of a session.
LEMMA ViewType ==
  ASSUME NEW d \in Names, NEW c \in Names, NEW l \in BOOLEAN, NEW o \in BOOLEAN,
         NEW r \in Seq(Record)
  PROVE  SessionView(d, c, l, o, r) \in View
  BY Zenon DEF SessionView, View

\* The lists there may be are lists of sessions.
LEMMA ListsAreLists ==
  ASSUME TypeOK, NEW list \in Lists
  PROVE  Len(list) \in Nat /\ list \in [1..Len(list) -> View] /\ DOMAIN list = 1..Len(list)
<1>1. PICK listing \in Listings : list \in {List(listing, TRUE), List(listing, running)}
  BY Zenon DEF Lists
<1>2. /\ listing \in Seq(View \cup {None}) /\ Len(listing) \in Nat
      /\ listing \in [1..Len(listing) -> View \cup {None}]
  BY DashboardAssumption
<1>3. running = TRUE \/ running = FALSE
  BY Zenon DEF TypeOK
<1>4. records \in Seq(Record)
  BY DEF TypeOK
<1>5. Mine(TRUE) \in View /\ Mine(FALSE) \in View
  <2>1. TRUE \in BOOLEAN /\ FALSE \in BOOLEAN
    BY Zenon
  <2>2. "customer" \in Names /\ "scenario" \in Names
    BY DashboardAssumption
  <2> QED
    BY <1>4, <2>1, <2>2, ViewType, Zenon DEF Mine
<1>6. list = List(listing, TRUE) \/ list = List(listing, FALSE)
  BY <1>1, <1>3, Zenon
<1>7. CASE list = List(listing, TRUE)
  <2>1. PICK m : m = Mine(TRUE)
    OBVIOUS
  <2>2. list = [i \in DOMAIN listing |-> IF listing[i] = None THEN m ELSE listing[i]]
    BY <1>7, <2>1, Zenon DEF List
  <2>3. m \in View
    BY <1>5, <2>1, Zenon
  <2> QED
    BY <1>2, <2>2, <2>3
<1>8. CASE list = List(listing, FALSE)
  <2>1. PICK m : m = Mine(FALSE)
    OBVIOUS
  <2>2. list = [i \in DOMAIN listing |-> IF listing[i] = None THEN m ELSE listing[i]]
    BY <1>8, <2>1, Zenon DEF List
  <2>3. m \in View
    BY <1>5, <2>1, Zenon
  <2> QED
    BY <1>2, <2>2, <2>3
<1> QED
  BY <1>6, <1>7, <1>8

\* The row of a customer of whom there are sessions is that of the best of them.
LEMMA RowOfBest ==
  ASSUME TypeOK, NEW list \in Lists, Customer \in {Key(x) : x \in {y \in ToSet(list) : Visible(y)}}
  PROVE  LET best == Best(list, Customer) IN
         /\ best \in View /\ best \in ToSet(list) /\ InGroup(best, Customer)
         /\ \A x \in ToSet(list) : InGroup(x, Customer) => x \in View /\ ~Better(x, best)
         /\ Rows(list)[Customer] = Row(best)
<1> DEFINE n == Len(list)
           b == BestAfter(list, Customer)[n]
           best == Best(list, Customer)
<1>1. n \in Nat /\ list \in [1..n -> View] /\ DOMAIN list = 1..n
  BY ListsAreLists
<1>2. BestOf(list, Customer, n, b)
  BY <1>1, LoopFindsBest
<1>3. ToSet(list) = {list[i] : i \in 1..n}
  BY <1>1 DEF ToSet
<1>4. PICK j \in 1..n : InGroup(list[j], Customer)
  BY <1>3 DEF InGroup
<1>5. best = list[b]
  BY DEF Best
<1> HIDE DEF n, b, best
<1>6. b \in 1..n /\ InGroup(list[b], Customer)
  BY <1>1, <1>2, <1>4 DEF BestOf
<1>7. \A i \in 1..n : InGroup(list[i], Customer) => ~Better(list[i], list[b])
  BY <1>2, <1>6 DEF BestOf
<1>8. Customer[2] = "scenario"
  BY DEF Customer
<1>9. Rows(list)[Customer] = Row(Best(list, Customer))
  BY <1>8 DEF Rows
<1> QED
  BY <1>1, <1>3, <1>5, <1>6, <1>7, <1>9 DEF best

\* What a row shows of a session.
LEMMA RowCells ==
  ASSUME NEW x \in View
  PROVE  /\ {i \in Steps : Row(x)[i] = "passed"} = {i \in Steps : i <= Len(x.steps)}
         /\ {i \in Steps : Row(x)[i] = "active"} =
                IF x.live THEN {i \in Steps : i = Len(x.steps) + 1} ELSE {}
<1>1. Len(x.steps) \in Nat /\ x.live \in BOOLEAN
  BY DEF View
<1>2. \A i \in Steps : Row(x)[i] = Cell(x, i)
  BY DEF Row
<1>3. \A i \in Steps : Cell(x, i) = "passed" <=> i <= Len(x.steps)
  BY <1>1 DEF Cell, Steps
<1>4. \A i \in Steps : Cell(x, i) = "active" <=> i = Len(x.steps) + 1 /\ x.live
  BY <1>1 DEF Cell, Steps
<1> QED
  BY <1>1, <1>2, <1>3, <1>4

\* adminCSM: in whatever order any number of sessions are listed, a row shows the progress of
\* the session of the customer that has got furthest.
THEOREM RowsShowFurthest == Spec => []RowShowsFurthest
<1> SUFFICES ASSUME TypeOK PROVE RowShowsFurthest
  BY TypeCorrect, PTL
<1> SUFFICES ASSUME NEW list \in Lists,
                    NEW x \in {z \in ToSet(list) : InGroup(z, Customer)},
                    \A y \in {z \in ToSet(list) : InGroup(z, Customer)} :
                        Len(y.steps) <= Len(x.steps)
             PROVE  LET seen == {z \in ToSet(list) : InGroup(z, Customer)}
                        furthest == {z \in seen : \A y \in seen : Len(y.steps) <= Len(z.steps)}
                        row == Rows(list)[Customer]
                    IN  /\ {i \in Steps : row[i] = "passed"} = {i \in Steps : i <= Len(x.steps)}
                        /\ {i \in Steps : row[i] = "active"} =
                               IF \E y \in furthest : y.live
                               THEN {i \in Steps : i = Len(x.steps) + 1} ELSE {}
  BY DEF RowShowsFurthest
<1> DEFINE seen == {z \in ToSet(list) : InGroup(z, Customer)}
           furthest == {z \in seen : \A y \in seen : Len(y.steps) <= Len(z.steps)}
           best == Best(list, Customer)
<1>1. Customer \in {Key(z) : z \in {y \in ToSet(list) : Visible(y)}}
  BY DEF InGroup
<1>2. /\ best \in View /\ best \in seen /\ Rows(list)[Customer] = Row(best)
      /\ \A y \in seen : y \in View /\ ~Better(y, best)
  BY <1>1, RowOfBest
<1> HIDE DEF best, seen
<1>3. \A y \in seen : Len(y.steps) \in Nat /\ y.live \in BOOLEAN
  BY <1>2 DEF View
<1>4. \A y \in seen : /\ Len(y.steps) <= Len(best.steps)
                      /\ Len(y.steps) = Len(best.steps) /\ y.live => best.live
  BY <1>2, <1>3 DEF Better
<1>5. x \in seen /\ Len(x.steps) = Len(best.steps)
  BY <1>2, <1>3, <1>4 DEF seen
<1>6. best \in furthest
  BY <1>2, <1>4
<1>7. (\E y \in furthest : y.live) <=> best.live
  BY <1>2, <1>3, <1>4, <1>6
<1>8. /\ {i \in Steps : Row(best)[i] = "passed"} = {i \in Steps : i <= Len(x.steps)}
      /\ {i \in Steps : Row(best)[i] = "active"} =
             IF best.live THEN {i \in Steps : i = Len(x.steps) + 1} ELSE {}
  BY <1>2, <1>5, RowCells
<1> QED
  BY <1>2, <1>7, <1>8 DEF seen

\* Whoever has a record for each of N different steps has one for every step.
LEMMA NRecordsAreAllSteps ==
  ASSUME TypeOK, RecordedOnce, Len(records) >= N
  PROVE  Recorded = Steps
<1> DEFINE f == [i \in 1..N |-> records[i].step]
<1>1. records \in [1..Len(records) -> Record] /\ Len(records) \in Nat /\ 1..N \subseteq DOMAIN records
  BY DEF TypeOK
<1>2. \A i \in DOMAIN records : records[i].step \in 1..N
  BY <1>1 DEF Record, Steps
<1>3. f \in Injection(1..N, 1..N)
  BY <1>1, <1>2 DEF RecordedOnce, Injection, IsInjective
<1>4. IsFiniteSet(1..N)
  BY FS_Interval
<1>5. f \in Surjection(1..N, 1..N)
  BY <1>3, <1>4, FS_Injection
<1>6. \A s \in 1..N : \E i \in 1..N : f[i] = s
  BY <1>5 DEF Surjection
<1> QED
  BY <1>1, <1>2, <1>6 DEF Recorded, Steps

\* csm.html calls a row graduated only when adminCSM has seen enough records in one session;
\* as they are of different steps and each is evidence, the script of every step has passed.
THEOREM GraduatesHavePassed == Spec => []GraduatesPassedAll
<1>1. ASSUME TypeOK, RecordedOnce, RecordedPassed PROVE GraduatesPassedAll
  <2> SUFFICES ASSUME exited0 # Steps, NEW list \in Lists, Customer \in DOMAIN Rows(list),
                      Summary(Rows(list)[Customer]) = "graduated"
               PROVE  \E x \in ToSet(list) : Visible(x) /\ x # Mine(x.live) /\ Len(x.steps) >= N
    BY <1>1 DEF GraduatesPassedAll
  <2> DEFINE best == Best(list, Customer)
  <2>1. Customer \in {Key(x) : x \in {y \in ToSet(list) : Visible(y)}}
    BY DEF Rows
  <2>2. /\ best \in View /\ best \in ToSet(list) /\ InGroup(best, Customer)
        /\ Rows(list)[Customer] = Row(best)
    BY <1>1, <2>1, RowOfBest
  <2> HIDE DEF best
  <2>3. \A i \in Steps : Row(best)[i] = "passed"
    BY <2>2 DEF Summary
  <2>4. N \in Steps /\ Len(best.steps) \in Nat
    BY <2>2 DEF Steps, View
  <2>5. Len(best.steps) >= N
    BY <2>2, <2>3, <2>4, RowCells
  <2>6. ASSUME best = Mine(best.live) PROVE FALSE
    <3>1. best.steps = records
      BY <2>6 DEF Mine, SessionView
    <3>2. Recorded = Steps
      BY <1>1, <2>5, <3>1, NRecordsAreAllSteps
    <3> QED
      BY <1>1, <3>2 DEF RecordedPassed, TypeOK
  <2> QED
    BY <2>2, <2>5, <2>6 DEF InGroup
<1> QED
  BY <1>1, TypeCorrect, RecordsAreOnce, RecordsAreEvidence, PTL
=============================================================================
