-------------------------- MODULE LabOperator_proofs --------------------------
(***************************************************************************)
(* Proofs about LabOperator, for any bound on lag, requests, failures and  *)
(* restarts: its types, that a session reported as Expired is torn down,   *)
(* and that the operator implements SessionLifecycle.                      *)
(***************************************************************************)
EXTENDS LabOperator, TLAPS

USE BoundsAssumption

\* A merge patch of sessions is a session, field by field.
LEMMA MergePatchFields ==
  ASSUME NEW t \in LabSession, NEW b \in LabSession, NEW a \in LabSession
  PROVE  /\ MergePatch(t, b, a) \in LabSession
         /\ MergePatch(t, b, a).exists = IF a.exists # b.exists THEN a.exists ELSE t.exists
         /\ MergePatch(t, b, a).phase = IF a.phase # b.phase THEN a.phase ELSE t.phase
         /\ MergePatch(t, b, a).dns = IF a.dns # b.dns THEN a.dns ELSE t.dns
         /\ MergePatch(t, b, a).paused = IF a.paused # b.paused THEN a.paused ELSE t.paused
         /\ MergePatch(t, b, a).due = IF a.due # b.due THEN a.due ELSE t.due
         /\ MergePatch(t, b, a).finalizer =
                IF a.finalizer # b.finalizer THEN a.finalizer ELSE t.finalizer
         /\ MergePatch(t, b, a).deleting =
                IF a.deleting # b.deleting THEN a.deleting ELSE t.deleting
  BY DEF MergePatch, LabSession

\* The copies the operator patches from are sessions.
LEMMA SessionValues ==
  /\ NoSession \in LabSession /\ Created \in LabSession
  /\ \A v \in LabSession :
        /\ Paused(v) \in LabSession /\ ExpiredStatus(v) \in LabSession
        /\ [v EXCEPT !.capacityReady = TRUE] \in LabSession
        /\ [v EXCEPT !.capacityReady = FALSE] \in LabSession
        /\ [v EXCEPT !.phase = "Provisioning"] \in LabSession
        /\ [v EXCEPT !.finalizer = TRUE] \in LabSession
        /\ [v EXCEPT !.deleting = TRUE] \in LabSession
        /\ [v EXCEPT !.paused = TRUE] \in LabSession
        /\ [v EXCEPT !.paused = FALSE] \in LabSession
        /\ [v EXCEPT !.due = TRUE] \in LabSession
  BY DEF LabSession, NoSession, Created, Paused, ExpiredStatus, Phases

\* The two statuses of a session whose VM is gone change its phase and nothing
\* that identifies the session or its requests.
LEMMA PausedFields ==
  ASSUME NEW v \in LabSession
  PROVE  /\ Paused(v) \in LabSession /\ Paused(v).exists = v.exists
         /\ Paused(v).due = v.due /\ Paused(v).finalizer = v.finalizer
         /\ Paused(v).deleting = v.deleting /\ Paused(v).paused = v.paused
         /\ Paused(v).phase = "Paused"
<1>1. Paused(v) \in LabSession
  BY SessionValues
<1>2. QED
  BY <1>1 DEF Paused, LabSession

LEMMA ExpiredFields ==
  ASSUME NEW v \in LabSession
  PROVE  /\ ExpiredStatus(v) \in LabSession /\ ExpiredStatus(v).exists = v.exists
         /\ ExpiredStatus(v).due = v.due /\ ExpiredStatus(v).finalizer = v.finalizer
         /\ ExpiredStatus(v).deleting = v.deleting /\ ExpiredStatus(v).paused = v.paused
         /\ ExpiredStatus(v).phase = "Expired"
<1>1. ExpiredStatus(v) \in LabSession
  BY SessionValues
<1>2. QED
  BY <1>1 DEF ExpiredStatus, LabSession

\* So do the other updates that a reconciliation patches.
SameSession(a, v) ==
    /\ a \in LabSession /\ a.exists = v.exists /\ a.paused = v.paused /\ a.due = v.due
    /\ a.finalizer = v.finalizer /\ a.deleting = v.deleting

LEMMA SessionFields ==
  ASSUME NEW v \in LabSession
  PROVE  /\ SameSession([v EXCEPT !.capacityReady = TRUE], v)
         /\ SameSession([v EXCEPT !.capacityReady = FALSE], v)
         /\ SameSession([v EXCEPT !.phase = "Provisioning"], v)
<1>1. SameSession([v EXCEPT !.capacityReady = TRUE], v)
  <2>1. [v EXCEPT !.capacityReady = TRUE] \in LabSession
    BY SessionValues
  <2>2. QED
    BY <2>1 DEF SameSession, LabSession
<1>2. SameSession([v EXCEPT !.capacityReady = FALSE], v)
  <2>1. [v EXCEPT !.capacityReady = FALSE] \in LabSession
    BY SessionValues
  <2>2. QED
    BY <2>1 DEF SameSession, LabSession
<1>3. SameSession([v EXCEPT !.phase = "Provisioning"], v)
  <2>1. [v EXCEPT !.phase = "Provisioning"] \in LabSession
    BY SessionValues
  <2>2. QED
    BY <2>1 DEF SameSession, LabSession
<1>4. QED
  BY <1>1, <1>2, <1>3

\* A write leaves the session and its unseen versions well typed.
LEMMA WriteType ==
  ASSUME TypeOK, NEW v \in LabSession, Write(v)
  PROVE  /\ labsession' \in LabSession
         /\ events' \in Seq(LabSession) /\ Len(events') <= MaxLag
  BY DEF Write, TypeOK

\* What a deletion leaves is a state of the VM and of the Pod.
LEMMA DeletedType ==
  /\ \A v \in VMIStates : VMIDeleted(v) \in VMIStates
  /\ \A p \in PodStates : PodDeleted(p) \in PodStates
  BY DEF VMIDeleted, PodDeleted, VMIStates, PodStates

\* The types of the variables a reconciliation and the queue use.
WorkerTypeOK ==
    /\ step \in Steps /\ goal \in Goals /\ ls \in LabSession
    /\ current \in BOOLEAN /\ result \in Results
    /\ timer \in Timers /\ queued \in BOOLEAN

\* The two ways a reconciliation ends, and going on to its next call.
LEMMA WorkerType ==
  ASSUME TypeOK
  PROVE  /\ \A t \in Timers : Return(t) => WorkerTypeOK'
         /\ Abort => WorkerTypeOK'
         /\ \A s \in Steps : Goto(s) => WorkerTypeOK'
<1>1. Idle => /\ step' \in Steps /\ goal' \in Goals /\ ls' \in LabSession
              /\ current' \in BOOLEAN /\ result' \in Results
  BY SessionValues DEF Idle, Steps, Goals, Results
<1>2. \A t \in Timers : Earliest(timer, t) \in Timers
  BY DEF Earliest, Timers
<1>3. \A t \in Timers : Return(t) => WorkerTypeOK'
  BY <1>1, <1>2 DEF TypeOK, Return, WorkerTypeOK
<1>4. Abort => WorkerTypeOK'
  BY <1>1 DEF TypeOK, Abort, WorkerTypeOK
<1>5. \A s \in Steps : Goto(s) => WorkerTypeOK'
  BY DEF TypeOK, Goto, WorkerTypeOK, queue
<1>6. QED
  BY <1>3, <1>4, <1>5

\* A requeue until the deadline is a requeue.
LEMMA RequeueType == \A v : RequeueUntilExpiry(v) \in Timers
  BY DEF RequeueUntilExpiry, Timers

-----------------------------------------------------------------------------

\* Taking a key from the queue.
LEMMA ReconcileType ==
  ASSUME TypeOK, Reconcile
  PROVE  TypeOK'
<1> USE DEF TypeOK, vars, cluster, queue, worker, world, bounds
<1>1. ASSUME NEW s \in Steps, NEW g \in Goals, Begin(s, g) PROVE TypeOK'
  BY <1>1 DEF Begin
<1>2. CASE BeginNothing
  BY <1>2 DEF BeginNothing
<1>3. CASE BeginDeletion \/ BeginFinalizer \/ BeginExpiry \/ BeginPause \/ BeginResume
  BY <1>1, <1>3
  DEF BeginDeletion, BeginFinalizer, BeginExpiry, BeginPause, BeginResume, Steps, Goals
<1>4. CASE BeginConverge
  <2>1. PICK s \in {"ensure", "bootstrap"} : Begin(s, "none")
    BY <1>4 DEF BeginConverge
  <2>2. QED
    BY <1>1, <2>1 DEF Steps, Goals
<1>5. CASE BeginMisconfigured
  BY <1>5 DEF BeginMisconfigured, Steps, Results
<1>6. QED
  BY <1>2, <1>3, <1>4, <1>5 DEF Reconcile

\* The calls of a reconciliation that write the LabSession.
LEMMA PatchType ==
  ASSUME TypeOK,
         AddFinalizer \/ RemoveFinalizer \/ PatchExpired \/ PatchResumed
         \/ PatchStatus \/ ConfirmStopped \/ ClearCapacity \/ MarkCapacity
  PROVE  TypeOK'
<1> USE DEF cluster, queue, worker, world, bounds
<1>1. ASSUME WorkerTypeOK', UNCHANGED <<cache, cluster, world, bounds>>,
             \/ UNCHANGED <<labsession, events>>
             \/ \E v \in LabSession : Write(v)
      PROVE  TypeOK'
  <2>1. /\ labsession' \in LabSession
        /\ events' \in Seq(LabSession) /\ Len(events') <= MaxLag
    BY <1>1, WriteType DEF TypeOK
  <2>2. QED
    BY <1>1, <2>1 DEF TypeOK, WorkerTypeOK
<1>2. ASSUME NEW v \in LabSession, Patch(v)
      PROVE  \E w \in LabSession : Write(w)
  BY <1>2, MergePatchFields DEF Patch, TypeOK
<1>3. {"none", "short"} \subseteq Timers /\ {"teardownDisk", "idle"} \subseteq Steps
  BY DEF Timers, Steps
<1>4. CASE AddFinalizer
  BY <1>1, <1>3, <1>4, WorkerType, SessionValues DEF AddFinalizer, TypeOK
<1>5. CASE RemoveFinalizer
  BY <1>1, <1>3, <1>5, WorkerType, SessionValues DEF RemoveFinalizer, TypeOK
<1>6. CASE PatchExpired
  BY <1>1, <1>2, <1>3, <1>6, WorkerType, SessionValues DEF PatchExpired, TypeOK
<1>7. CASE PatchResumed
  BY <1>1, <1>2, <1>3, <1>7, WorkerType, SessionValues DEF PatchResumed, TypeOK
<1>8. CASE PatchStatus
  <2>1. HasAddress(result) \in BOOLEAN /\ result \in Phases
    BY DEF HasAddress, TypeOK, Results, Phases
  <2>2. Reported(ls) \in LabSession
    BY <2>1 DEF Reported, TypeOK, LabSession
  <2>3. \/ UNCHANGED <<labsession, events>>
        \/ \E v \in LabSession : Write(v)
    BY <1>2, <1>8, <2>2 DEF PatchStatus
  <2>4. PICK t \in Timers : Return(t)
    BY <1>3, <1>8, RequeueType DEF PatchStatus
  <2>5. WorkerTypeOK'
    BY <2>4, WorkerType
  <2>6. QED
    BY <1>1, <1>8, <2>3, <2>5 DEF PatchStatus
<1>9. CASE ConfirmStopped
  BY <1>1, <1>2, <1>3, <1>9, WorkerType, SessionValues, RequeueType
  DEF ConfirmStopped, TypeOK
<1>10. CASE ClearCapacity
  <2>1. \/ UNCHANGED <<labsession, events, ls, current>>
        \/ /\ Patch([ls EXCEPT !.capacityReady = FALSE])
           /\ ls' = labsession' /\ current' = TRUE
    BY <1>10 DEF ClearCapacity
  <2>2. labsession' \in LabSession /\ ls' \in LabSession /\ current' \in BOOLEAN
    BY <1>2, <2>1, SessionValues, WriteType DEF TypeOK
  <2>3. WorkerTypeOK'
    BY <1>10, <2>2 DEF ClearCapacity, WorkerTypeOK, TypeOK, Steps
  <2>4. QED
    BY <1>1, <1>2, <1>10, <2>1, <2>3, SessionValues DEF ClearCapacity, TypeOK
<1>11. CASE MarkCapacity
  <2>1. /\ Patch([ls EXCEPT !.capacityReady = TRUE])
        /\ ls' = labsession' /\ current' = TRUE
    BY <1>11 DEF MarkCapacity
  <2>2. labsession' \in LabSession /\ ls' \in LabSession /\ current' \in BOOLEAN
    BY <1>2, <2>1, SessionValues, WriteType DEF TypeOK
  <2>3. WorkerTypeOK'
    BY <1>11, <2>2 DEF MarkCapacity, WorkerTypeOK, TypeOK, Steps
  <2>4. QED
    BY <1>1, <1>2, <1>11, <2>1, <2>3, SessionValues DEF MarkCapacity, TypeOK
<1>12. QED
  BY <1>4, <1>5, <1>6, <1>7, <1>8, <1>9, <1>10, <1>11

\* The calls that delete or create the objects of the session, and failures.
LEMMA ObjectsType ==
  ASSUME TypeOK,
         TeardownCompute \/ TeardownComputeFails \/ TeardownDisk \/ Bootstrap
         \/ Ensure \/ EnsureConflicts \/ EnsureFails \/ Observe \/ CallFails
  PROVE  TypeOK'
<1> USE DEF cluster, queue, worker, world, bounds
<1>1. ASSUME WorkerTypeOK', vmi' \in VMIStates, pod' \in PodStates,
             objects' \subseteq Objects, failures' \in 0..MaxFailures,
             UNCHANGED <<labsession, cache, events, vmiSeen, ttyd, podSeen,
                         objectsSeen, world, requests, restarts>>
      PROVE  TypeOK'
  BY <1>1 DEF TypeOK, WorkerTypeOK
<1>2. ASSUME NEW n \in Nat, DeleteCompute(n)
      PROVE  /\ vmi' \in VMIStates /\ pod' \in PodStates
             /\ objects' \subseteq Objects
             /\ UNCHANGED <<labsession, cache, events, vmiSeen, ttyd, podSeen,
                            objectsSeen, world, requests, restarts>>
  BY <1>2, DeletedType DEF DeleteCompute, TypeOK
<1>3. ASSUME NEW n \in 0..5, EnsureObjects(n)
      PROVE  /\ vmi' \in VMIStates /\ pod' \in PodStates
             /\ objects' \subseteq Objects
             /\ UNCHANGED <<labsession, cache, events, vmiSeen, ttyd, podSeen,
                            objectsSeen, world, requests, restarts>>
  <2>1. {SessionObjects[i] : i \in 1..n} \ {"VMI"} \subseteq Objects
    BY DEF SessionObjects, Objects
  <2>2. vmi' \in VMIStates
    BY <1>3 DEF EnsureObjects, TypeOK, VMIStates
  <2>3. QED
    BY <1>3, <2>1, <2>2 DEF EnsureObjects, TypeOK
<1>4. Len(ComputeObjects) = 4 /\ Len(SessionObjects) = 5
  BY DEF ComputeObjects, SessionObjects
<1>5. failures \in 0..MaxFailures /\ (failures > 0 => failures - 1 \in 0..MaxFailures)
  BY DEF TypeOK
<1>6. {"clearCapacity", "patchExpired", "removeFinalizer", "markCapacity",
       "observe", "patchStatus"} \subseteq Steps
  BY DEF Steps
<1>7. CASE TeardownCompute
  BY <1>1, <1>2, <1>4, <1>5, <1>6, <1>7, WorkerType DEF TeardownCompute
<1>8. CASE TeardownComputeFails
  BY <1>1, <1>2, <1>4, <1>5, <1>8, WorkerType DEF TeardownComputeFails
<1>9. CASE TeardownDisk
  <2>1. WorkerTypeOK'
    BY <1>6, <1>9, WorkerType DEF TeardownDisk
  <2>2. QED
    BY <1>1, <1>5, <1>9, <2>1 DEF TeardownDisk, TypeOK
<1>10. ASSUME NEW phase \in Results, Report(phase) PROVE WorkerTypeOK'
  BY <1>10 DEF Report, WorkerTypeOK, TypeOK, Steps
<1>11. CASE Bootstrap
  <2>1. WorkerTypeOK'
    BY <1>6, <1>10, <1>11, WorkerType DEF Bootstrap, Results
  <2>2. pod' \in PodStates
    BY <1>11, DeletedType DEF Bootstrap, TypeOK, PodStates
  <2>3. QED
    BY <1>1, <1>5, <1>11, <2>1, <2>2 DEF Bootstrap, TypeOK
<1>12. CASE Ensure
  BY <1>1, <1>3, <1>4, <1>5, <1>6, <1>12, WorkerType DEF Ensure
<1>13. CASE EnsureConflicts
  BY <1>1, <1>3, <1>4, <1>5, <1>13, WorkerType DEF EnsureConflicts
<1>14. CASE EnsureFails
  BY <1>1, <1>3, <1>4, <1>5, <1>14, WorkerType DEF EnsureFails
<1>15. CASE Observe
  <2>1. ObservedPhases \subseteq Results
    BY DEF ObservedPhases, Results, TypeOK, VMIStates
  <2>2. WorkerTypeOK'
    BY <1>10, <1>15, <2>1 DEF Observe
  <2>3. QED
    BY <1>1, <1>5, <1>15, <2>2 DEF Observe, TypeOK
<1>16. CASE CallFails
  BY <1>1, <1>5, <1>16, WorkerType DEF CallFails, TypeOK
<1>17. QED
  BY <1>7, <1>8, <1>9, <1>11, <1>12, <1>13, <1>14, <1>15, <1>16

\* Watches, timers and restarts.
LEMMA ProcessType ==
  ASSUME TypeOK, Watch \/ Resync \/ TimerFires \/ Restart
  PROVE  TypeOK'
<1> USE DEF TypeOK, cluster, queue, worker, world, bounds
<1>1. CASE ObserveSession
  BY <1>1 DEF ObserveSession, Enqueue
<1>2. CASE ObserveVMI \/ ObservePod \/ Resync
  BY <1>2 DEF ObserveVMI, ObservePod, Resync, Enqueue
<1>3. CASE TimerFires
  BY <1>3 DEF TimerFires, Enqueue, Timers
<1>4. CASE \E o \in Lagging : ObserveObject(o)
  BY <1>4 DEF ObserveObject, Enqueue
<1>5. CASE Restart
  <2>1. events' \in Seq(LabSession) /\ Len(events') <= MaxLag
    BY <1>5 DEF Restart
  <2>2. step' \in Steps /\ goal' \in Goals /\ result' \in Results /\ timer' \in Timers
    BY <1>5 DEF Restart, Idle, Steps, Goals, Results, Timers
  <2>3. restarts' \in 0..MaxRestarts /\ ls' \in LabSession
    BY <1>5, SessionValues DEF Restart, Idle
  <2>4. /\ current' \in BOOLEAN /\ queued' \in BOOLEAN /\ configured' \in BOOLEAN
        /\ cache' \in LabSession /\ vmiSeen' \in VMIStates /\ podSeen' \in PodStates
        /\ objectsSeen' \subseteq Lagging
    <3>1. labsession.exists \in BOOLEAN
      BY DEF LabSession
    <3>2. QED
      BY <1>5, <3>1 DEF Restart, Idle
  <2>5. UNCHANGED <<labsession, vmi, ttyd, pod, objects, passed, requests, failures>>
    BY <1>5 DEF Restart
  <2>6. QED
    BY <2>1, <2>2, <2>3, <2>4, <2>5
<1>6. QED
  BY <1>1, <1>2, <1>3, <1>4, <1>5 DEF Watch

\* Requests, the clock and the cluster.
LEMMA EnvironmentType ==
  ASSUME TypeOK, Environment
  PROVE  TypeOK'
<1> USE DEF cluster, queue, worker, world, bounds
<1>1. ASSUME NEW kind, NEW v \in LabSession, Request(kind, v)
      PROVE  TypeOK'
  <2>1. /\ labsession' \in LabSession
        /\ events' \in Seq(LabSession) /\ Len(events') <= MaxLag
    BY <1>1, WriteType DEF Request
  <2>2. requests' \in 0..MaxRequests
    <3>1. requests' = requests - 1 /\ requests > 0
      BY <1>1 DEF Request
    <3>2. QED
      BY <3>1 DEF TypeOK
  <2>3. WorkerTypeOK' /\ UNCHANGED <<cache, cluster, world, failures, restarts>>
    BY <1>1 DEF Request, TypeOK, WorkerTypeOK
  <2>4. QED
    BY <2>1, <2>2, <2>3 DEF TypeOK, WorkerTypeOK
<1>2. CASE Pause \/ Resume \/ Expire \/ Delete
  <2>1. CASE Pause
    BY <1>1, <2>1, SessionValues DEF Pause, TypeOK
  <2>2. CASE Resume
    BY <1>1, <2>2, SessionValues DEF Resume, TypeOK
  <2>3. CASE Expire
    BY <1>1, <2>3, SessionValues DEF Expire, TypeOK
  <2>4. CASE Delete
    BY <1>1, <2>4, SessionValues DEF Delete, TypeOK
  <2>5. QED
    BY <1>2, <2>1, <2>2, <2>3, <2>4
<1>3. CASE TTLPasses
  BY <1>3 DEF TTLPasses, TypeOK
<1>4. CASE VMIStarts \/ VMIFails \/ VMIGone \/ GuestBoots
  BY <1>4 DEF VMIStarts, VMIFails, VMIGone, GuestBoots, VMIBecomes, TypeOK, VMIStates
<1>5. CASE PodReady \/ PodGone
  BY <1>5 DEF PodReady, PodGone, PodBecomes, TypeOK, PodStates
<1>6. CASE GarbageCollect
  BY <1>6, DeletedType DEF GarbageCollect, TypeOK
<1>7. QED
  BY <1>2, <1>3, <1>4, <1>5, <1>6 DEF Environment

\* Whatever the bounds, every variable keeps its type; in particular what the
\* operator reports is a phase, and the informer is at most MaxLag versions behind.
THEOREM TypeCorrect == Spec => []TypeOK
<1>1. Init => TypeOK
  <2>1. Len(<<Created>>) <= MaxLag /\ <<Created>> \in Seq(LabSession)
    BY SessionValues
  <2>2. ASSUME Init PROVE WorkerTypeOK
    BY <2>2, SessionValues DEF Init, WorkerTypeOK, Timers, Steps, Goals, Results
  <2>3. ASSUME Init PROVE /\ events \in Seq(LabSession) /\ Len(events) <= MaxLag
                          /\ labsession \in LabSession /\ cache \in LabSession
    BY <2>1, <2>3, SessionValues DEF Init
  <2>4. ASSUME Init PROVE /\ requests \in 0..MaxRequests
                          /\ failures \in 0..MaxFailures
                          /\ restarts \in 0..MaxRestarts
    BY <2>4 DEF Init
  <2>5. ASSUME Init PROVE /\ vmi \in VMIStates /\ vmiSeen \in VMIStates
                          /\ pod \in PodStates /\ podSeen \in PodStates
                          /\ objects \subseteq Objects /\ objectsSeen \subseteq Lagging
                          /\ ttyd \in BOOLEAN /\ passed \in BOOLEAN
                          /\ configured \in BOOLEAN
    BY <2>5 DEF Init, VMIStates, PodStates, Objects
  <2>6. QED
    BY <2>2, <2>3, <2>4, <2>5 DEF TypeOK, WorkerTypeOK
<1>2. TypeOK /\ [Next]_vars => TypeOK'
  <2> SUFFICES ASSUME TypeOK, [Next]_vars PROVE TypeOK'
    OBVIOUS
  <2>1. CASE UNCHANGED vars
    BY <2>1 DEF vars, cluster, queue, worker, world, bounds, TypeOK
  <2>2. CASE Finished
    BY <2>1, <2>2 DEF Finished
  <2>3. CASE Reconcile
    BY <2>3, ReconcileType
  <2>4. CASE Call \/ Failure
    BY <2>4, PatchType, ObjectsType
    DEF Call, Failure, Teardown, Converge, PatchLabSession
  <2>5. CASE Watch \/ Resync \/ TimerFires \/ Restart
    BY <2>5, ProcessType
  <2>6. CASE Environment
    BY <2>6, EnvironmentType
  <2>7. QED
    BY <2>1, <2>2, <2>3, <2>4, <2>5, <2>6 DEF Next
<1>3. QED
  BY <1>1, <1>2, PTL DEF Spec

-----------------------------------------------------------------------------
(* Why a session reported as Expired is torn down.                         *)

\* A version from which no reconciliation creates anything any more.
Over(v) == v.due \/ ~v.exists

\* Every version the operator may still read is such a version.
AllOver ==
    \/ passed
    \/ /\ Over(cache) /\ Over(labsession)
       /\ \A i \in DOMAIN events : Over(events[i])

EndIsKnown == goal = "expire" \/ labsession.phase = "Expired" => AllOver

\* Due versions are followed by due versions, or by the end of the session.
DueStays ==
    /\ cache.due => Over(labsession) /\ \A i \in DOMAIN events : Over(events[i])
    /\ \A i \in DOMAIN events : events[i].due =>
          Over(labsession) /\ \A j \in DOMAIN events : i < j => Over(events[j])

\* The calls of a reconciliation that began from an unexpired copy.
ConvergingSteps == {"patchResumed", "bootstrap", "markCapacity", "ensure",
                    "observe", "patchStatus"}

ConvergesUnexpired ==
    step \in ConvergingSteps \/ goal = "pause" => labsession.phase # "Expired"

ComputeIsDown ==
    /\ LetGo
    /\ objects \subseteq {"DataVolume", "Secret"}
    /\ pod \in {"absent", "deleting"}

\* How far a teardown has come: nobody but the worker creates anything.
TeardownProgress ==
    /\ step \in {"clearCapacity", "confirmStopped", "teardownDisk", "patchExpired"}
           => ComputeIsDown
    /\ step = "patchExpired" => "DataVolume" \notin objects /\ goal = "expire"
    /\ step = "teardownDisk" => goal \in {"delete", "expire"}
    /\ step \in {"teardownCompute", "clearCapacity", "confirmStopped"} => goal # "none"

EndingInv ==
    /\ EndIsKnown /\ DueStays /\ ConvergesUnexpired /\ TeardownProgress
    /\ ExpiredIsTornDown

\* A step that writes no version changes nothing about what is over.
LEMMA HistoryKept ==
  ASSUME EndIsKnown, DueStays, UNCHANGED <<labsession, cache, events>>,
         passed => passed', goal' = "expire" => goal = "expire" \/ AllOver
  PROVE  EndIsKnown' /\ DueStays'
  BY DEF EndIsKnown, DueStays, AllOver, Over

\* Nor does a write that keeps a session over, unless it reports Expired.
LEMMA HistoryWritten ==
  ASSUME TypeOK, EndIsKnown, DueStays,
         NEW v \in LabSession, Write(v), UNCHANGED <<cache, passed>>,
         Over(labsession) => Over(v),
         goal' = "expire" => goal = "expire",
         v.phase = "Expired" => labsession.phase = "Expired" \/ goal = "expire"
  PROVE  EndIsKnown' /\ DueStays'
<1>1. labsession' = v /\ (events' = events \/ events' = Append(events, v))
  BY DEF Write
<1>2. CASE events' = events
  BY <1>1, <1>2 DEF EndIsKnown, DueStays, AllOver, Over
<1>3. CASE events' = Append(events, v)
  <2>1. events \in Seq(LabSession)
    BY DEF TypeOK
  <2>2. /\ DOMAIN events' = 1..(Len(events) + 1) /\ DOMAIN events = 1..Len(events)
        /\ \A i \in DOMAIN events : events'[i] = events[i]
        /\ events'[Len(events) + 1] = v
    BY <1>3, <2>1
  <2>3. AllOver => AllOver'
    BY <1>1, <2>1, <2>2 DEF AllOver, Over
  <2>4. EndIsKnown'
    BY <1>1, <2>3 DEF EndIsKnown
  <2>5. cache'.due => Over(labsession)' /\ \A i \in DOMAIN events' : Over(events'[i])
    BY <1>1, <2>1, <2>2 DEF DueStays, Over
  <2>6. ASSUME NEW i \in DOMAIN events', events'[i].due
        PROVE  Over(labsession)' /\ \A j \in DOMAIN events' : i < j => Over(events'[j])
    BY <1>1, <2>1, <2>2, <2>6 DEF DueStays, Over
  <2>7. DueStays'
    BY <2>5, <2>6 DEF DueStays, Over
  <2>8. QED
    BY <2>4, <2>7
<1>4. QED
  BY <1>1, <1>2, <1>3

\* A patch from the reconciliation's copy carries no more than what the
\* reconciliation changed in it.
LEMMA PatchKeeps ==
  ASSUME TypeOK, EndIsKnown, DueStays,
         NEW a \in LabSession, a.exists = ls.exists, a.due = ls.due, Patch(a),
         UNCHANGED <<cache, passed>>, goal' = "expire" => goal = "expire",
         a.phase = "Expired" => ls.phase = "Expired" \/ goal = "expire"
  PROVE  /\ EndIsKnown' /\ DueStays'
         /\ \/ labsession'.phase = labsession.phase
            \/ labsession'.phase = a.phase
<1> DEFINE v == MergePatch(labsession, ls, a)
<1>1. /\ v \in LabSession /\ v.exists = labsession.exists /\ v.due = labsession.due
      /\ v.phase = IF a.phase # ls.phase THEN a.phase ELSE labsession.phase
  BY MergePatchFields DEF TypeOK
<1>2. Write(v) /\ labsession' = v
  BY DEF Patch, Write
<1>3. Over(labsession) => Over(v)
  BY <1>1 DEF Over
<1>4. v.phase = "Expired" => labsession.phase = "Expired" \/ goal = "expire"
  BY <1>1
<1>5. EndIsKnown' /\ DueStays'
  <2> HIDE DEF v
  <2>1. QED
    BY <1>1, <1>2, <1>3, <1>4, HistoryWritten
<1>6. QED
  BY <1>1, <1>2, <1>5

\* Taking a key: what a reconciliation goes on to create, it decides on a copy
\* that is not over, so the session has not been reported as Expired.
LEMMA ReconcileEnding ==
  ASSUME TypeOK, EndingInv, Reconcile
  PROVE  EndingInv'
<1> USE DEF EndingInv, vars, cluster, queue, worker, world, bounds
<1>1. Unexpired(cache) => labsession.phase # "Expired"
  BY DEF Unexpired, Live, Expired, EndIsKnown, AllOver, Over
<1>2. ASSUME NEW s, NEW g, Begin(s, g),
             g = "expire" => AllOver,
             s \in ConvergingSteps \/ g = "pause" => labsession.phase # "Expired",
             \/ s = "teardownCompute" /\ g # "none"
             \/ s \in ConvergingSteps \cup {"addFinalizer"}
      PROVE  EndingInv'
  <2>1. step' = s /\ goal' = g
        /\ UNCHANGED <<labsession, cache, events, cluster, world>>
    BY <1>2 DEF Begin
  <2>2. EndIsKnown' /\ DueStays'
    BY <1>2, <2>1, HistoryKept
  <2>3. ConvergesUnexpired'
    BY <1>2, <2>1 DEF ConvergesUnexpired
  <2>4. TeardownProgress'
    BY <1>2, <2>1 DEF TeardownProgress, ConvergingSteps
  <2>5. ExpiredIsTornDown'
    BY <2>1 DEF ExpiredIsTornDown, LetGo
  <2>6. QED
    BY <2>2, <2>3, <2>4, <2>5
<1>3. CASE BeginNothing
  <2>1. UNCHANGED <<labsession, cache, events, cluster, world, worker>>
    BY <1>3 DEF BeginNothing
  <2>2. QED
    BY <2>1, HistoryKept
    DEF ConvergesUnexpired, TeardownProgress, ExpiredIsTornDown, ComputeIsDown, LetGo
<1>4. CASE BeginDeletion
  BY <1>2, <1>4 DEF BeginDeletion, ConvergingSteps
<1>5. CASE BeginFinalizer
  BY <1>2, <1>5 DEF BeginFinalizer, ConvergingSteps
<1>6. CASE BeginExpiry
  <2>1. AllOver
    BY <1>6 DEF BeginExpiry, Live, Expired, DueStays, AllOver, Over
  <2>2. QED
    BY <1>2, <1>6, <2>1 DEF BeginExpiry, ConvergingSteps
<1>7. CASE BeginPause
  BY <1>1, <1>2, <1>7 DEF BeginPause, ConvergingSteps
<1>8. CASE BeginResume
  BY <1>1, <1>2, <1>8 DEF BeginResume, ConvergingSteps
<1>9. CASE BeginConverge
  <2>1. PICK s \in {"ensure", "bootstrap"} : Begin(s, "none")
    BY <1>9 DEF BeginConverge
  <2>2. labsession.phase # "Expired" /\ s \in ConvergingSteps
    BY <1>1, <1>9, <2>1 DEF BeginConverge, ConvergingSteps
  <2>3. QED
    BY <1>2, <2>1, <2>2
<1>10. CASE BeginMisconfigured
  <2>1. /\ labsession.phase # "Expired" /\ step = "idle" /\ step' = "patchStatus"
        /\ UNCHANGED <<goal, labsession, cache, events, cluster, world>>
    BY <1>1, <1>10 DEF BeginMisconfigured
  <2>2. EndIsKnown' /\ DueStays'
    BY <2>1, HistoryKept
  <2>3. ConvergesUnexpired' /\ TeardownProgress' /\ ExpiredIsTornDown'
    BY <2>1 DEF ConvergesUnexpired, TeardownProgress, ExpiredIsTornDown
  <2>4. QED
    BY <2>2, <2>3
<1>11. QED
  BY <1>3, <1>4, <1>5, <1>6, <1>7, <1>8, <1>9, <1>10 DEF Reconcile

\* A reconciliation that ends, wherever it ends, has nothing under way.
LEMMA EndedEnding ==
  ASSUME EndingInv, Idle, EndIsKnown', DueStays', UNCHANGED <<vmi, pod, objects>>,
         labsession'.phase = "Expired" => labsession.phase = "Expired"
  PROVE  EndingInv'
<1>1. step' = "idle" /\ goal' = "none"
  BY DEF Idle
<1>2. ConvergesUnexpired' /\ TeardownProgress'
  BY <1>1 DEF ConvergesUnexpired, TeardownProgress, ConvergingSteps
<1>3. ExpiredIsTornDown'
  BY DEF EndingInv, ExpiredIsTornDown, LetGo
<1>4. QED
  BY <1>2, <1>3 DEF EndingInv

\* Deleting the objects of a session that may have been reported, failing or not.
LEMMA TeardownEnding ==
  ASSUME TypeOK, EndingInv,
         TeardownCompute \/ TeardownComputeFails \/ TeardownDisk
  PROVE  EndingInv'
<1> USE DEF EndingInv, cluster, queue, worker, world, bounds
<1>1. ASSUME NEW n \in Nat, DeleteCompute(n)
      PROVE  /\ UNCHANGED <<labsession, cache, events, passed>>
             /\ ExpiredIsTornDown'
  BY <1>1 DEF DeleteCompute, ExpiredIsTornDown, LetGo, VMIDeleted, PodDeleted
<1>2. Len(ComputeObjects) = 4
      /\ {ComputeObjects[i] : i \in 1..4} = {"VMI", "NetworkPolicy", "Service", "Pod"}
  BY DEF ComputeObjects
<1>3. CASE TeardownCompute
  <2>1. DeleteCompute(4) /\ step = "teardownCompute" /\ step' = "clearCapacity"
        /\ goal' = goal
    BY <1>2, <1>3 DEF TeardownCompute, Goto
  <2>2. ComputeIsDown'
    BY <1>2, <2>1
    DEF DeleteCompute, ComputeIsDown, LetGo, VMIDeleted, PodDeleted, TypeOK, Objects, PodStates
  <2>3. EndIsKnown' /\ DueStays'
    BY <1>1, <2>1, HistoryKept
  <2>4. ConvergesUnexpired' /\ TeardownProgress'
    BY <1>1, <2>1, <2>2 DEF ConvergesUnexpired, TeardownProgress, ConvergingSteps
  <2>5. QED
    BY <1>1, <2>1, <2>3, <2>4
<1>4. CASE TeardownComputeFails
  <2>1. PICK n \in 1..3 : DeleteCompute(n)
    BY <1>2, <1>4 DEF TeardownComputeFails
  <2>2. step' = "idle" /\ goal' = "none"
    BY <1>4 DEF TeardownComputeFails, Abort, Idle
  <2>3. EndIsKnown' /\ DueStays'
    BY <1>1, <2>1, <2>2, HistoryKept
  <2>4. ConvergesUnexpired' /\ TeardownProgress'
    BY <2>2 DEF ConvergesUnexpired, TeardownProgress, ConvergingSteps
  <2>5. QED
    BY <1>1, <2>1, <2>3, <2>4
<1>5. CASE TeardownDisk
  <2>1. /\ step = "teardownDisk" /\ objects' = objects \ {"DataVolume"}
        /\ step' = IF goal = "delete" THEN "removeFinalizer" ELSE "patchExpired"
        /\ UNCHANGED <<goal, labsession, cache, events, vmi, pod, passed>>
    BY <1>5 DEF TeardownDisk, Goto
  <2>2. EndIsKnown' /\ DueStays'
    BY <2>1, HistoryKept
  <2>3. ConvergesUnexpired' /\ TeardownProgress' /\ ExpiredIsTornDown'
    BY <2>1 DEF ConvergesUnexpired, TeardownProgress, ExpiredIsTornDown,
                ComputeIsDown, LetGo, ConvergingSteps
  <2>4. QED
    BY <2>2, <2>3
<1>6. QED
  BY <1>3, <1>4, <1>5

\* The rest of a teardown, which patches the session.
LEMMA PatchEnding ==
  ASSUME TypeOK, EndingInv,
         ClearCapacity \/ ConfirmStopped \/ PatchExpired
  PROVE  EndingInv'
<1> USE DEF EndingInv, cluster, queue, worker, world, bounds
<1>1. ls \in LabSession
  BY DEF TypeOK
<1>2. CASE ClearCapacity
  <2>1. /\ step = "clearCapacity" /\ step' = "confirmStopped"
        /\ UNCHANGED <<goal, cache, passed, vmi, pod, objects>>
    BY <1>2 DEF ClearCapacity
  <2>2. \/ UNCHANGED <<labsession, events>>
        \/ Patch([ls EXCEPT !.capacityReady = FALSE])
    BY <1>2 DEF ClearCapacity
  <2>3. /\ EndIsKnown' /\ DueStays'
        /\ labsession'.phase = labsession.phase
    <3> DEFINE a == [ls EXCEPT !.capacityReady = FALSE]
    <3>1. a \in LabSession /\ a.exists = ls.exists /\ a.due = ls.due /\ a.phase = ls.phase
      BY <1>1 DEF LabSession
    <3>2. CASE Patch(a)
      <4>1. MergePatch(labsession, ls, a).phase = labsession.phase
        <5> HIDE DEF a
        <5>1. QED
          BY <1>1, <3>1, MergePatchFields DEF TypeOK
      <4>2. labsession'.phase = labsession.phase
        BY <3>2, <4>1 DEF Patch, Write
      <4>3. EndIsKnown' /\ DueStays'
        <5> HIDE DEF a
        <5>1. QED
          BY <2>1, <3>1, <3>2, PatchKeeps
      <4>4. QED
        BY <4>2, <4>3
    <3>3. CASE UNCHANGED <<labsession, events>>
      BY <2>1, <3>3, HistoryKept
    <3>4. QED
      BY <2>2, <3>2, <3>3
  <2>4. ConvergesUnexpired' /\ TeardownProgress' /\ ExpiredIsTornDown'
    BY <2>1, <2>3 DEF ConvergesUnexpired, TeardownProgress, ExpiredIsTornDown,
                      ComputeIsDown, LetGo, ConvergingSteps
  <2>5. QED
    BY <2>3, <2>4
<1>3. CASE ConfirmStopped
  <2>1. step = "confirmStopped" /\ UNCHANGED <<cache, passed, vmi, pod, objects>>
    BY <1>3 DEF ConfirmStopped
  <2>2. CASE goal = "pause" /\ vmiSeen = "absent"
    <3>1. Patch(Paused(ls)) /\ Idle
      BY <1>3, <2>2 DEF ConfirmStopped, Return
    <3>2. /\ Paused(ls) \in LabSession /\ Paused(ls).exists = ls.exists
          /\ Paused(ls).due = ls.due /\ Paused(ls).phase = "Paused"
      BY <1>1, PausedFields
    <3>3. goal' = "none"
      BY <3>1 DEF Idle
    <3>4. /\ EndIsKnown' /\ DueStays'
          /\ labsession'.phase \in {labsession.phase, "Paused"}
      BY <2>1, <3>1, <3>2, <3>3, PatchKeeps
    <3>5. QED
      BY <2>1, <3>1, <3>4, EndedEnding
  <2>3. CASE goal = "pause" /\ vmiSeen # "absent"
    <3>1. Idle /\ UNCHANGED <<labsession, events>>
      BY <1>3, <2>3 DEF ConfirmStopped, Return
    <3>2. EndIsKnown' /\ DueStays'
      BY <2>1, <3>1, HistoryKept DEF Idle
    <3>3. QED
      BY <2>1, <3>1, <3>2, EndedEnding
  <2>4. CASE goal # "pause"
    <3>1. step' = "teardownDisk" /\ UNCHANGED <<goal, labsession, events>>
      BY <1>3, <2>4 DEF ConfirmStopped, Goto
    <3>2. EndIsKnown' /\ DueStays'
      BY <2>1, <3>1, HistoryKept
    <3>3. goal \in {"delete", "expire"}
      BY <2>1, <2>4 DEF TeardownProgress, TypeOK, Goals
    <3>4. ConvergesUnexpired' /\ TeardownProgress' /\ ExpiredIsTornDown'
      BY <2>1, <3>1, <3>3 DEF ConvergesUnexpired, TeardownProgress, ExpiredIsTornDown,
                        ComputeIsDown, LetGo, ConvergingSteps
    <3>5. QED
      BY <3>2, <3>4
  <2>5. QED
    BY <2>2, <2>3, <2>4
<1>4. CASE PatchExpired
  <2>1. /\ step = "patchExpired" /\ Patch(ExpiredStatus(ls)) /\ Idle
        /\ UNCHANGED <<cache, passed, vmi, pod, objects>>
    BY <1>4 DEF PatchExpired, Return
  <2>2. /\ ExpiredStatus(ls) \in LabSession /\ ExpiredStatus(ls).exists = ls.exists
        /\ ExpiredStatus(ls).due = ls.due
    BY <1>1, ExpiredFields
  <2>3. goal = "expire" /\ ComputeIsDown /\ "DataVolume" \notin objects
    BY <2>1 DEF TeardownProgress
  <2>4. goal' = "none" /\ step' = "idle"
    BY <2>1 DEF Idle
  <2>5. EndIsKnown' /\ DueStays'
    BY <2>1, <2>2, <2>3, <2>4, PatchKeeps
  <2>6. ExpiredIsTornDown'
    BY <2>1, <2>3 DEF ComputeIsDown, ExpiredIsTornDown, LetGo
  <2>7. ConvergesUnexpired' /\ TeardownProgress'
    BY <2>4 DEF ConvergesUnexpired, TeardownProgress, ConvergingSteps
  <2>8. QED
    BY <2>5, <2>6, <2>7
<1>5. QED
  BY <1>2, <1>3, <1>4

\* The steps of Provider.Reconcile are taken only while the session is not
\* reported as Expired, and leave it so.
LEMMA ConvergeEnding ==
  ASSUME TypeOK, EndingInv,
         Converge \/ EnsureFails \/ PatchResumed \/ PatchStatus
  PROVE  EndingInv'
<1> USE DEF EndingInv, cluster, queue, worker, world, bounds
<1>1. step \in ConvergingSteps /\ labsession.phase # "Expired"
  BY DEF Converge, Bootstrap, MarkCapacity, Ensure, EnsureConflicts, Observe,
         EnsureFails, PatchResumed, PatchStatus, ConvergingSteps, ConvergesUnexpired
<1>2. ls \in LabSession /\ "Expired" \notin Results /\ result \in Results
  BY DEF TypeOK, Results
<1>3. ASSUME UNCHANGED <<cache, passed>>,
             labsession'.phase # "Expired", EndIsKnown', DueStays',
             \/ step' = "idle" /\ goal' = "none"
             \/ step' \in ConvergingSteps /\ goal' = goal
      PROVE  EndingInv'
  <2>1. step' \in ConvergingSteps \cup {"idle"}
    BY <1>3
  <2>2. ConvergesUnexpired' /\ ExpiredIsTornDown'
    BY <1>3 DEF ConvergesUnexpired, ExpiredIsTornDown
  <2>3. TeardownProgress'
    BY <2>1 DEF TeardownProgress, ConvergingSteps
  <2>4. QED
    BY <1>3, <2>2, <2>3
<1>4. ASSUME UNCHANGED <<labsession, cache, events, passed>>,
             \/ step' = "idle" /\ goal' = "none"
             \/ step' \in ConvergingSteps /\ goal' = goal
      PROVE  EndingInv'
  <2>1. goal' = "expire" => goal = "expire"
    BY <1>4
  <2>2. EndIsKnown' /\ DueStays'
    BY <1>4, <2>1, HistoryKept
  <2>3. QED
    BY <1>1, <1>3, <1>4, <2>2
<1>5. ASSUME NEW a \in LabSession, a.exists = ls.exists, a.due = ls.due, Patch(a),
             a.phase # "Expired" \/ a.phase = ls.phase,
             UNCHANGED <<cache, passed>>,
             \/ step' = "idle" /\ goal' = "none"
             \/ step' \in ConvergingSteps /\ goal' = goal
      PROVE  EndingInv'
  <2>1. goal' = "expire" => goal = "expire"
    BY <1>5
  <2>2. EndIsKnown' /\ DueStays'
    BY <1>5, <2>1, PatchKeeps
  <2>3. labsession' = MergePatch(labsession, ls, a)
    BY <1>5 DEF Patch, Write
  <2>4. labsession'.phase # "Expired"
    BY <1>1, <1>2, <1>5, <2>3, MergePatchFields DEF TypeOK
  <2>5. QED
    BY <1>3, <1>5, <2>2, <2>4
<1>6. CASE Bootstrap \/ Ensure \/ EnsureConflicts \/ EnsureFails \/ Observe
  <2>1. \/ step' = "idle" /\ goal' = "none"
        \/ step' \in ConvergingSteps /\ goal' = goal
    <3>1. CASE Bootstrap
      BY <3>1 DEF Bootstrap, Report, Goto, Abort, Idle, ConvergingSteps
    <3>2. CASE Ensure
      BY <3>2 DEF Ensure, Goto, ConvergingSteps
    <3>3. CASE EnsureConflicts \/ EnsureFails
      BY <3>3 DEF EnsureConflicts, EnsureFails, Abort, Idle
    <3>4. CASE Observe
      BY <3>4 DEF Observe, Report, ConvergingSteps
    <3>5. QED
      BY <1>6, <3>1, <3>2, <3>3, <3>4
  <2>2. UNCHANGED <<labsession, cache, events, passed>>
    BY <1>6 DEF Bootstrap, Ensure, EnsureConflicts, EnsureFails, Observe, EnsureObjects
  <2>3. QED
    BY <1>4, <2>1, <2>2
<1>7. CASE MarkCapacity
  <2> DEFINE a == [ls EXCEPT !.capacityReady = TRUE]
  <2>1. a \in LabSession /\ a.exists = ls.exists /\ a.due = ls.due /\ a.phase = ls.phase
    BY <1>2 DEF LabSession
  <2>2. Patch(a) /\ step' = "ensure" /\ UNCHANGED <<goal, cache, passed>>
    BY <1>7 DEF MarkCapacity
  <2>3. step' \in ConvergingSteps
    BY <2>2 DEF ConvergingSteps
  <2> HIDE DEF a
  <2>4. QED
    BY <1>5, <2>1, <2>2, <2>3
<1>8. CASE PatchResumed
  <2> DEFINE a == [ls EXCEPT !.phase = "Provisioning"]
  <2>1. /\ a \in LabSession /\ a.exists = ls.exists /\ a.due = ls.due
        /\ a.phase # "Expired"
    BY <1>2, SessionValues DEF LabSession
  <2>2. Patch(a) /\ step' = "idle" /\ goal' = "none" /\ UNCHANGED <<cache, passed>>
    BY <1>8 DEF PatchResumed, Return, Idle
  <2> HIDE DEF a
  <2>3. QED
    BY <1>5, <2>1, <2>2
<1>9. CASE PatchStatus
  <2>1. step' = "idle" /\ goal' = "none" /\ UNCHANGED <<cache, passed>>
    BY <1>9 DEF PatchStatus, Return, Idle
  <2>2. HasAddress(result) \in BOOLEAN /\ result \in Phases
    BY <1>2 DEF HasAddress, Results, Phases
  <2>3. /\ Reported(ls) \in LabSession /\ Reported(ls).exists = ls.exists
        /\ Reported(ls).due = ls.due /\ Reported(ls).phase # "Expired"
    BY <1>2, <2>2 DEF Reported, LabSession
  <2>4. CASE UNCHANGED <<labsession, events>>
    BY <1>4, <2>1, <2>4
  <2>5. CASE Patch(Reported(ls))
    BY <1>5, <2>1, <2>3, <2>5
  <2>6. QED
    BY <1>9, <2>4, <2>5 DEF PatchStatus
<1>10. QED
  BY <1>6, <1>7, <1>8, <1>9 DEF Converge

\* Finalizers, failed calls, watches, timers and restarts.
LEMMA ProcessEnding ==
  ASSUME TypeOK, EndingInv,
         AddFinalizer \/ RemoveFinalizer \/ CallFails
         \/ Watch \/ Resync \/ TimerFires \/ Restart
  PROVE  EndingInv'
<1> USE DEF EndingInv, cluster, queue, worker, world, bounds
<1>1. ASSUME UNCHANGED <<step, goal, vmi, pod, objects>>, EndIsKnown', DueStays',
             labsession'.phase = labsession.phase
      PROVE  EndingInv'
  BY <1>1 DEF ConvergesUnexpired, TeardownProgress, ExpiredIsTornDown,
              ComputeIsDown, LetGo
<1>2. CASE AddFinalizer \/ RemoveFinalizer
  <2>1. Idle /\ UNCHANGED <<cache, passed, vmi, pod, objects>>
    BY <1>2 DEF AddFinalizer, RemoveFinalizer, Return, Abort
  <2>2. goal' = "none"
    BY <2>1 DEF Idle
  <2>3. CASE UNCHANGED <<labsession, events>>
    BY <2>1, <2>2, <2>3, HistoryKept, EndedEnding
  <2>4. ASSUME NEW v \in LabSession, Write(v), Over(labsession) => Over(v),
               v.phase = "Expired" => labsession.phase = "Expired"
        PROVE  EndingInv'
    <3>1. EndIsKnown' /\ DueStays'
      BY <2>1, <2>2, <2>4, HistoryWritten
    <3>2. labsession'.phase = "Expired" => labsession.phase = "Expired"
      BY <2>4 DEF Write
    <3>3. QED
      BY <2>1, <3>1, <3>2, EndedEnding
  <2>5. CASE Write(NoSession)
    <3>1. Over(NoSession) /\ NoSession.phase # "Expired"
      BY DEF Over, NoSession
    <3>2. QED
      BY <2>4, <2>5, <3>1, SessionValues
  <2>6. CASE Write([labsession EXCEPT !.finalizer = TRUE])
    <3> DEFINE v == [labsession EXCEPT !.finalizer = TRUE]
    <3>1. /\ v \in LabSession /\ v.phase = labsession.phase
          /\ Over(labsession) => Over(v)
      BY DEF TypeOK, LabSession, Over
    <3> HIDE DEF v
    <3>2. QED
      BY <2>4, <2>6, <3>1 DEF v
  <2>7. QED
    BY <1>2, <2>3, <2>5, <2>6 DEF AddFinalizer, RemoveFinalizer
<1>3. CASE CallFails
  <2>1. Idle /\ goal' = "none"
        /\ UNCHANGED <<labsession, cache, events, passed, vmi, pod, objects>>
    BY <1>3 DEF CallFails, Abort, Idle
  <2>2. QED
    BY <2>1, HistoryKept, EndedEnding
<1>4. CASE ObserveSession
  <2>1. /\ events # <<>> /\ cache' = Head(events) /\ events' = Tail(events)
        /\ UNCHANGED <<labsession, passed, step, goal, vmi, pod, objects>>
    BY <1>4 DEF ObserveSession
  <2>2. events \in Seq(LabSession)
    BY DEF TypeOK
  <2>3. /\ 1 \in DOMAIN events /\ cache' = events[1]
        /\ DOMAIN events = 1..Len(events) /\ DOMAIN events' = 1..(Len(events) - 1)
        /\ \A i \in DOMAIN events' : i + 1 \in DOMAIN events /\ events'[i] = events[i + 1]
    BY <2>1, <2>2
  <2>4. AllOver => AllOver'
    BY <2>1, <2>3 DEF AllOver, Over
  <2>5. EndIsKnown'
    BY <2>1, <2>4 DEF EndIsKnown
  <2>6. cache'.due => Over(labsession)' /\ \A i \in DOMAIN events' : Over(events'[i])
    BY <2>1, <2>2, <2>3 DEF DueStays, Over
  <2>7. ASSUME NEW i \in DOMAIN events', events'[i].due
        PROVE  Over(labsession)' /\ \A j \in DOMAIN events' : i < j => Over(events'[j])
    BY <2>1, <2>2, <2>3, <2>7 DEF DueStays, Over
  <2>8. DueStays'
    BY <2>6, <2>7 DEF DueStays, Over
  <2>9. QED
    BY <1>1, <2>1, <2>5, <2>8
<1>5. CASE \/ ObserveVMI \/ ObservePod \/ Resync \/ TimerFires
           \/ \E o \in Lagging : ObserveObject(o)
  <2>1. UNCHANGED <<labsession, cache, events, passed, step, goal, vmi, pod, objects>>
    BY <1>5 DEF ObserveVMI, ObservePod, ObserveObject, Resync, TimerFires
  <2>2. QED
    BY <1>1, <2>1, HistoryKept
<1>6. CASE Restart
  <2>1. /\ Idle /\ cache' = labsession /\ events' = <<>>
        /\ UNCHANGED <<labsession, passed, vmi, pod, objects>>
    BY <1>6 DEF Restart
  <2>2. goal' = "none" /\ DOMAIN events' = {}
    BY <2>1 DEF Idle
  <2>3. EndIsKnown' /\ DueStays'
    BY <2>1, <2>2 DEF EndIsKnown, DueStays, AllOver, Over
  <2>4. QED
    BY <2>1, <2>3, EndedEnding
<1>7. QED
  BY <1>2, <1>3, <1>4, <1>5, <1>6 DEF Watch

\* Requests, the clock and the cluster, none of which brings anything back.
LEMMA EnvironmentEnding ==
  ASSUME TypeOK, EndingInv, Environment
  PROVE  EndingInv'
<1> USE DEF EndingInv, cluster, queue, worker, world, bounds
<1>1. ASSUME NEW kind, NEW v \in LabSession, Request(kind, v),
             Over(labsession) => Over(v),
             v.phase = "Expired" => labsession.phase = "Expired"
      PROVE  EndingInv'
  <2>1. /\ Write(v) /\ labsession' = v
        /\ UNCHANGED <<cache, passed, step, goal, vmi, pod, objects>>
    BY <1>1 DEF Request, Write
  <2>2. EndIsKnown' /\ DueStays'
    BY <1>1, <2>1, HistoryWritten
  <2>3. ConvergesUnexpired' /\ TeardownProgress' /\ ExpiredIsTornDown'
    BY <1>1, <2>1 DEF ConvergesUnexpired, TeardownProgress, ExpiredIsTornDown,
                      ComputeIsDown, LetGo
  <2>4. QED
    BY <2>2, <2>3
<1>2. labsession \in LabSession
  BY DEF TypeOK
<1>3. CASE Pause
  <2> DEFINE v == [labsession EXCEPT !.paused = TRUE]
  <2>1. v \in LabSession /\ v.phase = labsession.phase /\ (Over(labsession) => Over(v))
    BY <1>2 DEF LabSession, Over
  <2>2. Request("pause", v)
    BY <1>3 DEF Pause
  <2> HIDE DEF v
  <2>3. QED
    BY <1>1, <2>1, <2>2
<1>4. CASE Resume
  <2> DEFINE v == [labsession EXCEPT !.paused = FALSE]
  <2>1. v \in LabSession /\ v.phase = labsession.phase /\ (Over(labsession) => Over(v))
    BY <1>2 DEF LabSession, Over
  <2>2. Request("resume", v)
    BY <1>4 DEF Resume
  <2> HIDE DEF v
  <2>3. QED
    BY <1>1, <2>1, <2>2
<1>5. CASE Expire
  <2> DEFINE v == [labsession EXCEPT !.due = TRUE]
  <2>1. v \in LabSession /\ v.phase = labsession.phase /\ (Over(labsession) => Over(v))
    BY <1>2 DEF LabSession, Over
  <2>2. Request("expire", v)
    BY <1>5 DEF Expire
  <2> HIDE DEF v
  <2>3. QED
    BY <1>1, <2>1, <2>2
<1>6. CASE Delete
  <2> DEFINE v == IF labsession.finalizer THEN [labsession EXCEPT !.deleting = TRUE]
                                          ELSE NoSession
  <2>1. /\ v \in LabSession
        /\ v.phase = "Expired" => labsession.phase = "Expired"
        /\ Over(labsession) => Over(v)
    <3>1. CASE labsession.finalizer
      BY <1>2, <3>1 DEF LabSession, Over
    <3>2. CASE ~labsession.finalizer
      BY <3>2, SessionValues DEF NoSession, Over
    <3>3. QED
      BY <3>1, <3>2
  <2>2. Request("delete", v)
    BY <1>6 DEF Delete
  <2> HIDE DEF v
  <2>3. QED
    BY <1>1, <2>1, <2>2
<1>7. CASE TTLPasses
  <2>1. passed' /\ UNCHANGED <<labsession, cache, events, step, goal, vmi, pod, objects>>
    BY <1>7 DEF TTLPasses
  <2>2. EndIsKnown' /\ DueStays'
    BY <2>1, HistoryKept
  <2>3. QED
    BY <2>1, <2>2 DEF ConvergesUnexpired, TeardownProgress, ExpiredIsTornDown,
                      ComputeIsDown, LetGo
<1>8. CASE VMIStarts \/ VMIFails \/ VMIGone \/ GuestBoots \/ PodReady \/ PodGone
           \/ GarbageCollect
  <2>1. UNCHANGED <<labsession, cache, events, passed, step, goal>>
    BY <1>8 DEF VMIStarts, VMIFails, VMIGone, GuestBoots, VMIBecomes, PodReady, PodGone,
                PodBecomes, GarbageCollect
  <2>2. /\ LetGo => LetGo'
        /\ pod \in {"absent", "deleting"} => pod' \in {"absent", "deleting"}
        /\ objects' \subseteq objects
    BY <1>8 DEF VMIStarts, VMIFails, VMIGone, GuestBoots, VMIBecomes, PodReady, PodGone,
                PodBecomes, GarbageCollect, VMIDeleted, PodDeleted, LetGo
  <2>3. EndIsKnown' /\ DueStays'
    BY <2>1, HistoryKept
  <2>4. ConvergesUnexpired' /\ TeardownProgress' /\ ExpiredIsTornDown'
    BY <2>1, <2>2 DEF ConvergesUnexpired, TeardownProgress, ExpiredIsTornDown, ComputeIsDown
  <2>5. QED
    BY <2>3, <2>4
<1>9. QED
  BY <1>3, <1>4, <1>5, <1>6, <1>7, <1>8 DEF Environment

\* The invariant that carries the two properties is inductive.
THEOREM EndingIsInvariant == Spec => []EndingInv
<1>1. Init => EndingInv
  <2> SUFFICES ASSUME Init PROVE EndingInv
    OBVIOUS
  <2>1. EndIsKnown /\ DueStays
    BY DEF Init, EndIsKnown, DueStays, NoSession, Created
  <2>2. ConvergesUnexpired /\ TeardownProgress /\ ExpiredIsTornDown
    BY DEF Init, ConvergesUnexpired, TeardownProgress, ExpiredIsTornDown,
           ConvergingSteps, NoSession, Created
  <2>3. QED
    BY <2>1, <2>2 DEF EndingInv
<1>2. TypeOK /\ EndingInv /\ [Next]_vars => EndingInv'
  <2> SUFFICES ASSUME TypeOK, EndingInv, [Next]_vars PROVE EndingInv'
    OBVIOUS
  <2>1. CASE UNCHANGED vars
    <3>1. EndIsKnown' /\ DueStays'
      BY <2>1, HistoryKept DEF vars, worker, world, EndingInv
    <3>2. QED
      BY <2>1, <3>1 DEF vars, cluster, worker, EndingInv, ConvergesUnexpired,
                        TeardownProgress, ExpiredIsTornDown, ComputeIsDown, LetGo
  <2>2. CASE Finished
    BY <2>1, <2>2 DEF Finished
  <2>3. CASE Reconcile
    BY <2>3, ReconcileEnding
  <2>4. CASE Call
    BY <2>4, TeardownEnding, PatchEnding, ConvergeEnding, ProcessEnding
    DEF Call, Teardown, PatchLabSession
  <2>5. CASE Failure
    BY <2>5, TeardownEnding, ConvergeEnding, ProcessEnding DEF Failure
  <2>6. CASE Watch \/ Resync \/ TimerFires \/ Restart
    BY <2>6, ProcessEnding
  <2>7. CASE Environment
    BY <2>7, EnvironmentEnding
  <2>8. QED
    BY <2>1, <2>2, <2>3, <2>4, <2>5, <2>6, <2>7 DEF Next
<1>3. QED
  BY <1>1, <1>2, TypeCorrect, PTL DEF Spec

\* A session reported as Expired is torn down, however far the informer lags and
\* however many requests, failed calls and restarts there are.
THEOREM ExpiredTornDown == Spec => []ExpiredIsTornDown
<1>1. EndingInv => ExpiredIsTornDown
  BY DEF EndingInv
<1>2. QED
  BY <1>1, EndingIsInvariant, PTL

-----------------------------------------------------------------------------
(* Why the operator implements SessionLifecycle: nothing is held without a  *)
(* finalizer, and the finalizer goes only after everything else has.       *)

NothingHeld == ComputeIsDown /\ "DataVolume" \notin objects

\* Once the finalizer is gone, no version calls for anything to be created.
FinalizerKnown ==
    /\ labsession.finalizer => labsession.exists
    /\ ~labsession.finalizer => ~Live(cache) /\ \A i \in DOMAIN events : ~Live(events[i])

Dying(v) == v.deleting \/ ~v.exists

DeletingKnown ==
    cache.deleting \/ (\E i \in DOMAIN events : events[i].deleting) => Dying(labsession)

\* A reconciliation that creates or patches finds the finalizer in place.
FinalizerHeld ==
    step \in ConvergingSteps \/ goal \in {"expire", "pause"} => labsession.finalizer

\* A deletion whose copy is current saw the last version there is.
DeletionIsCurrent ==
    goal = "delete" =>
        /\ Dying(labsession) /\ ls.deleting
        /\ current => events = <<>> /\ cache.deleting

GoalIsOfTeardown ==
    step \in ConvergingSteps \cup {"idle", "addFinalizer"} => goal = "none"

NothingUnguarded ==
    /\ ~labsession.finalizer => NothingHeld
    /\ step = "removeFinalizer" => goal = "delete" /\ NothingHeld

LetGoInv ==
    /\ FinalizerKnown /\ DeletingKnown /\ FinalizerHeld
    /\ DeletionIsCurrent /\ GoalIsOfTeardown /\ NothingUnguarded

\* A write keeps what the versions say of the finalizer and of the deletion.
LEMMA VersionsWritten ==
  ASSUME TypeOK, FinalizerKnown, DeletingKnown,
         NEW v \in LabSession, Write(v), UNCHANGED cache,
         v.finalizer => v.exists,
         \/ labsession.finalizer => v.finalizer
         \/ ~Live(cache) /\ \A i \in DOMAIN events : ~Live(events[i]),
         Dying(labsession) => Dying(v)
  PROVE  FinalizerKnown' /\ DeletingKnown' /\ labsession' = v
<1>1. labsession' = v /\ (events' = events \/ events' = Append(events, v))
  BY DEF Write
<1>2. CASE events' = events
  BY <1>1, <1>2 DEF FinalizerKnown, DeletingKnown, Live, Dying
<1>3. CASE events' = Append(events, v)
  <2>1. events \in Seq(LabSession)
    BY DEF TypeOK
  <2>2. /\ DOMAIN events' = 1..(Len(events) + 1) /\ DOMAIN events = 1..Len(events)
        /\ \A i \in DOMAIN events : events'[i] = events[i]
        /\ events'[Len(events) + 1] = v
    BY <1>3, <2>1
  <2>3. \A i \in DOMAIN events' : i \in DOMAIN events \/ events'[i] = v
    BY <2>1, <2>2
  <2>4. FinalizerKnown'
    BY <1>1, <2>2, <2>3 DEF FinalizerKnown, Live
  <2>5. DeletingKnown'
    BY <1>1, <2>2, <2>3 DEF DeletingKnown, Dying
  <2>6. QED
    BY <1>1, <2>4, <2>5
<1>4. QED
  BY <1>1, <1>2, <1>3

\* A patch of the status or the annotation touches neither.
LEMMA VersionsPatched ==
  ASSUME TypeOK, FinalizerKnown, DeletingKnown,
         NEW a \in LabSession, Patch(a), UNCHANGED cache,
         a.exists = ls.exists, a.finalizer = ls.finalizer, a.deleting = ls.deleting
  PROVE  /\ FinalizerKnown' /\ DeletingKnown'
         /\ labsession'.finalizer = labsession.finalizer
         /\ Dying(labsession)' <=> Dying(labsession)
<1> DEFINE v == MergePatch(labsession, ls, a)
<1>1. /\ v \in LabSession /\ v.exists = labsession.exists
      /\ v.finalizer = labsession.finalizer /\ v.deleting = labsession.deleting
  BY MergePatchFields DEF TypeOK
<1>2. Write(v)
  BY DEF Patch
<1> HIDE DEF v
<1>3. FinalizerKnown' /\ DeletingKnown' /\ labsession' = v
  BY <1>1, <1>2, VersionsWritten DEF FinalizerKnown, Dying
<1>4. QED
  BY <1>1, <1>3 DEF Dying

\* A step that adds nothing to what is held keeps the rest, if it goes on in order.
LEMMA LetGoKept ==
  ASSUME LetGoInv, FinalizerKnown', DeletingKnown', DeletionIsCurrent', GoalIsOfTeardown',
         labsession.finalizer => labsession'.finalizer,
         NothingHeld => NothingHeld',
         step' \in ConvergingSteps \/ goal' \in {"expire", "pause"} => labsession.finalizer,
         step' = "removeFinalizer" => step = "removeFinalizer" /\ goal' = goal
  PROVE  LetGoInv'
BY DEF LetGoInv, FinalizerHeld, NothingUnguarded

\* What is held only shrinks while a teardown, the cluster or nobody acts on it.
LEMMA NothingStaysNothing ==
  ASSUME LetGo => LetGo', objects' \subseteq objects,
         pod \in {"absent", "deleting"} => pod' \in {"absent", "deleting"}
  PROVE  NothingHeld => NothingHeld'
BY DEF NothingHeld, ComputeIsDown

\* Taking a key.
LEMMA ReconcileLetGo ==
  ASSUME TypeOK, LetGoInv, Reconcile
  PROVE  LetGoInv'
<1> USE DEF vars, cluster, queue, worker, world, bounds
<1>1. Live(cache) => labsession.finalizer
  BY DEF LetGoInv, FinalizerKnown
<1>2. ASSUME UNCHANGED <<labsession, cache, events, cluster>>
      PROVE  /\ FinalizerKnown' /\ DeletingKnown' /\ (NothingHeld => NothingHeld')
             /\ Dying(labsession)' <=> Dying(labsession)
  BY <1>2 DEF LetGoInv, FinalizerKnown, DeletingKnown, NothingHeld, ComputeIsDown, LetGo,
              Live, Dying
<1>3. ASSUME NEW s \in {"teardownCompute", "addFinalizer"} \cup ConvergingSteps, NEW g,
             Begin(s, g), s = "teardownCompute" \/ g = "none",
             s \in ConvergingSteps \/ g \in {"expire", "pause"} => Live(cache),
             g = "delete" => cache.deleting
      PROVE  LetGoInv'
  <2>1. /\ step' = s /\ goal' = g /\ ls' = cache /\ current' = (events = <<>>)
        /\ UNCHANGED <<labsession, cache, events, cluster>>
    BY <1>3 DEF Begin
  <2>2. DeletionIsCurrent'
    BY <1>2, <1>3, <2>1 DEF DeletionIsCurrent, DeletingKnown, LetGoInv
  <2>3. GoalIsOfTeardown'
    BY <1>3, <2>1 DEF GoalIsOfTeardown, ConvergingSteps
  <2>4. step' # "removeFinalizer"
    BY <1>3, <2>1 DEF ConvergingSteps
  <2>5. QED
    BY <1>1, <1>2, <1>3, <2>1, <2>2, <2>3, <2>4, LetGoKept
<1>4. CASE BeginNothing
  <2>1. UNCHANGED <<labsession, cache, events, cluster, worker>>
    BY <1>4 DEF BeginNothing
  <2>2. DeletionIsCurrent' /\ GoalIsOfTeardown' /\ FinalizerHeld
    BY <2>1 DEF LetGoInv, DeletionIsCurrent, GoalIsOfTeardown, Dying
  <2>3. QED
    BY <1>2, <2>1, <2>2, LetGoKept DEF FinalizerHeld
<1>5. CASE BeginDeletion
  BY <1>3, <1>5 DEF BeginDeletion, ConvergingSteps
<1>6. CASE BeginFinalizer
  BY <1>3, <1>6 DEF BeginFinalizer, ConvergingSteps
<1>7. CASE BeginExpiry
  BY <1>3, <1>7 DEF BeginExpiry, ConvergingSteps
<1>8. CASE BeginPause
  BY <1>3, <1>8 DEF BeginPause, Unexpired, ConvergingSteps
<1>9. CASE BeginResume
  BY <1>3, <1>9 DEF BeginResume, Unexpired, ConvergingSteps
<1>10. CASE BeginConverge
  <2>1. PICK s \in {"ensure", "bootstrap"} : Begin(s, "none")
    BY <1>10 DEF BeginConverge
  <2>2. s \in ConvergingSteps /\ Live(cache)
    BY <1>10, <2>1 DEF BeginConverge, Unexpired, ConvergingSteps
  <2>3. QED
    BY <1>3, <2>1, <2>2
<1>11. CASE BeginMisconfigured
  <2>1. /\ step = "idle" /\ step' = "patchStatus" /\ goal' = goal /\ Live(cache)
        /\ UNCHANGED <<labsession, cache, events, cluster>>
    BY <1>11 DEF BeginMisconfigured, Unexpired
  <2>2. goal' = "none"
    BY <2>1 DEF LetGoInv, GoalIsOfTeardown
  <2>3. DeletionIsCurrent' /\ GoalIsOfTeardown'
    BY <2>2 DEF DeletionIsCurrent, GoalIsOfTeardown
  <2>4. QED
    BY <1>1, <1>2, <2>1, <2>2, <2>3, LetGoKept
<1>12. QED
  BY <1>4, <1>5, <1>6, <1>7, <1>8, <1>9, <1>10, <1>11 DEF Reconcile

\* A reconciliation that ends has nothing left to do.
LEMMA LetGoEnded ==
  ASSUME LetGoInv, Idle, FinalizerKnown', DeletingKnown', NothingHeld => NothingHeld',
         labsession.finalizer => labsession'.finalizer
  PROVE  LetGoInv'
<1>1. step' = "idle" /\ goal' = "none"
  BY DEF Idle
<1>2. DeletionIsCurrent' /\ GoalIsOfTeardown'
  BY <1>1 DEF DeletionIsCurrent, GoalIsOfTeardown
<1>3. step' \notin ConvergingSteps
  BY <1>1 DEF ConvergingSteps
<1>4. QED
  BY <1>1, <1>2, <1>3, LetGoKept

\* A teardown gives up one thing after the other, the disk last.
LEMMA TeardownLetGo ==
  ASSUME TypeOK, LetGoInv, EndingInv,
         TeardownCompute \/ TeardownComputeFails \/ TeardownDisk \/ ClearCapacity
         \/ ConfirmStopped \/ PatchExpired
  PROVE  LetGoInv'
<1> USE DEF cluster, queue, worker, world, bounds
<1>1. ls \in LabSession /\ FinalizerKnown /\ DeletingKnown /\ FinalizerHeld
  BY DEF TypeOK, LetGoInv
<1>2. ASSUME UNCHANGED <<labsession, cache, events>>
      PROVE  /\ FinalizerKnown' /\ DeletingKnown'
             /\ Dying(labsession)' <=> Dying(labsession)
  BY <1>1, <1>2 DEF FinalizerKnown, DeletingKnown, Live, Dying
<1>3. ASSUME NEW n \in Nat, DeleteCompute(n)
      PROVE  UNCHANGED <<labsession, cache, events>> /\ (NothingHeld => NothingHeld')
  BY <1>3, NothingStaysNothing DEF DeleteCompute, LetGo, VMIDeleted, PodDeleted
<1>4. Len(ComputeObjects) = 4
  BY DEF ComputeObjects
<1>5. ASSUME UNCHANGED <<labsession, cache, events, goal, ls, current>>,
             step' \in {"clearCapacity", "teardownDisk", "patchExpired"},
             NothingHeld => NothingHeld'
      PROVE  LetGoInv'
  <2>1. DeletionIsCurrent'
    BY <1>2, <1>5 DEF LetGoInv, DeletionIsCurrent
  <2>2. GoalIsOfTeardown' /\ step' \notin ConvergingSteps
    BY <1>5 DEF GoalIsOfTeardown, ConvergingSteps
  <2>3. QED
    BY <1>1, <1>2, <1>5, <2>1, <2>2, LetGoKept DEF FinalizerHeld
<1>6. CASE TeardownCompute
  <2>1. DeleteCompute(4) /\ Goto("clearCapacity")
    BY <1>4, <1>6 DEF TeardownCompute
  <2>2. QED
    BY <1>3, <1>5, <2>1 DEF Goto
<1>7. CASE TeardownComputeFails
  <2>1. Idle /\ \E n \in 1..3 : DeleteCompute(n)
    BY <1>4, <1>7 DEF TeardownComputeFails, Abort
  <2>2. QED
    BY <1>2, <1>3, <2>1, LetGoEnded
<1>8. CASE TeardownDisk
  <2>1. /\ step = "teardownDisk" /\ objects' = objects \ {"DataVolume"}
        /\ step' = IF goal = "delete" THEN "removeFinalizer" ELSE "patchExpired"
        /\ UNCHANGED <<labsession, cache, events, goal, ls, current, vmi, pod>>
    BY <1>8 DEF TeardownDisk, Goto
  <2>2. NothingHeld'
    BY <2>1 DEF EndingInv, TeardownProgress, ComputeIsDown, NothingHeld, LetGo
  <2>3. CASE goal # "delete"
    BY <1>5, <2>1, <2>2, <2>3
  <2>4. CASE goal = "delete"
    <3>1. FinalizerKnown' /\ DeletingKnown' /\ DeletionIsCurrent'
      BY <1>2, <2>1 DEF LetGoInv, DeletionIsCurrent
    <3>2. GoalIsOfTeardown' /\ FinalizerHeld' /\ NothingUnguarded'
      BY <2>1, <2>2, <2>4
      DEF GoalIsOfTeardown, FinalizerHeld, NothingUnguarded, ConvergingSteps
    <3>3. QED
      BY <3>1, <3>2 DEF LetGoInv
  <2>5. QED
    BY <2>3, <2>4
<1>9. CASE ClearCapacity
  <2>1. /\ step' = "confirmStopped" /\ UNCHANGED <<goal, cache, vmi, pod, objects>>
    BY <1>9 DEF ClearCapacity
  <2>2. NothingHeld => NothingHeld'
    BY <2>1 DEF NothingHeld, ComputeIsDown, LetGo
  <2>3. GoalIsOfTeardown' /\ step' \notin ConvergingSteps
    BY <2>1 DEF GoalIsOfTeardown, ConvergingSteps
  <2>4. CASE UNCHANGED <<labsession, events, ls, current>>
    <3>1. FinalizerKnown' /\ DeletingKnown' /\ DeletionIsCurrent'
      BY <1>2, <2>1, <2>4 DEF LetGoInv, DeletionIsCurrent
    <3>2. QED
      BY <1>1, <2>1, <2>2, <2>3, <2>4, <3>1, LetGoKept DEF FinalizerHeld
  <2>5. CASE ~ls.deleting /\ Patch([ls EXCEPT !.capacityReady = FALSE])
    <3> DEFINE a == [ls EXCEPT !.capacityReady = FALSE]
    <3>1. /\ a \in LabSession /\ a.exists = ls.exists /\ a.finalizer = ls.finalizer
          /\ a.deleting = ls.deleting
      BY <1>1 DEF LabSession
    <3>2. Patch(a)
      BY <2>5
    <3> HIDE DEF a
    <3>3. FinalizerKnown' /\ DeletingKnown' /\ labsession'.finalizer = labsession.finalizer
      BY <1>1, <2>1, <3>1, <3>2, VersionsPatched
    <3>4. DeletionIsCurrent'
      BY <2>1, <2>5 DEF LetGoInv, DeletionIsCurrent
    <3>5. QED
      BY <1>1, <2>1, <2>2, <2>3, <3>3, <3>4, LetGoKept DEF FinalizerHeld
  <2>6. QED
    BY <1>9, <2>4, <2>5 DEF ClearCapacity
<1>10. ASSUME NEW a \in LabSession, Patch(a), Idle,
              a.exists = ls.exists, a.finalizer = ls.finalizer, a.deleting = ls.deleting,
              UNCHANGED <<cache, vmi, pod, objects>>
       PROVE  LetGoInv'
  <2>1. FinalizerKnown' /\ DeletingKnown' /\ labsession'.finalizer = labsession.finalizer
    BY <1>1, <1>10, VersionsPatched
  <2>2. NothingHeld => NothingHeld'
    BY <1>10 DEF NothingHeld, ComputeIsDown, LetGo
  <2>3. QED
    BY <1>10, <2>1, <2>2, LetGoEnded
<1>11. CASE PatchExpired
  <2>1. /\ Patch(ExpiredStatus(ls)) /\ Idle /\ UNCHANGED <<cache, vmi, pod, objects>>
    BY <1>11 DEF PatchExpired, Return
  <2>2. /\ ExpiredStatus(ls) \in LabSession /\ ExpiredStatus(ls).exists = ls.exists
        /\ ExpiredStatus(ls).finalizer = ls.finalizer
        /\ ExpiredStatus(ls).deleting = ls.deleting
    BY <1>1, ExpiredFields
  <2>3. QED
    BY <1>10, <2>1, <2>2
<1>12. CASE ConfirmStopped
  <2>1. UNCHANGED <<cache, vmi, pod, objects>>
    BY <1>12 DEF ConfirmStopped
  <2>2. NothingHeld => NothingHeld'
    BY <2>1 DEF NothingHeld, ComputeIsDown, LetGo
  <2>3. CASE Patch(Paused(ls)) /\ Idle
    <3>1. /\ Paused(ls) \in LabSession /\ Paused(ls).exists = ls.exists
          /\ Paused(ls).finalizer = ls.finalizer /\ Paused(ls).deleting = ls.deleting
      BY <1>1, PausedFields
    <3>2. QED
      BY <1>10, <2>1, <2>3, <3>1
  <2>4. CASE Idle /\ UNCHANGED <<labsession, events>>
    BY <1>2, <2>1, <2>2, <2>4, LetGoEnded
  <2>5. CASE Goto("teardownDisk") /\ UNCHANGED <<labsession, events>>
    BY <1>5, <2>1, <2>2, <2>5 DEF Goto
  <2>6. QED
    BY <1>12, <2>3, <2>4, <2>5 DEF ConfirmStopped, Return
<1>13. QED
  BY <1>6, <1>7, <1>8, <1>9, <1>11, <1>12

\* Whatever is created, the finalizer is in place.
LEMMA ConvergeLetGo ==
  ASSUME TypeOK, LetGoInv, Converge \/ EnsureFails \/ PatchResumed \/ PatchStatus
  PROVE  LetGoInv'
<1> USE DEF cluster, queue, worker, world, bounds
<1>1. step \in ConvergingSteps
  BY DEF Converge, Bootstrap, MarkCapacity, Ensure, EnsureConflicts, Observe,
         EnsureFails, PatchResumed, PatchStatus, ConvergingSteps
<1>2. /\ ls \in LabSession /\ FinalizerKnown /\ DeletingKnown
      /\ labsession.finalizer /\ goal = "none" /\ result \in Results
  BY <1>1 DEF TypeOK, LetGoInv, FinalizerHeld, GoalIsOfTeardown
<1>3. ASSUME FinalizerKnown', DeletingKnown', labsession'.finalizer, goal' = "none",
             step' \in ConvergingSteps \cup {"idle"}
      PROVE  LetGoInv'
  <2>1. step' # "removeFinalizer"
    BY <1>3 DEF ConvergingSteps
  <2>2. QED
    BY <1>3, <2>1
    DEF LetGoInv, FinalizerHeld, DeletionIsCurrent, GoalIsOfTeardown, NothingUnguarded
<1>4. ASSUME UNCHANGED <<labsession, cache, events>>, goal' = "none",
             step' \in ConvergingSteps \cup {"idle"}
      PROVE  LetGoInv'
  <2>1. FinalizerKnown' /\ DeletingKnown' /\ labsession'.finalizer
    BY <1>2, <1>4 DEF FinalizerKnown, DeletingKnown, Live, Dying
  <2>2. QED
    BY <1>3, <1>4, <2>1
<1>5. ASSUME NEW a \in LabSession, Patch(a), UNCHANGED cache, goal' = "none",
             a.exists = ls.exists, a.finalizer = ls.finalizer, a.deleting = ls.deleting,
             step' \in ConvergingSteps \cup {"idle"}
      PROVE  LetGoInv'
  BY <1>2, <1>3, <1>5, VersionsPatched
<1>6. CASE Bootstrap
  BY <1>2, <1>4, <1>6 DEF Bootstrap, Report, Goto, Abort, Idle, ConvergingSteps
<1>7. CASE Ensure
  BY <1>2, <1>4, <1>7 DEF Ensure, EnsureObjects, Goto, ConvergingSteps
<1>8. CASE EnsureConflicts
  BY <1>4, <1>8 DEF EnsureConflicts, EnsureObjects, Abort, Idle
<1>9. CASE EnsureFails
  BY <1>4, <1>9 DEF EnsureFails, EnsureObjects, Abort, Idle
<1>10. CASE Observe
  BY <1>2, <1>4, <1>10 DEF Observe, Report, ConvergingSteps
<1>11. CASE MarkCapacity
  <2> DEFINE a == [ls EXCEPT !.capacityReady = TRUE]
  <2>1. /\ a \in LabSession /\ a.exists = ls.exists /\ a.finalizer = ls.finalizer
        /\ a.deleting = ls.deleting
    BY <1>2 DEF LabSession
  <2>2. Patch(a) /\ step' = "ensure" /\ UNCHANGED <<goal, cache>>
    BY <1>11 DEF MarkCapacity
  <2>3. step' \in ConvergingSteps
    BY <2>2 DEF ConvergingSteps
  <2> HIDE DEF a
  <2>4. QED
    BY <1>2, <1>5, <2>1, <2>2, <2>3
<1>12. CASE PatchResumed
  <2> DEFINE a == [ls EXCEPT !.phase = "Provisioning"]
  <2>1. /\ a \in LabSession /\ a.exists = ls.exists /\ a.finalizer = ls.finalizer
        /\ a.deleting = ls.deleting
    BY <1>2, SessionValues DEF LabSession
  <2>2. Patch(a) /\ step' = "idle" /\ goal' = "none" /\ UNCHANGED cache
    BY <1>12 DEF PatchResumed, Return, Idle
  <2> HIDE DEF a
  <2>3. QED
    BY <1>5, <2>1, <2>2
<1>13. CASE PatchStatus
  <2>1. step' = "idle" /\ goal' = "none" /\ UNCHANGED cache
    BY <1>13 DEF PatchStatus, Return, Idle
  <2>2. HasAddress(result) \in BOOLEAN /\ result \in Phases
    BY <1>2 DEF HasAddress, Results, Phases
  <2>3. /\ Reported(ls) \in LabSession /\ Reported(ls).exists = ls.exists
        /\ Reported(ls).finalizer = ls.finalizer /\ Reported(ls).deleting = ls.deleting
    BY <1>2, <2>2 DEF Reported, LabSession
  <2>4. CASE UNCHANGED <<labsession, events>>
    BY <1>4, <2>1, <2>4
  <2>5. CASE Patch(Reported(ls))
    BY <1>5, <2>1, <2>3, <2>5
  <2>6. QED
    BY <1>13, <2>4, <2>5 DEF PatchStatus
<1>14. QED
  BY <1>6, <1>7, <1>8, <1>9, <1>10, <1>11, <1>12, <1>13 DEF Converge

\* The finalizer comes and goes by Update from a current copy; the rest of the process
\* moves copies around.
LEMMA ProcessLetGo ==
  ASSUME TypeOK, LetGoInv,
         AddFinalizer \/ RemoveFinalizer \/ CallFails
         \/ Watch \/ Resync \/ TimerFires \/ Restart
  PROVE  LetGoInv'
<1> USE DEF cluster, queue, worker, world, bounds
<1>1. labsession \in LabSession /\ FinalizerKnown /\ DeletingKnown
  BY DEF TypeOK, LetGoInv
<1>2. ASSUME UNCHANGED <<vmi, pod, objects>> PROVE NothingHeld => NothingHeld'
  BY <1>2 DEF NothingHeld, ComputeIsDown, LetGo
<1>3. ASSUME UNCHANGED <<labsession, cache, events>>
      PROVE  FinalizerKnown' /\ DeletingKnown' /\ (Dying(labsession)' <=> Dying(labsession))
  BY <1>1, <1>3 DEF FinalizerKnown, DeletingKnown, Live, Dying
<1>4. ASSUME Idle, UNCHANGED <<labsession, cache, events, vmi, pod, objects>>
      PROVE  LetGoInv'
  BY <1>2, <1>3, <1>4, LetGoEnded
<1>5. CASE AddFinalizer
  <2>1. Idle /\ UNCHANGED <<cache, vmi, pod, objects>>
    BY <1>5 DEF AddFinalizer, Return, Abort
  <2>2. CASE UNCHANGED <<labsession, events>>
    BY <1>4, <2>1, <2>2
  <2>3. CASE labsession.exists /\ Write([labsession EXCEPT !.finalizer = TRUE])
    <3> DEFINE v == [labsession EXCEPT !.finalizer = TRUE]
    <3>1. /\ v \in LabSession /\ v.exists /\ v.finalizer
          /\ Dying(labsession) => Dying(v)
      BY <1>1, <2>3 DEF LabSession, Dying
    <3>2. Write(v)
      BY <2>3
    <3> HIDE DEF v
    <3>3. FinalizerKnown' /\ DeletingKnown' /\ labsession' = v
      BY <1>1, <2>1, <3>1, <3>2, VersionsWritten
    <3>4. QED
      BY <1>2, <2>1, <3>1, <3>3, LetGoEnded
  <2>4. QED
    BY <1>5, <2>2, <2>3 DEF AddFinalizer
<1>6. CASE RemoveFinalizer
  <2>1. Idle /\ UNCHANGED <<cache, vmi, pod, objects>> /\ step = "removeFinalizer"
    BY <1>6 DEF RemoveFinalizer, Return, Abort
  <2>2. CASE UNCHANGED <<labsession, events>>
    BY <1>4, <2>1, <2>2
  <2>3. CASE current /\ Write(NoSession)
    <3>1. NothingHeld /\ events = <<>> /\ cache.deleting
      BY <2>1, <2>3 DEF LetGoInv, NothingUnguarded, DeletionIsCurrent
    <3>2. /\ NoSession \in LabSession /\ ~NoSession.finalizer /\ Dying(NoSession)
          /\ ~Live(cache) /\ DOMAIN events = {}
      BY <3>1, SessionValues DEF NoSession, Dying, Live
    <3>3. FinalizerKnown' /\ DeletingKnown'
      BY <1>1, <2>1, <2>3, <3>2, VersionsWritten
    <3>4. NothingHeld'
      BY <1>2, <2>1, <3>1
    <3>5. /\ FinalizerHeld' /\ DeletionIsCurrent' /\ GoalIsOfTeardown'
          /\ NothingUnguarded'
      BY <2>1, <3>4
      DEF Idle, FinalizerHeld, DeletionIsCurrent, GoalIsOfTeardown, NothingUnguarded,
          ConvergingSteps
    <3>6. QED
      BY <3>3, <3>5 DEF LetGoInv
  <2>4. QED
    BY <1>6, <2>2, <2>3 DEF RemoveFinalizer
<1>7. CASE CallFails
  BY <1>4, <1>7 DEF CallFails, Abort
<1>8. ASSUME UNCHANGED <<labsession, step, goal, ls, current, vmi, pod, objects>>,
             FinalizerKnown', DeletingKnown',
             events = <<>> /\ cache.deleting => events' = <<>> /\ cache'.deleting
      PROVE  LetGoInv'
  <2>1. DeletionIsCurrent' /\ GoalIsOfTeardown'
    BY <1>8 DEF LetGoInv, DeletionIsCurrent, GoalIsOfTeardown, Dying
  <2>2. QED
    BY <1>2, <1>8, <2>1, LetGoKept DEF LetGoInv, FinalizerHeld
<1>9. CASE ObserveSession
  <2>1. /\ events # <<>> /\ cache' = Head(events) /\ events' = Tail(events)
        /\ UNCHANGED <<labsession, step, goal, ls, current, vmi, pod, objects>>
    BY <1>9 DEF ObserveSession
  <2>2. events \in Seq(LabSession)
    BY DEF TypeOK
  <2>3. /\ 1 \in DOMAIN events /\ cache' = events[1]
        /\ \A i \in DOMAIN events' : i + 1 \in DOMAIN events /\ events'[i] = events[i + 1]
    BY <2>1, <2>2
  <2>4. FinalizerKnown' /\ DeletingKnown'
    BY <1>1, <2>1, <2>3 DEF FinalizerKnown, DeletingKnown, Live, Dying
  <2>5. QED
    BY <1>8, <2>1, <2>4
<1>10. CASE \/ ObserveVMI \/ ObservePod \/ Resync \/ TimerFires
            \/ \E o \in Lagging : ObserveObject(o)
  <2>1. UNCHANGED <<labsession, cache, events, step, goal, ls, current, vmi, pod, objects>>
    BY <1>10 DEF ObserveVMI, ObservePod, ObserveObject, Resync, TimerFires
  <2>2. QED
    BY <1>3, <1>8, <2>1
<1>11. CASE Restart
  <2>1. /\ Idle /\ cache' = labsession /\ events' = <<>>
        /\ UNCHANGED <<labsession, vmi, pod, objects>>
    BY <1>11 DEF Restart
  <2>2. FinalizerKnown' /\ DeletingKnown'
    BY <1>1, <2>1 DEF FinalizerKnown, DeletingKnown, Live, Dying
  <2>3. QED
    BY <1>2, <2>1, <2>2, LetGoEnded
<1>12. QED
  BY <1>5, <1>6, <1>7, <1>9, <1>10, <1>11 DEF Watch

\* Requests, the clock and the cluster create nothing.
LEMMA EnvironmentLetGo ==
  ASSUME TypeOK, LetGoInv, Environment
  PROVE  LetGoInv'
<1> USE DEF cluster, queue, worker, world, bounds
<1>1. labsession \in LabSession /\ FinalizerKnown /\ DeletingKnown
  BY DEF TypeOK, LetGoInv
<1>2. ASSUME NEW kind, NEW v \in LabSession, Request(kind, v),
             v.finalizer = labsession.finalizer, v.finalizer => v.exists,
             Dying(labsession) => Dying(v)
      PROVE  LetGoInv'
  <2>1. /\ Write(v) /\ current' = FALSE
        /\ UNCHANGED <<cache, step, goal, ls, vmi, pod, objects>>
    BY <1>2 DEF Request
  <2>2. FinalizerKnown' /\ DeletingKnown' /\ labsession' = v
    BY <1>1, <1>2, <2>1, VersionsWritten
  <2>3. DeletionIsCurrent' /\ GoalIsOfTeardown'
    BY <1>2, <2>1, <2>2 DEF LetGoInv, DeletionIsCurrent, GoalIsOfTeardown
  <2>4. NothingHeld => NothingHeld'
    BY <2>1 DEF NothingHeld, ComputeIsDown, LetGo
  <2>5. QED
    BY <1>2, <2>1, <2>2, <2>3, <2>4, LetGoKept DEF LetGoInv, FinalizerHeld
<1>3. CASE Pause
  <2> DEFINE v == [labsession EXCEPT !.paused = TRUE]
  <2>1. /\ v \in LabSession /\ v.finalizer = labsession.finalizer
        /\ v.finalizer => v.exists
        /\ Dying(labsession) => Dying(v)
    BY <1>1 DEF LabSession, Dying, FinalizerKnown
  <2>2. Request("pause", v)
    BY <1>3 DEF Pause
  <2> HIDE DEF v
  <2>3. QED
    BY <1>2, <2>1, <2>2
<1>4. CASE Resume
  <2> DEFINE v == [labsession EXCEPT !.paused = FALSE]
  <2>1. /\ v \in LabSession /\ v.finalizer = labsession.finalizer
        /\ v.finalizer => v.exists
        /\ Dying(labsession) => Dying(v)
    BY <1>1 DEF LabSession, Dying, FinalizerKnown
  <2>2. Request("resume", v)
    BY <1>4 DEF Resume
  <2> HIDE DEF v
  <2>3. QED
    BY <1>2, <2>1, <2>2
<1>5. CASE Expire
  <2> DEFINE v == [labsession EXCEPT !.due = TRUE]
  <2>1. /\ v \in LabSession /\ v.finalizer = labsession.finalizer
        /\ v.finalizer => v.exists
        /\ Dying(labsession) => Dying(v)
    BY <1>1 DEF LabSession, Dying, FinalizerKnown
  <2>2. Request("expire", v)
    BY <1>5 DEF Expire
  <2> HIDE DEF v
  <2>3. QED
    BY <1>2, <2>1, <2>2
<1>6. CASE Delete
  <2> DEFINE v == IF labsession.finalizer THEN [labsession EXCEPT !.deleting = TRUE]
                                          ELSE NoSession
  <2>1. /\ v \in LabSession /\ v.finalizer = labsession.finalizer
        /\ v.finalizer => v.exists
        /\ Dying(labsession) => Dying(v)
    <3>1. CASE labsession.finalizer
      BY <1>1, <3>1 DEF LabSession, Dying, FinalizerKnown
    <3>2. CASE ~labsession.finalizer
      <4>1. v = NoSession /\ v \in LabSession
        BY <3>2, SessionValues
      <4>2. ~v.exists /\ v.finalizer = FALSE
        BY <4>1 DEF NoSession
      <4>3. Dying(v) /\ labsession.finalizer = FALSE
        BY <1>1, <3>2, <4>2 DEF Dying, LabSession
      <4> HIDE DEF v
      <4>4. QED
        BY <4>1, <4>2, <4>3
    <3>3. QED
      BY <3>1, <3>2
  <2>2. Request("delete", v)
    BY <1>6 DEF Delete
  <2> HIDE DEF v
  <2>3. QED
    BY <1>2, <2>1, <2>2
<1>7. ASSUME UNCHANGED <<labsession, cache, events, step, goal, ls, current>>,
             NothingHeld => NothingHeld'
      PROVE  LetGoInv'
  <2>1. /\ FinalizerKnown' /\ DeletingKnown' /\ DeletionIsCurrent' /\ GoalIsOfTeardown'
    BY <1>7 DEF LetGoInv, FinalizerKnown, DeletingKnown, DeletionIsCurrent,
                GoalIsOfTeardown, Live, Dying
  <2>2. QED
    BY <1>7, <2>1, LetGoKept DEF LetGoInv, FinalizerHeld
<1>8. CASE TTLPasses
  <2>1. UNCHANGED <<labsession, cache, events, step, goal, ls, current, vmi, pod, objects>>
    BY <1>8 DEF TTLPasses
  <2>2. NothingHeld => NothingHeld'
    BY <2>1 DEF NothingHeld, ComputeIsDown, LetGo
  <2>3. QED
    BY <1>7, <2>1, <2>2
<1>9. CASE VMIStarts \/ VMIFails \/ VMIGone \/ GuestBoots \/ PodReady \/ PodGone
           \/ GarbageCollect
  <2>1. UNCHANGED <<labsession, cache, events, step, goal, ls, current>>
    BY <1>9 DEF VMIStarts, VMIFails, VMIGone, GuestBoots, VMIBecomes, PodReady, PodGone,
                PodBecomes, GarbageCollect
  <2>2. /\ LetGo => LetGo'
        /\ pod \in {"absent", "deleting"} => pod' \in {"absent", "deleting"}
        /\ objects' \subseteq objects
    BY <1>9 DEF VMIStarts, VMIFails, VMIGone, GuestBoots, VMIBecomes, PodReady, PodGone,
                PodBecomes, GarbageCollect, VMIDeleted, PodDeleted, LetGo
  <2>3. QED
    BY <1>7, <2>1, <2>2, NothingStaysNothing
<1>10. QED
  BY <1>3, <1>4, <1>5, <1>6, <1>8, <1>9 DEF Environment

\* What a session holds, it holds behind its finalizer.
THEOREM LetGoIsInvariant == Spec => []LetGoInv
<1>1. Init => LetGoInv
  <2> SUFFICES ASSUME Init PROVE LetGoInv
    OBVIOUS
  <2>1. FinalizerKnown /\ DeletingKnown /\ FinalizerHeld /\ DeletionIsCurrent
    BY DEF Init, FinalizerKnown, DeletingKnown, FinalizerHeld, DeletionIsCurrent,
           ConvergingSteps, NoSession, Created, Live
  <2>2. GoalIsOfTeardown /\ NothingUnguarded
    BY DEF Init, GoalIsOfTeardown, NothingUnguarded, NothingHeld, ComputeIsDown, LetGo
  <2>3. QED
    BY <2>1, <2>2 DEF LetGoInv
<1>2. TypeOK /\ EndingInv /\ LetGoInv /\ [Next]_vars => LetGoInv'
  <2> SUFFICES ASSUME TypeOK, EndingInv, LetGoInv, [Next]_vars PROVE LetGoInv'
    OBVIOUS
  <2>1. CASE UNCHANGED vars
    BY <2>1 DEF vars, cluster, worker, LetGoInv, FinalizerKnown, DeletingKnown, FinalizerHeld,
                DeletionIsCurrent, GoalIsOfTeardown, NothingUnguarded, NothingHeld,
                ComputeIsDown, LetGo, Live, Dying
  <2>2. CASE Finished
    BY <2>1, <2>2 DEF Finished
  <2>3. CASE Reconcile
    BY <2>3, ReconcileLetGo
  <2>4. CASE Call
    BY <2>4, TeardownLetGo, ConvergeLetGo, ProcessLetGo DEF Call, Teardown, PatchLabSession
  <2>5. CASE Failure
    BY <2>5, TeardownLetGo, ConvergeLetGo, ProcessLetGo DEF Failure
  <2>6. CASE Watch \/ Resync \/ TimerFires \/ Restart
    BY <2>6, ProcessLetGo
  <2>7. CASE Environment
    BY <2>7, EnvironmentLetGo
  <2>8. QED
    BY <2>1, <2>2, <2>3, <2>4, <2>5, <2>6, <2>7 DEF Next
<1>3. QED
  BY <1>1, <1>2, TypeCorrect, EndingIsInvariant, PTL DEF Spec

-----------------------------------------------------------------------------
(* The operator implements SessionLifecycle: the mapping of Lifecycle, and  *)
(* for every step the step it is, or a stutter.                             *)

LifecycleStep == [Lifecycle!Next]_(Lifecycle!vars)

\* What a step of the abstract specification looks like.
LEMMA LifecycleForms ==
  /\ Verdict' = Verdict /\ Holds' = Holds => LifecycleStep
  /\ Verdict' = Verdict /\ Verdict \notin {"Expired", "gone"} /\ Holds \subseteq Holds'
         => LifecycleStep
  /\ Verdict' = Verdict /\ Holds' \subseteq Holds /\ ("disk" \in Holds => "disk" \in Holds')
         => LifecycleStep
  /\ Verdict' = Verdict /\ Verdict = "closing" /\ Holds = {"disk"} /\ Holds' = {}
         => LifecycleStep
  /\ Verdict = "open" /\ Verdict' = "closing" /\ Holds' = Holds => LifecycleStep
  /\ Verdict = "closing" /\ Verdict' = "Expired" /\ Holds = {} /\ Holds' = {} => LifecycleStep
  /\ Verdict' = "gone" /\ Holds = {} /\ Holds' = {} => LifecycleStep
<1> USE DEF LifecycleStep, Lifecycle!Next, Lifecycle!vars, Lifecycle!Over,
        Lifecycle!Resources, Lifecycle!Transient
<1>0. Holds \subseteq {"compute", "exposure", "disk"}
      /\ Holds' \subseteq {"compute", "exposure", "disk"}
  BY DEF Holds
<1>1. Verdict' = Verdict /\ Holds' = Holds => LifecycleStep
  OBVIOUS
<1>2. ASSUME Verdict' = Verdict, Verdict \notin {"Expired", "gone"}, Holds \subseteq Holds'
      PROVE  LifecycleStep
  <2>1. Holds' = Holds \cup Holds' /\ Holds' \subseteq {"compute", "exposure", "disk"}
    BY <1>0, <1>2
  <2>2. Lifecycle!Acquire
    BY <1>2, <2>1 DEF Lifecycle!Acquire
  <2>3. QED
    BY <2>2
<1>3. ASSUME Verdict' = Verdict, Holds' \subseteq Holds, "disk" \in Holds => "disk" \in Holds'
      PROVE  LifecycleStep
  <2> DEFINE r == Holds \ Holds'
  <2>1. r \subseteq {"compute", "exposure"} /\ Holds' = Holds \ r
    BY <1>0, <1>3
  <2>2. Lifecycle!Release
    BY <1>3, <2>1 DEF Lifecycle!Release
  <2>3. QED
    BY <2>2
<1>4. Verdict' = Verdict /\ Verdict = "closing" /\ Holds = {"disk"} /\ Holds' = {}
          => LifecycleStep
  BY DEF Lifecycle!DropDisk
<1>5. Verdict = "open" /\ Verdict' = "closing" /\ Holds' = Holds => LifecycleStep
  BY DEF Lifecycle!Close
<1>6. Verdict' \in {"Expired", "gone"} /\ (Verdict' = "Expired" => Verdict = "closing")
        /\ Holds = {} /\ Holds' = {} => LifecycleStep
  BY DEF Lifecycle!Report
<1>7. QED
  BY <1>1, <1>2, <1>3, <1>4, <1>5, <1>6

\* What is held, by what there is.
LEMMA HoldsForms ==
  /\ UNCHANGED <<vmi, pod, objects>> => Holds' = Holds
  /\ (HasCompute' <=> HasCompute) /\ (HasExposure' <=> HasExposure) /\ (HasDisk' <=> HasDisk)
         => Holds' = Holds
  /\ (HasCompute => HasCompute') /\ (HasExposure => HasExposure') /\ (HasDisk => HasDisk')
         => Holds \subseteq Holds'
  /\ (HasCompute' => HasCompute) /\ (HasExposure' => HasExposure) /\ (HasDisk' <=> HasDisk)
         => Holds' \subseteq Holds /\ ("disk" \in Holds => "disk" \in Holds')
<1>1. UNCHANGED <<vmi, pod, objects>> => Holds' = Holds
  BY DEF Holds, HasCompute, HasExposure, HasDisk, LetGo
<1>2. QED
  BY <1>1 DEF Holds

\* Nothing held is nothing held.
LEMMA NothingIsHeld == NothingHeld /\ TypeOK => Holds = {}
BY DEF NothingHeld, ComputeIsDown, TypeOK, Holds, HasCompute, HasExposure, HasDisk,
       Objects, PodStates

\* The verdict changes only with what it looks at.
LEMMA VerdictKept ==
  ASSUME UNCHANGED passed, labsession'.exists = labsession.exists,
         labsession'.due = labsession.due, labsession'.deleting = labsession.deleting,
         labsession'.phase = "Expired" <=> labsession.phase = "Expired"
  PROVE  Verdict' = Verdict
BY DEF Verdict, Expired

\* A patch leaves alone what the reconciliation did not change.
LEMMA PatchForm ==
  ASSUME TypeOK, NEW a \in LabSession, Patch(a),
         a.exists = ls.exists, a.due = ls.due, a.deleting = ls.deleting
  PROVE  /\ labsession.exists /\ labsession'.exists = labsession.exists
         /\ labsession'.due = labsession.due /\ labsession'.deleting = labsession.deleting
         /\ labsession'.phase = IF a.phase # ls.phase THEN a.phase ELSE labsession.phase
<1> DEFINE v == MergePatch(labsession, ls, a)
<1>1. /\ v.exists = labsession.exists /\ v.due = labsession.due
      /\ v.deleting = labsession.deleting
      /\ v.phase = IF a.phase # ls.phase THEN a.phase ELSE labsession.phase
  BY MergePatchFields DEF TypeOK
<1>2. labsession.exists /\ labsession' = v
  BY DEF Patch, Write
<1> HIDE DEF v
<1>3. QED
  BY <1>1, <1>2

\* A step that leaves the session and the clock alone changes what is held, if at all,
\* and acquires only while the session is not over.
LEMMA ClusterRefines ==
  ASSUME TypeOK, EndingInv, LetGoInv,
         \/ Reconcile \/ TeardownCompute \/ TeardownComputeFails \/ TeardownDisk
         \/ Bootstrap \/ Ensure \/ EnsureConflicts \/ EnsureFails \/ Observe \/ CallFails
         \/ Watch \/ Resync \/ TimerFires \/ Restart
         \/ VMIStarts \/ VMIFails \/ VMIGone \/ GuestBoots \/ PodReady \/ PodGone
         \/ GarbageCollect
  PROVE  LifecycleStep
<1> USE DEF vars, cluster, queue, worker, world, bounds
<1>1. ASSUME UNCHANGED <<labsession, passed>> PROVE Verdict' = Verdict
  BY <1>1 DEF Verdict, Expired
<1>2. ASSUME UNCHANGED <<labsession, passed, vmi, pod, objects>> PROVE LifecycleStep
  BY <1>1, <1>2, HoldsForms, LifecycleForms
<1>3. CASE Reconcile
  <2>1. UNCHANGED <<labsession, passed, vmi, pod, objects>>
    BY <1>3 DEF Reconcile, BeginNothing, BeginDeletion, BeginFinalizer, BeginExpiry,
                BeginPause, BeginResume, BeginConverge, BeginMisconfigured, Begin
  <2>2. QED
    BY <1>2, <2>1
<1>4. CASE Observe \/ CallFails
  BY <1>2, <1>4 DEF Observe, CallFails
<1>5. CASE Watch \/ Resync \/ TimerFires \/ Restart
  BY <1>2, <1>5 DEF Watch, ObserveSession, ObserveVMI, ObservePod, ObserveObject, Resync,
                    TimerFires, Restart
<1>6. ASSUME NEW n \in 1..4, DeleteCompute(n) PROVE LifecycleStep
  <2>1. HasCompute' => HasCompute
    BY <1>6 DEF DeleteCompute, HasCompute, LetGo, VMIDeleted, PodDeleted
  <2>2. (HasExposure' => HasExposure) /\ (HasDisk' <=> HasDisk)
    <3>1. "DataVolume" \notin {ComputeObjects[i] : i \in 1..n}
      BY DEF ComputeObjects
    <3>2. QED
      BY <1>6, <3>1 DEF DeleteCompute, HasExposure, HasDisk
  <2>3. Verdict' = Verdict
    BY <1>1, <1>6 DEF DeleteCompute
  <2>4. QED
    BY <2>1, <2>2, <2>3, HoldsForms, LifecycleForms
<1>7. CASE TeardownCompute \/ TeardownComputeFails
  <2>1. PICK n \in 1..4 : DeleteCompute(n)
    BY <1>7 DEF TeardownCompute, TeardownComputeFails, ComputeObjects
  <2>2. QED
    BY <1>6, <2>1
<1>8. CASE TeardownDisk
  <2>1. /\ step = "teardownDisk" /\ objects' = objects \ {"DataVolume"}
        /\ UNCHANGED <<labsession, passed, vmi, pod>>
    BY <1>8 DEF TeardownDisk
  <2>2. ComputeIsDown /\ goal \in {"delete", "expire"}
    BY <2>1 DEF EndingInv, TeardownProgress
  <2>3. Verdict' = Verdict
    BY <1>1, <2>1
  <2>4. CASE ~HasDisk
    <3>1. objects' = objects
      BY <2>1, <2>4 DEF HasDisk
    <3>2. QED
      BY <1>2, <2>1, <3>1
  <2>5. CASE HasDisk
    <3>1. labsession.exists /\ labsession.phase # "Expired"
      BY <2>5 DEF HasDisk, LetGoInv, FinalizerKnown, NothingUnguarded, NothingHeld,
                  EndingInv, ExpiredIsTornDown
    <3>2. Verdict = "closing"
      <4>1. CASE goal = "delete"
        BY <3>1, <4>1 DEF LetGoInv, DeletionIsCurrent, Dying, Verdict
      <4>2. CASE goal = "expire"
        BY <3>1, <4>2 DEF EndingInv, EndIsKnown, AllOver, Over, Verdict, Expired
      <4>3. QED
        BY <2>2, <4>1, <4>2
    <3>3. Holds = {"disk"} /\ Holds' = {}
      BY <2>1, <2>2, <2>5
      DEF ComputeIsDown, Holds, HasCompute, HasExposure, HasDisk, LetGo, TypeOK, PodStates
    <3>4. QED
      BY <2>3, <3>2, <3>3, LifecycleForms
  <2>6. QED
    BY <2>4, <2>5
<1>9. ASSUME step \in ConvergingSteps, UNCHANGED <<labsession, passed>>
      PROVE  Verdict' = Verdict /\ Verdict \notin {"Expired", "gone"}
  BY <1>1, <1>9 DEF EndingInv, ConvergesUnexpired, LetGoInv, FinalizerHeld, FinalizerKnown,
                    Verdict
<1>10. CASE Bootstrap
  <2>1. step \in ConvergingSteps /\ UNCHANGED <<labsession, passed, vmi, objects>>
    BY <1>10 DEF Bootstrap, ConvergingSteps
  <2>2. CASE pod = "absent" /\ pod' = "pending"
    <3>1. Holds \subseteq Holds'
      BY <2>1, <2>2, HoldsForms DEF HasCompute, HasExposure, HasDisk, LetGo
    <3>2. QED
      BY <1>9, <2>1, <3>1, LifecycleForms
  <2>3. CASE UNCHANGED pod
    BY <1>2, <2>1, <2>3
  <2>4. CASE pod' = PodDeleted(pod)
    <3>1. /\ HasCompute' => HasCompute
          /\ HasExposure' <=> HasExposure
          /\ HasDisk' <=> HasDisk
      BY <2>1, <2>4 DEF HasCompute, HasExposure, HasDisk, LetGo, PodDeleted
    <3>2. QED
      BY <1>9, <2>1, <3>1, HoldsForms, LifecycleForms
  <2>5. QED
    BY <1>10, <2>2, <2>3, <2>4 DEF Bootstrap
<1>11. ASSUME NEW n \in Nat, EnsureObjects(n), step = "ensure"
       PROVE  LifecycleStep
  <2>1. step \in ConvergingSteps /\ UNCHANGED <<labsession, passed, pod>>
    BY <1>11 DEF EnsureObjects, ConvergingSteps
  <2>2. HasCompute => HasCompute'
    BY <1>11, <2>1 DEF EnsureObjects, HasCompute, LetGo
  <2>3. (HasExposure => HasExposure') /\ (HasDisk => HasDisk')
    BY <1>11 DEF EnsureObjects, HasExposure, HasDisk
  <2>4. QED
    BY <1>9, <2>1, <2>2, <2>3, HoldsForms, LifecycleForms
<1>12. Len(SessionObjects) = 5
  BY DEF SessionObjects
<1>13. CASE Ensure \/ EnsureConflicts \/ EnsureFails
  <2>1. PICK n \in 0..5 : EnsureObjects(n) /\ step = "ensure"
    BY <1>12, <1>13 DEF Ensure, EnsureConflicts, EnsureFails
  <2>2. QED
    BY <1>11, <2>1
<1>14. CASE VMIStarts \/ VMIFails \/ VMIGone \/ GuestBoots \/ PodReady \/ PodGone
  <2>1. UNCHANGED <<labsession, passed, objects>>
    BY <1>14 DEF VMIStarts, VMIFails, VMIGone, GuestBoots, VMIBecomes, PodReady, PodGone,
                 PodBecomes
  <2>2. HasCompute' <=> HasCompute
    BY <1>14 DEF VMIStarts, VMIFails, VMIGone, GuestBoots, VMIBecomes, PodReady, PodGone,
                 PodBecomes, HasCompute, LetGo
  <2>3. QED
    BY <1>1, <2>1, <2>2, HoldsForms, LifecycleForms DEF HasExposure, HasDisk
<1>15. CASE GarbageCollect
  <2>1. ~labsession.finalizer /\ UNCHANGED <<labsession, passed>>
    BY <1>15 DEF GarbageCollect, LetGoInv, FinalizerKnown
  <2>2. NothingHeld
    BY <2>1 DEF LetGoInv, NothingUnguarded
  <2>3. /\ ~HasCompute /\ ~HasExposure /\ ~HasDisk
        /\ ~HasCompute' /\ ~HasExposure' /\ ~HasDisk'
    BY <1>15, <2>2 DEF GarbageCollect, NothingHeld, ComputeIsDown, HasCompute, HasExposure,
                       HasDisk, LetGo, VMIDeleted, PodDeleted
  <2>4. QED
    BY <1>1, <2>1, <2>3, HoldsForms, LifecycleForms
<1>16. QED
  BY <1>3, <1>4, <1>5, <1>7, <1>8, <1>10, <1>13, <1>14, <1>15

\* A write of the LabSession, or the deadline, ends the session, reports its end once
\* nothing is held, or leaves the verdict alone.
LEMMA SessionRefines ==
  ASSUME TypeOK, EndingInv, LetGoInv,
         \/ AddFinalizer \/ RemoveFinalizer \/ ClearCapacity \/ ConfirmStopped
         \/ PatchExpired \/ PatchResumed \/ PatchStatus \/ MarkCapacity
         \/ Pause \/ Resume \/ Expire \/ Delete \/ TTLPasses
  PROVE  LifecycleStep
<1> USE DEF cluster, queue, worker, world, bounds
<1>1. /\ ls \in LabSession /\ labsession \in LabSession
      /\ result \in Results /\ "Expired" \notin Results
  BY DEF TypeOK, Results
<1>2. UNCHANGED <<vmi, pod, objects>>
  BY DEF AddFinalizer, RemoveFinalizer, ClearCapacity, ConfirmStopped, PatchExpired,
         PatchResumed, PatchStatus, MarkCapacity, Pause, Resume, Expire, Delete, Request,
         TTLPasses
<1>3. Holds' = Holds
  BY <1>2, HoldsForms
<1>4. Verdict' = Verdict => LifecycleStep
  BY <1>3, LifecycleForms
<1>5. ASSUME UNCHANGED <<labsession, passed>> PROVE LifecycleStep
  BY <1>4, <1>5 DEF Verdict, Expired
<1>6. ASSUME NEW a \in LabSession, Patch(a), UNCHANGED passed,
             a.exists = ls.exists, a.due = ls.due, a.deleting = ls.deleting,
             \/ a.phase = ls.phase
             \/ a.phase # "Expired" /\ labsession.phase # "Expired"
      PROVE  LifecycleStep
  BY <1>4, <1>6, PatchForm, VerdictKept
<1>7. ASSUME UNCHANGED passed, labsession'.phase = labsession.phase, labsession'.exists,
             labsession.due => labsession'.due, labsession.deleting => labsession'.deleting,
             labsession.exists
      PROVE  LifecycleStep
  <2>1. Verdict' = Verdict \/ (Verdict = "open" /\ Verdict' = "closing")
    BY <1>7 DEF Verdict, Expired
  <2>2. QED
    BY <1>3, <1>4, <2>1, LifecycleForms
<1>8. ASSUME labsession' = NoSession, NothingHeld PROVE LifecycleStep
  <2>1. Verdict' = "gone" /\ Holds = {}
    BY <1>8, NothingIsHeld DEF Verdict, NoSession
  <2>2. QED
    BY <1>3, <2>1, LifecycleForms
<1>9. CASE AddFinalizer
  <2>1. UNCHANGED passed /\ (\/ UNCHANGED labsession
                             \/ /\ labsession.exists
                                /\ labsession' = [labsession EXCEPT !.finalizer = TRUE])
    BY <1>9 DEF AddFinalizer, Write
  <2>2. QED
    BY <1>1, <1>5, <1>7, <2>1 DEF LabSession
<1>10. CASE RemoveFinalizer
  <2>1. UNCHANGED passed /\ (UNCHANGED labsession \/ labsession' = NoSession)
    BY <1>10 DEF RemoveFinalizer, Write
  <2>2. NothingHeld
    BY <1>10 DEF RemoveFinalizer, LetGoInv, NothingUnguarded
  <2>3. QED
    BY <1>5, <1>8, <2>1, <2>2
<1>11. CASE ClearCapacity
  <2> DEFINE a == [ls EXCEPT !.capacityReady = FALSE]
  <2>1. /\ a \in LabSession /\ a.exists = ls.exists /\ a.due = ls.due
        /\ a.deleting = ls.deleting /\ a.phase = ls.phase
    BY <1>1 DEF LabSession
  <2>2. UNCHANGED passed /\ (UNCHANGED labsession \/ Patch(a))
    BY <1>11 DEF ClearCapacity
  <2> HIDE DEF a
  <2>3. QED
    BY <1>5, <1>6, <2>1, <2>2
<1>12. CASE ConfirmStopped
  <2>1. UNCHANGED passed
        /\ (UNCHANGED labsession \/ (goal = "pause" /\ Patch(Paused(ls))))
    BY <1>12 DEF ConfirmStopped
  <2>2. /\ Paused(ls) \in LabSession /\ Paused(ls).exists = ls.exists
        /\ Paused(ls).due = ls.due /\ Paused(ls).deleting = ls.deleting
        /\ Paused(ls).phase # "Expired"
    BY <1>1, PausedFields
  <2>3. goal = "pause" => labsession.phase # "Expired"
    BY DEF EndingInv, ConvergesUnexpired
  <2>4. QED
    BY <1>5, <1>6, <2>1, <2>2, <2>3
<1>13. CASE PatchExpired
  <2>1. step = "patchExpired" /\ UNCHANGED passed /\ Patch(ExpiredStatus(ls))
    BY <1>13 DEF PatchExpired
  <2>2. /\ ExpiredStatus(ls) \in LabSession /\ ExpiredStatus(ls).exists = ls.exists
        /\ ExpiredStatus(ls).due = ls.due /\ ExpiredStatus(ls).deleting = ls.deleting
        /\ ExpiredStatus(ls).phase = "Expired"
    BY <1>1, ExpiredFields
  <2>3. /\ labsession.exists /\ labsession'.exists /\ labsession'.due = labsession.due
        /\ labsession'.deleting = labsession.deleting
        /\ labsession'.phase \in {"Expired", labsession.phase}
    BY <2>1, <2>2, PatchForm
  <2>4. CASE labsession'.phase = labsession.phase
    BY <1>7, <2>1, <2>3, <2>4
  <2>5. CASE labsession'.phase = "Expired" /\ labsession.phase # "Expired"
    <3>1. goal = "expire" /\ ComputeIsDown /\ "DataVolume" \notin objects
      BY <2>1 DEF EndingInv, TeardownProgress
    <3>2. Holds = {}
      BY <3>1, NothingIsHeld DEF NothingHeld
    <3>3. Verdict = "closing"
      BY <2>3, <2>5, <3>1 DEF EndingInv, EndIsKnown, AllOver, Over, Verdict, Expired
    <3>4. Verdict' = "Expired"
      BY <2>3, <2>5 DEF Verdict
    <3>5. QED
      BY <1>3, <3>2, <3>3, <3>4, LifecycleForms
  <2>6. QED
    BY <2>3, <2>4, <2>5
<1>14. ASSUME step \in ConvergingSteps PROVE labsession.phase # "Expired"
  BY <1>14 DEF EndingInv, ConvergesUnexpired
<1>15. CASE PatchResumed
  <2> DEFINE a == [ls EXCEPT !.phase = "Provisioning"]
  <2>1. /\ a \in LabSession /\ a.exists = ls.exists /\ a.due = ls.due
        /\ a.deleting = ls.deleting /\ a.phase # "Expired"
    BY <1>1, SessionValues DEF LabSession
  <2>2. Patch(a) /\ UNCHANGED passed /\ step \in ConvergingSteps
    BY <1>15 DEF PatchResumed, ConvergingSteps
  <2> HIDE DEF a
  <2>3. QED
    BY <1>6, <1>14, <2>1, <2>2
<1>16. CASE PatchStatus
  <2>1. /\ UNCHANGED passed /\ step \in ConvergingSteps
        /\ UNCHANGED labsession \/ Patch(Reported(ls))
    BY <1>16 DEF PatchStatus, ConvergingSteps
  <2>2. HasAddress(result) \in BOOLEAN /\ result \in Phases
    BY <1>1 DEF HasAddress, Results, Phases
  <2>3. /\ Reported(ls) \in LabSession /\ Reported(ls).exists = ls.exists
        /\ Reported(ls).due = ls.due /\ Reported(ls).deleting = ls.deleting
        /\ Reported(ls).phase # "Expired"
    BY <1>1, <2>2 DEF Reported, LabSession
  <2>4. QED
    BY <1>5, <1>6, <1>14, <2>1, <2>3
<1>17. CASE MarkCapacity
  <2> DEFINE a == [ls EXCEPT !.capacityReady = TRUE]
  <2>1. /\ a \in LabSession /\ a.exists = ls.exists /\ a.due = ls.due
        /\ a.deleting = ls.deleting /\ a.phase = ls.phase
    BY <1>1 DEF LabSession
  <2>2. Patch(a) /\ UNCHANGED passed
    BY <1>17 DEF MarkCapacity
  <2> HIDE DEF a
  <2>3. QED
    BY <1>6, <2>1, <2>2
<1>18. CASE Pause \/ Resume \/ Expire
  <2>1. labsession.exists /\ UNCHANGED passed
    BY <1>18 DEF Pause, Resume, Expire, Request
  <2>2. \/ labsession' = [labsession EXCEPT !.paused = TRUE]
        \/ labsession' = [labsession EXCEPT !.paused = FALSE]
        \/ labsession' = [labsession EXCEPT !.due = TRUE]
    BY <1>18 DEF Pause, Resume, Expire, Request, Write
  <2>3. /\ labsession'.exists /\ labsession'.phase = labsession.phase
        /\ labsession.due => labsession'.due
        /\ labsession.deleting => labsession'.deleting
    BY <1>1, <2>1, <2>2 DEF LabSession
  <2>4. QED
    BY <1>7, <2>1, <2>3
<1>19. CASE Delete
  <2>1. labsession.exists /\ UNCHANGED passed
    BY <1>19 DEF Delete, Request
  <2>2. labsession' = IF labsession.finalizer THEN [labsession EXCEPT !.deleting = TRUE]
                                              ELSE NoSession
    BY <1>19 DEF Delete, Request, Write
  <2>3. CASE labsession.finalizer
    <3>1. /\ labsession'.exists /\ labsession'.phase = labsession.phase
          /\ labsession'.due = labsession.due /\ labsession'.deleting
      BY <1>1, <2>1, <2>2, <2>3 DEF LabSession
    <3>2. QED
      BY <1>7, <2>1, <3>1
  <2>4. CASE ~labsession.finalizer
    BY <1>8, <2>2, <2>4 DEF LetGoInv, NothingUnguarded
  <2>5. QED
    BY <2>3, <2>4
<1>20. CASE TTLPasses
  <2>1. passed' /\ UNCHANGED labsession
    BY <1>20 DEF TTLPasses
  <2>2. Verdict' = Verdict \/ (Verdict = "open" /\ Verdict' = "closing")
    BY <2>1 DEF Verdict, Expired
  <2>3. QED
    BY <1>3, <1>4, <2>2, LifecycleForms
<1>21. QED
  BY <1>9, <1>10, <1>11, <1>12, <1>13, <1>15, <1>16, <1>17, <1>18, <1>19, <1>20

\* Every step of the operator is one of the abstract specification, or none.
LEMMA StepRefines ==
  ASSUME TypeOK, EndingInv, LetGoInv, [Next]_vars
  PROVE  LifecycleStep
<1>1. CASE UNCHANGED vars \/ Finished
  <2>1. Verdict' = Verdict /\ Holds' = Holds
    BY <1>1, HoldsForms DEF Finished, vars, cluster, world, Verdict, Expired
  <2>2. QED
    BY <2>1, LifecycleForms
<1>2. CASE Reconcile \/ Failure \/ Watch \/ Resync \/ TimerFires \/ Restart
  BY <1>2, ClusterRefines DEF Failure
<1>3. CASE Call
  BY <1>3, ClusterRefines, SessionRefines DEF Call, Teardown, Converge, PatchLabSession
<1>4. CASE Environment
  BY <1>4, ClusterRefines, SessionRefines DEF Environment
<1>5. QED
  BY <1>1, <1>2, <1>3, <1>4 DEF Next

\* The operator implements SessionLifecycle, whatever lags, fails or restarts: the disk
\* goes last and only when the session has ended, and over is over.
THEOREM LifecycleImplemented == Spec => ImplementsLifecycle
<1>1. Init => Lifecycle!Init
  <2> SUFFICES ASSUME Init PROVE Verdict = "open" /\ Holds = {}
    BY DEF Lifecycle!Init
  <2>1. Verdict = "open"
    BY DEF Init, Verdict, Expired, Created, NoSession
  <2>2. ~HasCompute /\ ~HasExposure /\ ~HasDisk
    BY DEF Init, HasCompute, HasExposure, HasDisk, LetGo
  <2>3. QED
    BY <2>1, <2>2 DEF Holds
<1>2. TypeOK /\ EndingInv /\ LetGoInv /\ [Next]_vars => [Lifecycle!Next]_(Lifecycle!vars)
  BY StepRefines DEF LifecycleStep
<1>3. QED
  BY <1>1, <1>2, TypeCorrect, EndingIsInvariant, LetGoIsInvariant, PTL
  DEF Spec, ImplementsLifecycle, Lifecycle!Spec

-----------------------------------------------------------------------------
(* What the abstract specification promises is so of the operator.         *)

OverHolds == Verdict \in {"Expired", "gone"} => Holds = {}

\* A session reported as Expired, or deleted, holds no compute, exposure or disk, and at
\* no later moment acquires any: a reconciliation that began before the end creates nothing
\* after it.
THEOREM OverHoldsNothing == Spec => []OverHolds
<1> USE DEF OverHolds
<1>1. Lifecycle!Init => OverHolds
  BY DEF Lifecycle!Init
<1>2. ASSUME OverHolds, [Lifecycle!Next]_(Lifecycle!vars) PROVE OverHolds'
  <2>1. CASE UNCHANGED Lifecycle!vars
    BY <1>2, <2>1 DEF Lifecycle!vars
  <2>2. CASE Lifecycle!Next
    BY <1>2, <2>2 DEF Lifecycle!Next, Lifecycle!Acquire, Lifecycle!Release, Lifecycle!DropDisk,
       Lifecycle!Close, Lifecycle!Report, Lifecycle!Over
  <2>3. QED
    BY <1>2, <2>1, <2>2
<1>3. QED
  BY <1>1, <1>2, LifecycleImplemented, PTL DEF ImplementsLifecycle, Lifecycle!Spec

\* A step neither takes back an end nor gives up the disk before everything else.
EndsInOrder ==
    /\ Verdict = "gone" => Verdict' = "gone"
    /\ Verdict = "Expired" => Verdict' \in {"Expired", "gone"}
    /\ Verdict = "closing" => Verdict' # "open"
    /\ "disk" \in Holds \ Holds' => Verdict = "closing" /\ Holds = {"disk"}

\* Once decided the end of a session stands, whatever is patched from a copy read before
\* it, and what the learner has on the disk is dropped only for a session at its end whose
\* VM, exposure and bootstrap Pod are down: never by a pause, a failure or a restart.
THEOREM SessionsEndInOrder == Spec => [][EndsInOrder]_vars
<1>1. ASSUME LifecycleStep PROVE EndsInOrder
  <2>1. CASE UNCHANGED Lifecycle!vars
    BY <2>1 DEF Lifecycle!vars, EndsInOrder
  <2>2. CASE Lifecycle!Acquire
    BY <2>2 DEF Lifecycle!Acquire, EndsInOrder
  <2>3. CASE Lifecycle!Release
    BY <2>3 DEF Lifecycle!Release, Lifecycle!Transient, EndsInOrder
  <2>4. CASE Lifecycle!DropDisk \/ Lifecycle!Close \/ Lifecycle!Report
    BY <2>4 DEF Lifecycle!DropDisk, Lifecycle!Close, Lifecycle!Report, EndsInOrder
  <2>5. QED
    BY <1>1, <2>1, <2>2, <2>3, <2>4 DEF LifecycleStep, Lifecycle!Next
<1>2. TypeOK /\ EndingInv /\ LetGoInv /\ [Next]_vars => EndsInOrder
  BY <1>1, StepRefines
<1>3. QED
  BY <1>2, TypeCorrect, EndingIsInvariant, LetGoIsInvariant, PTL DEF Spec
=============================================================================
