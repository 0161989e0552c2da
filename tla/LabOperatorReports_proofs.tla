----------------------- MODULE LabOperatorReports_proofs -----------------------
(***************************************************************************)
(* Proofs about what LabOperator reports while a session is alive: once    *)
(* everything has been observed, Ready is backed by a VM and its objects;  *)
(* and, as long as nobody resumes, Paused means that the VM is deleted.    *)
(* Both rest on what a reconciliation's copy of the LabSession is worth.   *)
(***************************************************************************)
EXTENDS LabOperator_proofs, SequenceTheorems

\* The versions lead from the informer's copy to the session as it is.
VersionsFollow ==
    /\ events = <<>> => cache = labsession
    /\ events # <<>> => events[Len(events)] = labsession

\* A reconciliation works on the last version there is, unless a newer one is
\* on its way or has put the key back into the queue.
CopyIsFresh ==
    step # "idle" /\ ~queued /\ events = <<>> => ls = labsession

\* What is gone is gone with all its fields, and only a finalizer keeps what is
\* being deleted.
AbsenceIsPlain ==
    /\ ~labsession.exists => labsession = NoSession
    /\ labsession.deleting => labsession.finalizer

CopyInv == VersionsFollow /\ CopyIsFresh /\ AbsenceIsPlain

\* A step leaves the versions alone, adds one, hands one over or lists them again.
LEMMA VersionsMove ==
  ASSUME TypeOK, VersionsFollow,
         \/ UNCHANGED <<labsession, cache, events>>
         \/ UNCHANGED cache /\ \E v \in LabSession : Write(v)
         \/ UNCHANGED labsession /\ cache' = labsession /\ events' = <<>>
  PROVE  VersionsFollow'
<1>1. events \in Seq(LabSession)
  BY DEF TypeOK
<1>2. CASE UNCHANGED <<labsession, cache, events>>
  BY <1>2 DEF VersionsFollow
<1>3. CASE UNCHANGED labsession /\ cache' = labsession /\ events' = <<>>
  BY <1>3 DEF VersionsFollow
<1>4. CASE UNCHANGED cache /\ \E v \in LabSession : Write(v)
  <2>1. PICK v \in LabSession : Write(v)
    BY <1>4
  <2>2. CASE v = labsession /\ events' = events
    BY <1>4, <2>1, <2>2 DEF Write, VersionsFollow
  <2>3. CASE events' = Append(events, v)
    <3>1. events' # <<>> /\ events'[Len(events')] = v
      BY <1>1, <2>3
    <3>2. QED
      BY <2>1, <3>1 DEF Write, VersionsFollow
  <2>4. QED
    BY <2>1, <2>2, <2>3 DEF Write
<1>5. QED
  BY <1>2, <1>3, <1>4

\* What a patch writes, when it is a session at all.
LEMMA PatchWrites ==
  ASSUME TypeOK, NEW a \in LabSession, Patch(a)
  PROVE  \E v \in LabSession : Write(v)
BY MergePatchFields DEF Patch, TypeOK

\* What the steps of the worker and the requests do to the session: nothing, a patch
\* of the status or of the annotation, a field of its own, or its end.
WriteForm ==
    \/ UNCHANGED <<labsession, events>>
    \/ /\ labsession.exists
       /\ \E v \in LabSession :
             /\ Write(v)
             /\ \/ v = NoSession
                \/ /\ v.exists
                   /\ labsession.finalizer => v.finalizer
                   /\ v.deleting => v.finalizer

\* A patch that leaves existence, finalizer and deletion alone has that form.
LEMMA PatchForms ==
  ASSUME TypeOK, AbsenceIsPlain, NEW a \in LabSession, Patch(a),
         a.exists = ls.exists, a.finalizer = ls.finalizer, a.deleting = ls.deleting
  PROVE  WriteForm
<1> DEFINE v == MergePatch(labsession, ls, a)
<1>1. /\ v \in LabSession /\ v.exists = labsession.exists
      /\ v.finalizer = labsession.finalizer /\ v.deleting = labsession.deleting
  BY MergePatchFields DEF TypeOK
<1>2. labsession.exists /\ Write(v)
  BY DEF Patch
<1> HIDE DEF v
<1>3. QED
  BY <1>1, <1>2 DEF WriteForm, AbsenceIsPlain

\* Every copy that the reconciliation patches from keeps those fields: the one
\* it reports a result in,
LEMMA ReportedFields ==
  ASSUME NEW v \in LabSession, result \in Results
  PROVE  /\ Reported(v) \in LabSession /\ Reported(v).exists = v.exists
         /\ Reported(v).finalizer = v.finalizer /\ Reported(v).deleting = v.deleting
         /\ Reported(v).paused = v.paused
<1>1. HasAddress(result) \in BOOLEAN /\ result \in Phases
  BY DEF HasAddress, Results, Phases
<1>2. Reported(v) \in LabSession
  BY <1>1 DEF Reported, LabSession
<1>3. QED
  BY <1>2 DEF Reported, LabSession

\* and all of them.
LEMMA PatchedCopies ==
  ASSUME NEW v \in LabSession, result \in Results
  PROVE  \A a \in {Paused(v), ExpiredStatus(v), Reported(v),
                   [v EXCEPT !.capacityReady = TRUE], [v EXCEPT !.capacityReady = FALSE],
                   [v EXCEPT !.phase = "Provisioning"]} :
            /\ a \in LabSession /\ a.exists = v.exists
            /\ a.finalizer = v.finalizer /\ a.deleting = v.deleting
            /\ a.paused = v.paused
<1> DEFINE C(a) == /\ a \in LabSession /\ a.exists = v.exists
                   /\ a.finalizer = v.finalizer /\ a.deleting = v.deleting
                   /\ a.paused = v.paused
<1>1. C(Paused(v))
  BY PausedFields
<1>2. C(ExpiredStatus(v))
  BY ExpiredFields
<1>3. C(Reported(v))
  BY ReportedFields
<1>4. /\ C([v EXCEPT !.capacityReady = TRUE]) /\ C([v EXCEPT !.capacityReady = FALSE])
      /\ C([v EXCEPT !.phase = "Provisioning"])
  BY SessionFields DEF SameSession
<1> HIDE DEF C
<1>5. \A a \in {Paused(v), ExpiredStatus(v), Reported(v),
               [v EXCEPT !.capacityReady = TRUE], [v EXCEPT !.capacityReady = FALSE],
               [v EXCEPT !.phase = "Provisioning"]} : C(a)
  BY <1>1, <1>2, <1>3, <1>4
<1>6. QED
  BY <1>5 DEF C

\* Every call of the worker writes in that form.
LEMMA CallForms ==
  ASSUME TypeOK, AbsenceIsPlain, Call \/ Failure
  PROVE  WriteForm
<1> USE DEF cluster, queue, worker, world, bounds
<1>1. ls \in LabSession /\ labsession \in LabSession /\ result \in Results
  BY DEF TypeOK
<1>2. ASSUME NEW a \in {Paused(ls), ExpiredStatus(ls), Reported(ls),
                 [ls EXCEPT !.capacityReady = TRUE], [ls EXCEPT !.capacityReady = FALSE],
                 [ls EXCEPT !.phase = "Provisioning"]},
             Patch(a)
      PROVE  WriteForm
  BY <1>1, <1>2, PatchedCopies, PatchForms
<1>3. CASE TeardownCompute \/ TeardownDisk \/ Bootstrap \/ Ensure \/ EnsureConflicts
           \/ Observe \/ Failure
  BY <1>3 DEF TeardownCompute, TeardownComputeFails, DeleteCompute, TeardownDisk, Bootstrap,
              Ensure, EnsureConflicts, EnsureFails, EnsureObjects, Observe, Failure, CallFails,
              WriteForm
<1>4. CASE ClearCapacity
  BY <1>2, <1>4 DEF ClearCapacity, WriteForm
<1>5. CASE ConfirmStopped
  BY <1>2, <1>5 DEF ConfirmStopped, WriteForm
<1>6. CASE MarkCapacity
  BY <1>2, <1>6 DEF MarkCapacity
<1>7. CASE PatchExpired \/ PatchResumed \/ PatchStatus
  BY <1>2, <1>7 DEF PatchExpired, PatchResumed, PatchStatus, WriteForm
<1>8. CASE AddFinalizer
  <2> DEFINE v == [labsession EXCEPT !.finalizer = TRUE]
  <2>1. v \in LabSession /\ v.exists = labsession.exists /\ v.finalizer
    <3>1. v \in LabSession
      BY <1>1, SessionValues
    <3>2. QED
      BY <1>1, <3>1 DEF LabSession
  <2>2. \/ labsession.exists /\ Write(v)
        \/ UNCHANGED <<labsession, events>>
    BY <1>8 DEF AddFinalizer
  <2> HIDE DEF v
  <2>3. QED
    BY <2>1, <2>2 DEF WriteForm
<1>9. CASE RemoveFinalizer
  BY <1>9, SessionValues DEF RemoveFinalizer, WriteForm
<1>10. QED
  BY <1>3, <1>4, <1>5, <1>6, <1>7, <1>8, <1>9
  DEF Call, Teardown, Converge, PatchLabSession

\* So does everything around the worker.
LEMMA EnvironmentForms ==
  ASSUME TypeOK, AbsenceIsPlain, Environment
  PROVE  WriteForm /\ UNCHANGED cache
<1> USE DEF cluster, queue, worker, world, bounds
<1>1. labsession \in LabSession
  BY DEF TypeOK
<1>2. ASSUME NEW kind, NEW v \in LabSession, Request(kind, v),
             \/ v = NoSession
             \/ /\ v.exists = labsession.exists
                /\ labsession.finalizer => v.finalizer
                /\ v.deleting => v.finalizer
      PROVE  WriteForm /\ UNCHANGED cache
  BY <1>2 DEF Request, WriteForm
<1>3. CASE Pause
  <2> DEFINE v == [labsession EXCEPT !.paused = TRUE]
  <2>1. /\ v \in LabSession /\ v.exists = labsession.exists
        /\ v.finalizer = labsession.finalizer /\ v.deleting = labsession.deleting
    BY <1>1 DEF LabSession
  <2>2. Request("pause", v)
    BY <1>3 DEF Pause
  <2> HIDE DEF v
  <2>3. QED
    BY <1>2, <2>1, <2>2 DEF AbsenceIsPlain
<1>4. CASE Resume
  <2> DEFINE v == [labsession EXCEPT !.paused = FALSE]
  <2>1. /\ v \in LabSession /\ v.exists = labsession.exists
        /\ v.finalizer = labsession.finalizer /\ v.deleting = labsession.deleting
    BY <1>1 DEF LabSession
  <2>2. Request("resume", v)
    BY <1>4 DEF Resume
  <2> HIDE DEF v
  <2>3. QED
    BY <1>2, <2>1, <2>2 DEF AbsenceIsPlain
<1>5. CASE Expire
  <2> DEFINE v == [labsession EXCEPT !.due = TRUE]
  <2>1. /\ v \in LabSession /\ v.exists = labsession.exists
        /\ v.finalizer = labsession.finalizer /\ v.deleting = labsession.deleting
    BY <1>1 DEF LabSession
  <2>2. Request("expire", v)
    BY <1>5 DEF Expire
  <2> HIDE DEF v
  <2>3. QED
    BY <1>2, <2>1, <2>2 DEF AbsenceIsPlain
<1>6. CASE Delete
  <2> DEFINE v == IF labsession.finalizer THEN [labsession EXCEPT !.deleting = TRUE]
                                          ELSE NoSession
  <2>1. /\ v \in LabSession
        /\ \/ v = NoSession
           \/ v.exists = labsession.exists /\ labsession.finalizer /\ v.finalizer
    BY <1>1, SessionValues DEF LabSession
  <2>2. Request("delete", v)
    BY <1>6 DEF Delete
  <2> HIDE DEF v
  <2>3. QED
    BY <1>2, <2>1, <2>2
<1>7. CASE TTLPasses \/ VMIStarts \/ VMIFails \/ VMIGone \/ GuestBoots \/ PodReady
           \/ PodGone \/ GarbageCollect
  BY <1>7 DEF TTLPasses, VMIStarts, VMIFails, VMIGone, GuestBoots, VMIBecomes, PodReady,
              PodGone, PodBecomes, GarbageCollect, WriteForm
<1>8. QED
  BY <1>3, <1>4, <1>5, <1>6, <1>7 DEF Environment

-----------------------------------------------------------------------------
(* The copy of a reconciliation is as fresh as the informer's.             *)

\* A step that writes in that form keeps what is absent plain.
LEMMA AbsenceKept ==
  ASSUME TypeOK, AbsenceIsPlain, WriteForm
  PROVE  AbsenceIsPlain'
<1>1. CASE UNCHANGED <<labsession, events>>
  BY <1>1 DEF AbsenceIsPlain
<1>2. CASE \E v \in LabSession :
             /\ Write(v)
             /\ v = NoSession \/ (v.exists /\ (v.deleting => v.finalizer))
  BY <1>2 DEF AbsenceIsPlain, Write, NoSession
<1>3. QED
  BY <1>1, <1>2 DEF WriteForm

\* A write without a watch event left the session as it was.
LEMMA QuietWrite ==
  ASSUME TypeOK, WriteForm, events' = <<>>
  PROVE  events = <<>> /\ labsession' = labsession
<1>1. events \in Seq(LabSession)
  BY DEF TypeOK
<1>2. \A v \in LabSession : Append(events, v) # <<>>
  <2>1. \A v \in LabSession : Len(Append(events, v)) = Len(events) + 1 /\ Len(events) \in Nat
    BY <1>1
  <2>2. Len(<<>>) = 0
    BY EmptySeq
  <2>3. ASSUME NEW v \in LabSession, Append(events, v) = <<>> PROVE FALSE
    <3>1. Len(Append(events, v)) = 0
      BY <2>2, <2>3, Zenon
    <3>2. QED
      BY <2>1, <3>1
  <2>4. QED
    BY <2>3
<1>3. QED
  BY <1>2 DEF WriteForm, Write

\* Where a reconciliation stands after a step: at its end, told to come again, on the
\* newest version, or where it stood.
CopyForm ==
    \/ step' = "idle"
    \/ queued'
    \/ ls' = labsession'
    \/ UNCHANGED <<step, queued, ls>>
    \/ step # "idle" /\ UNCHANGED <<queued, ls>>
    \/ step = "idle" /\ ls' = cache /\ UNCHANGED <<labsession, cache, events>>

\* Every step is one of those.
LEMMA CopyForms ==
  ASSUME TypeOK, [Next]_vars
  PROVE  CopyForm
<1> USE DEF cluster, queue, worker, world, bounds
<1>1. CASE UNCHANGED vars \/ Finished
  BY <1>1 DEF vars, Finished, CopyForm
<1>2. CASE Reconcile
  BY <1>2 DEF Reconcile, BeginNothing, BeginDeletion, BeginFinalizer, BeginExpiry, BeginPause,
              BeginResume, BeginConverge, BeginMisconfigured, Begin, CopyForm
<1>3. CASE Teardown
  BY <1>3 DEF Teardown, TeardownCompute, ClearCapacity, ConfirmStopped, TeardownDisk, Goto,
              Return, Idle, CopyForm
<1>4. CASE Converge
  BY <1>4 DEF Converge, Bootstrap, MarkCapacity, Ensure, EnsureConflicts, Observe, Report, Goto,
              Abort, CopyForm
<1>5. CASE Failure
  BY <1>5 DEF Failure, CallFails, TeardownComputeFails, EnsureFails, Abort, CopyForm
<1>6. CASE PatchLabSession
  BY <1>6 DEF PatchLabSession, AddFinalizer, RemoveFinalizer, PatchExpired, PatchResumed,
              PatchStatus, Return, Abort, Idle, CopyForm
<1>7. CASE Watch \/ Resync \/ TimerFires \/ Restart
  BY <1>7 DEF Watch, ObserveSession, ObserveVMI, ObservePod, ObserveObject, Resync, TimerFires,
              Restart, Enqueue, Idle, CopyForm
<1>8. CASE Environment
  BY <1>8 DEF Environment, Pause, Resume, Expire, Delete, Request, TTLPasses, VMIStarts, VMIFails,
              VMIGone, GuestBoots, VMIBecomes, PodReady, PodGone, PodBecomes, GarbageCollect,
              CopyForm
<1>9. QED
  BY <1>1, <1>2, <1>3, <1>4, <1>5, <1>6, <1>7, <1>8 DEF Next, Call

\* What a step does to the versions: it writes in that form, or it moves them along.
LEMMA StepForms ==
  ASSUME TypeOK, AbsenceIsPlain, [Next]_vars
  PROVE  \/ UNCHANGED cache /\ WriteForm
         \/ ObserveSession
         \/ Restart
<1> USE DEF cluster, queue, worker, world, bounds
<1>1. CASE UNCHANGED vars \/ Finished
  BY <1>1 DEF vars, Finished, WriteForm
<1>2. CASE Reconcile
  BY <1>2 DEF Reconcile, BeginNothing, BeginDeletion, BeginFinalizer, BeginExpiry, BeginPause,
              BeginResume, BeginConverge, BeginMisconfigured, Begin, WriteForm
<1>3. CASE Call \/ Failure
  <2>1. UNCHANGED cache
    BY <1>3 DEF Call, Teardown, TeardownCompute, ClearCapacity, ConfirmStopped, TeardownDisk,
                Converge, Bootstrap, MarkCapacity, Ensure, EnsureConflicts, Observe, Failure,
                CallFails, TeardownComputeFails, EnsureFails, EnsureObjects, DeleteCompute,
                PatchLabSession, AddFinalizer, RemoveFinalizer, PatchExpired, PatchResumed,
                PatchStatus
  <2>2. QED
    BY <1>3, <2>1, CallForms
<1>4. CASE \/ ObserveVMI \/ ObservePod \/ Resync \/ TimerFires
           \/ \E o \in Lagging : ObserveObject(o)
  BY <1>4 DEF ObserveVMI, ObservePod, ObserveObject, Resync, TimerFires, WriteForm
<1>5. CASE Environment
  BY <1>5, EnvironmentForms
<1>6. QED
  BY <1>1, <1>2, <1>3, <1>4, <1>5 DEF Next, Watch

\* The versions on their way end in the session as it is, and the copy of a reconciliation
\* is that session when none is on its way and the key is not back in the queue.
THEOREM CopyIsInvariant == Spec => []CopyInv
<1>1. Init => CopyInv
  BY DEF Init, CopyInv, VersionsFollow, CopyIsFresh, AbsenceIsPlain, NoSession, Created
<1>2. TypeOK /\ CopyInv /\ [Next]_vars => CopyInv'
  <2> SUFFICES ASSUME TypeOK, CopyInv, [Next]_vars PROVE CopyInv'
    OBVIOUS
  <2>1. events \in Seq(LabSession) /\ labsession \in LabSession
    BY DEF TypeOK
  <2>2. CASE UNCHANGED cache /\ WriteForm
    <3>1. VersionsFollow' /\ AbsenceIsPlain'
      BY <2>2, AbsenceKept, VersionsMove DEF CopyInv, WriteForm
    <3>2. ASSUME events' = <<>>, ~queued', step' # "idle" PROVE ls' = labsession'
      BY <2>2, <3>2, CopyForms, QuietWrite DEF CopyInv, CopyForm, CopyIsFresh, VersionsFollow
    <3>3. QED
      BY <3>1, <3>2 DEF CopyInv, CopyIsFresh
  <2>3. CASE ObserveSession
    <3>1. /\ events # <<>> /\ cache' = Head(events) /\ events' = Tail(events)
          /\ queued' /\ labsession' = labsession
      BY <2>3 DEF ObserveSession, Enqueue
    <3>2. Len(events) \in Nat \ {0} /\ events[Len(events)] = labsession
      BY <2>1, <3>1, EmptySeq DEF CopyInv, VersionsFollow
    <3>3. /\ Tail(events) \in Seq(LabSession) /\ Len(Tail(events)) = Len(events) - 1
          /\ \A i \in 1..Len(Tail(events)) : Tail(events)[i] = events[i + 1]
      BY <2>1, <3>1, HeadTailProperties
    <3>4. ASSUME Tail(events) # <<>>
          PROVE  Tail(events)[Len(Tail(events))] = events[Len(events)]
      <4>1. Len(Tail(events)) \in Nat \ {0}
        BY <3>3, <3>4, EmptySeq
      <4>2. QED
        BY <3>2, <3>3, <4>1
    <3>5. (Len(Tail(events)) = 0 => Len(events) = 1) /\ Head(events) = events[1]
      BY <2>1, <3>2, <3>3
    <3>6. Tail(events) = <<>> => Head(events) = events[Len(events)]
      BY <3>5, EmptySeq, Zenon
    <3>7. VersionsFollow'
      BY <3>1, <3>2, <3>4, <3>6, Zenon DEF VersionsFollow
    <3>8. QED
      BY <3>1, <3>7 DEF CopyInv, CopyIsFresh, AbsenceIsPlain
  <2>4. CASE Restart
    BY <2>4 DEF Restart, Idle, CopyInv, VersionsFollow, CopyIsFresh, AbsenceIsPlain
  <2>5. QED
    BY <2>2, <2>3, <2>4, StepForms DEF CopyInv
<1>3. QED
  BY <1>1, <1>2, TypeCorrect, PTL DEF Spec

-----------------------------------------------------------------------------
(* Why a Ready session is backed once everything has been observed.        *)

FinalizerIsMissing == step = "addFinalizer" => ~ls.finalizer

\* Somebody is still going to look at the session.
Attended == queued \/ timer = "short" \/ events # <<>>

\* What does not exist is shown by a stale copy, so that its deletion has yet to be seen.
Held == objects \cup objectsSeen = Objects

Backed == labsession.dns /\ Held /\ vmiSeen \in {"running", "deleting"}

\* A reconciliation that reports has ensured every object, as far as the copies show, and
\* no teardown runs; when a copy changes, the key is queued again.
EnsuredHeld ==
    step = "observe" \/ (step = "patchStatus" /\ result = "Ready")
        => Held \/ queued \/ ~labsession.exists

\* It has seen a VM run; when that changes, the key is queued again.
ReadySeen ==
    step = "patchStatus" /\ result = "Ready" => queued \/ vmiSeen \in {"running", "deleting"}

ReadyBacked == labsession.phase = "Ready" /\ step = "idle" => Attended \/ Backed

ReadyInv == FinalizerIsMissing /\ EnsuredHeld /\ ReadySeen /\ ReadyBacked

\* A patch that changes nothing says what the session says already.
LEMMA QuietPatch ==
  ASSUME TypeOK, CopyInv, NEW a \in LabSession, Patch(a),
         step # "idle", ~queued, events' = <<>>, WriteForm
  PROVE  /\ labsession' = labsession /\ ls = labsession
         /\ labsession.phase = a.phase /\ labsession.dns = a.dns
<1>1. events = <<>> /\ labsession' = labsession
  BY QuietWrite
<1>2. ls = labsession
  BY <1>1 DEF CopyInv, CopyIsFresh
<1>3. labsession' = MergePatch(labsession, ls, a)
  BY DEF Patch, Write
<1>4. /\ labsession'.phase = IF a.phase # ls.phase THEN a.phase ELSE labsession.phase
      /\ labsession'.dns = IF a.dns # ls.dns THEN a.dns ELSE labsession.dns
  BY <1>3, MergePatchFields DEF TypeOK
<1>5. QED
  BY <1>1, <1>2, <1>4

\* A session that is gone has no phase.
LEMMA GoneIsNew ==
  ASSUME AbsenceIsPlain
  PROVE  ~labsession.exists => labsession.phase = "New" /\ ~labsession.finalizer
BY DEF AbsenceIsPlain, NoSession

\* Taking a key: what needs no work is not reported as Ready.
LEMMA ReconcileReady ==
  ASSUME TypeOK, CopyInv, ReadyInv, Reconcile
  PROVE  ReadyInv'
<1> USE DEF ReadyInv, vars, cluster, queue, worker, world, bounds
<1>1. ASSUME NEW s, NEW g, Begin(s, g), s \notin {"idle", "observe", "patchStatus"},
             s = "addFinalizer" => ~cache.finalizer
      PROVE  ReadyInv'
  <2>1. step' = s /\ ls' = cache
    BY <1>1 DEF Begin
  <2>2. QED
    BY <1>1, <2>1 DEF FinalizerIsMissing, EnsuredHeld, ReadySeen, ReadyBacked
<1>2. CASE BeginNothing
  <2>1. /\ UNCHANGED <<timer, labsession, cache, events, cluster, worker>>
        /\ step = "idle"
    BY <1>2 DEF BeginNothing
  <2>2. ASSUME events = <<>>, labsession.phase = "Ready" PROVE FALSE
    <3>1. cache = labsession
      BY <2>2 DEF CopyInv, VersionsFollow
    <3>2. QED
      BY <1>2, <2>2, <3>1, GoneIsNew DEF BeginNothing, CopyInv, AbsenceIsPlain
  <2>3. QED
    BY <2>1, <2>2 DEF FinalizerIsMissing, EnsuredHeld, ReadySeen, ReadyBacked, Attended
<1>3. CASE BeginDeletion \/ BeginFinalizer \/ BeginExpiry \/ BeginPause \/ BeginResume
  BY <1>1, <1>3 DEF BeginDeletion, BeginFinalizer, BeginExpiry, BeginPause, BeginResume
<1>4. CASE BeginConverge
  <2>1. PICK s \in {"ensure", "bootstrap"} : Begin(s, "none")
    BY <1>4 DEF BeginConverge
  <2>2. QED
    BY <1>1, <2>1
<1>5. CASE BeginMisconfigured
  <2>1. step' = "patchStatus" /\ result' = "Failed"
    BY <1>5 DEF BeginMisconfigured
  <2>2. QED
    BY <2>1 DEF FinalizerIsMissing, EnsuredHeld, ReadySeen, ReadyBacked
<1>6. QED
  BY <1>2, <1>3, <1>4, <1>5 DEF Reconcile

\* A reconciliation that ends with the key queued, or to come again soon, owes nothing.
LEMMA EndedReady ==
  ASSUME step' = "idle", Attended' \/ (labsession'.phase = "Ready" => Backed')
  PROVE  ReadyInv'
BY DEF ReadyInv, FinalizerIsMissing, EnsuredHeld, ReadySeen, ReadyBacked

\* The calls of a reconciliation that do not end it.
LEMMA WorkReady ==
  ASSUME TypeOK, CopyInv, ReadyInv,
         \/ TeardownCompute \/ ClearCapacity \/ TeardownDisk
         \/ Bootstrap \/ MarkCapacity \/ Ensure \/ EnsureConflicts \/ Observe
         \/ Failure
  PROVE  ReadyInv'
<1> USE DEF cluster, queue, worker, world, bounds
<1>1. ASSUME step' \notin {"idle", "addFinalizer", "observe", "patchStatus"}
      PROVE  ReadyInv'
  BY <1>1 DEF ReadyInv, FinalizerIsMissing, EnsuredHeld, ReadySeen, ReadyBacked
<1>2. CASE TeardownCompute \/ ClearCapacity \/ TeardownDisk \/ MarkCapacity
  BY <1>1, <1>2 DEF TeardownCompute, ClearCapacity, TeardownDisk, MarkCapacity, Goto
<1>3. CASE EnsureConflicts \/ Failure
  <2>1. step' = "idle" /\ queued'
    BY <1>3 DEF EnsureConflicts, Failure, CallFails, TeardownComputeFails, EnsureFails,
                Abort, Idle
  <2>2. QED
    BY <2>1, EndedReady DEF Attended
<1>4. CASE Bootstrap
  <2>1. \/ step' = "patchStatus" /\ result' = "Provisioning"
        \/ step' = "markCapacity"
        \/ step' = "idle" /\ queued'
    BY <1>4 DEF Bootstrap, Report, Goto, Abort, Idle
  <2>2. QED
    BY <1>1, <2>1, EndedReady
    DEF Attended, ReadyInv, FinalizerIsMissing, EnsuredHeld, ReadySeen, ReadyBacked
<1>5. CASE Ensure
  <2>1. /\ step' = "observe" /\ objectsSeen' = objectsSeen
        /\ objects' = objects
              \cup (({SessionObjects[i] : i \in 1..5} \ InCaches) \ {"VMI"})
    BY <1>5 DEF Ensure, EnsureObjects, SessionObjects, Goto
  <2>2. {SessionObjects[i] : i \in 1..5} = Objects \cup {"VMI"} /\ "VMI" \notin Objects
    BY DEF SessionObjects, Objects
  <2>3. objects \subseteq Objects /\ objectsSeen \subseteq Objects
    BY BoundsAssumption DEF TypeOK, Objects
  <2>4. InCaches \cap Objects \subseteq objects \cup objectsSeen
    BY DEF InCaches, Objects
  <2>5. objects' \cup objectsSeen' = Objects
    BY <2>1, <2>2, <2>3, <2>4
  <2>6. QED
    BY <2>1, <2>5 DEF ReadyInv, FinalizerIsMissing, EnsuredHeld, ReadySeen, ReadyBacked, Held
<1>6. CASE Observe
  <2>1. step = "observe" /\ step' = "patchStatus" /\ result' \in ObservedPhases
        /\ UNCHANGED <<objects, objectsSeen, vmiSeen, labsession, queued>>
    BY <1>6 DEF Observe, Report
  <2>2. result' = "Ready" => vmiSeen \in {"running", "deleting"}
    BY <2>1 DEF ObservedPhases, TypeOK, VMIStates
  <2>3. QED
    BY <2>1, <2>2 DEF ReadyInv, FinalizerIsMissing, EnsuredHeld, ReadySeen, ReadyBacked, Held
<1>7. QED
  BY <1>2, <1>3, <1>4, <1>5, <1>6

\* The calls that end a reconciliation: either it is looked at again, or what was
\* reported is what the copy said, and the copy was the session.
LEMMA PatchReady ==
  ASSUME TypeOK, CopyInv, ReadyInv, ConfirmStopped \/ PatchLabSession
  PROVE  ReadyInv'
<1> USE DEF cluster, queue, worker, world, bounds
<1>1. /\ ls \in LabSession /\ result \in Results /\ AbsenceIsPlain
      /\ labsession \in LabSession
  BY DEF TypeOK, CopyInv
<1>2. WriteForm
  BY <1>1, CallForms DEF Call, Teardown
<1>3. step # "idle"
  BY DEF ConfirmStopped, PatchLabSession, AddFinalizer, RemoveFinalizer, PatchExpired,
         PatchResumed, PatchStatus
<1>4. ASSUME NEW a \in {Paused(ls), ExpiredStatus(ls)}, Patch(a), Return("none") \/ Idle,
             UNCHANGED queued
      PROVE  ReadyInv'
  <2>1. step' = "idle"
    BY <1>4 DEF Return, Idle
  <2>2. a \in LabSession /\ a.phase # "Ready"
    <3>1. /\ Paused(ls) \in LabSession /\ Paused(ls).phase = "Paused"
          /\ ExpiredStatus(ls) \in LabSession /\ ExpiredStatus(ls).phase = "Expired"
      BY <1>1, PausedFields, ExpiredFields
    <3>2. QED
      BY <1>4, <3>1
  <2>3. CASE ~Attended'
    BY <1>2, <1>3, <1>4, <2>1, <2>2, <2>3, QuietPatch, EndedReady DEF Attended
  <2>4. QED
    BY <2>1, <2>3, EndedReady
<1>5. ASSUME step' = "idle", queued' \/ timer' = "short"
      PROVE  ReadyInv'
  BY <1>5, EndedReady DEF Attended
<1>6. Earliest(timer, "short") = "short"
  BY DEF Earliest
<1>7. CASE ConfirmStopped
  BY <1>4, <1>5, <1>6, <1>7 DEF ConfirmStopped, Return, Idle, Goto, ReadyInv, FinalizerIsMissing,
                                EnsuredHeld, ReadySeen, ReadyBacked
<1>8. CASE PatchExpired
  BY <1>4, <1>8 DEF PatchExpired, Return
<1>9. CASE PatchResumed
  BY <1>5, <1>6, <1>9 DEF PatchResumed, Return, Idle
<1>10. CASE AddFinalizer
  <2>1. CASE ~(current /\ labsession.exists)
    BY <1>5, <1>10, <2>1 DEF AddFinalizer, Abort, Idle
  <2>2. CASE current /\ labsession.exists
    <3>1. /\ step = "addFinalizer" /\ step' = "idle" /\ UNCHANGED queued
          /\ labsession' = [labsession EXCEPT !.finalizer = TRUE]
      BY <1>10, <2>2 DEF AddFinalizer, Return, Idle, Write
    <3>2. CASE ~Attended'
      <4>1. ~queued /\ events = <<>> /\ labsession' = labsession
        BY <1>2, <3>1, <3>2, QuietWrite DEF Attended
      <4>2. labsession.finalizer
        BY <1>1, <3>1, <4>1 DEF LabSession
      <4>3. QED
        BY <3>1, <4>1, <4>2 DEF CopyInv, CopyIsFresh, ReadyInv, FinalizerIsMissing
    <3>3. QED
      BY <3>1, <3>2, EndedReady
  <2>3. QED
    BY <2>1, <2>2
<1>11. CASE RemoveFinalizer
  <2>1. CASE ~(current /\ labsession.exists)
    BY <1>5, <1>11, <2>1 DEF RemoveFinalizer, Abort, Idle
  <2>2. CASE current /\ labsession.exists
    BY <1>11, <2>2, EndedReady DEF RemoveFinalizer, Return, Idle, Write, NoSession
  <2>3. QED
    BY <2>1, <2>2
<1>12. CASE PatchStatus
  <2>1. CASE result # "Ready"
    BY <1>5, <1>6, <1>12, <2>1 DEF PatchStatus, Return, Idle
  <2>2. CASE result = "Ready"
    <3>1. /\ step = "patchStatus" /\ step' = "idle"
          /\ UNCHANGED <<queued, objects, objectsSeen, vmiSeen>>
          /\ \/ ls = Reported(ls) /\ UNCHANGED <<labsession, events>>
             \/ Patch(Reported(ls))
      BY <1>12 DEF PatchStatus, Return, Idle
    <3>2. Reported(ls) \in LabSession /\ Reported(ls).dns
      <4>1. Reported(ls) \in LabSession
        BY <1>1, PatchedCopies
      <4>2. QED
        BY <1>1, <2>2, <4>1 DEF Reported, HasAddress, LabSession
    <3>3. CASE ~Attended' /\ labsession'.phase = "Ready"
      <4>1. ~queued /\ events' = <<>>
        BY <3>1, <3>3 DEF Attended
      <4>2. labsession' = labsession /\ labsession.dns
        BY <1>2, <1>3, <3>1, <3>2, <4>1, QuietPatch DEF CopyInv, CopyIsFresh
      <4>3. labsession.exists
        BY <1>1, <3>3, <4>2, GoneIsNew
      <4>4. QED
        BY <2>2, <3>1, <4>1, <4>2, <4>3, EndedReady
        DEF ReadyInv, EnsuredHeld, ReadySeen, Backed, Held
    <3>4. QED
      BY <3>1, <3>3, EndedReady
  <2>3. QED
    BY <2>1, <2>2
<1>13. QED
  BY <1>7, <1>8, <1>9, <1>10, <1>11, <1>12 DEF PatchLabSession

\* Watches, timers and restarts put the key into the queue, or nothing has changed that a
\* reconciliation reads.
LEMMA ProcessReady ==
  ASSUME TypeOK, CopyInv, ReadyInv, Watch \/ Resync \/ TimerFires \/ Restart
  PROVE  ReadyInv'
<1> USE DEF cluster, queue, worker, world, bounds
<1>1. CASE \/ ObserveSession \/ ObserveVMI \/ Resync \/ TimerFires
           \/ \E o \in Lagging : ObserveObject(o)
  <2>1. queued' /\ UNCHANGED <<step, ls, result, labsession>>
    BY <1>1 DEF ObserveSession, ObserveVMI, ObserveObject, Resync, TimerFires, Enqueue
  <2>2. QED
    BY <2>1 DEF ReadyInv, FinalizerIsMissing, EnsuredHeld, ReadySeen, ReadyBacked, Attended
<1>2. CASE ObservePod
  BY <1>2 DEF ObservePod, ReadyInv, FinalizerIsMissing, EnsuredHeld, ReadySeen, ReadyBacked,
              Attended, Backed, Held
<1>3. CASE Restart
  <2>1. step' = "idle" /\ queued' = labsession.exists /\ labsession' = labsession
    BY <1>3 DEF Restart, Idle
  <2>2. QED
    BY <2>1, EndedReady, GoneIsNew DEF CopyInv, Attended
<1>4. QED
  BY <1>1, <1>2, <1>3 DEF Watch

\* A request is a version to be seen; the cluster collects nothing of a session that exists.
LEMMA EnvironmentReady ==
  ASSUME TypeOK, CopyInv, ReadyInv, Environment
  PROVE  ReadyInv'
<1> USE DEF cluster, queue, worker, world, bounds
<1>1. AbsenceIsPlain
  BY DEF CopyInv
<1>2. CASE Pause \/ Resume \/ Expire \/ Delete
  <2>1. /\ labsession' # labsession /\ labsession.exists
        /\ UNCHANGED <<step, ls, result, queued, timer, objects, objectsSeen, vmiSeen>>
    BY <1>2 DEF Pause, Resume, Expire, Delete, Request, Write
  <2>2. events' # <<>>
    BY <1>1, <1>2, <2>1, EnvironmentForms, QuietWrite DEF Environment
  <2>3. QED
    BY <2>1, <2>2 DEF ReadyInv, FinalizerIsMissing, EnsuredHeld, ReadySeen, ReadyBacked, Attended,
                      Held
<1>3. CASE TTLPasses \/ VMIStarts \/ VMIFails \/ VMIGone \/ GuestBoots \/ PodReady \/ PodGone
  <2>1. UNCHANGED <<step, ls, result, queued, timer, objects, objectsSeen, vmiSeen, labsession,
                    events>>
    BY <1>3 DEF TTLPasses, VMIStarts, VMIFails, VMIGone, GuestBoots, VMIBecomes, PodReady,
                PodGone, PodBecomes
  <2>2. QED
    BY <2>1 DEF ReadyInv, FinalizerIsMissing, EnsuredHeld, ReadySeen, ReadyBacked, Attended,
                Backed, Held
<1>4. CASE GarbageCollect
  <2>1. ~labsession.exists
        /\ UNCHANGED <<step, ls, result, queued, timer, vmiSeen, labsession, events>>
    BY <1>4 DEF GarbageCollect
  <2>2. QED
    BY <1>1, <2>1, GoneIsNew
    DEF ReadyInv, FinalizerIsMissing, EnsuredHeld, ReadySeen, ReadyBacked, Attended, Backed
<1>5. QED
  BY <1>2, <1>3, <1>4 DEF Environment

\* The invariant behind ReadyIsBacked is inductive.
THEOREM ReadyIsInvariant == Spec => []ReadyInv
<1>1. Init => ReadyInv
  BY DEF Init, ReadyInv, FinalizerIsMissing, EnsuredHeld, ReadySeen, ReadyBacked, Attended, Created,
         NoSession
<1>2. TypeOK /\ CopyInv /\ ReadyInv /\ [Next]_vars => ReadyInv'
  <2> SUFFICES ASSUME TypeOK, CopyInv, ReadyInv, [Next]_vars PROVE ReadyInv'
    OBVIOUS
  <2>1. CASE UNCHANGED vars
    BY <2>1 DEF vars, cluster, queue, worker, ReadyInv, FinalizerIsMissing, EnsuredHeld, ReadySeen,
                ReadyBacked, Attended, Backed, Held
  <2>2. CASE Finished
    BY <2>1, <2>2 DEF Finished
  <2>3. CASE Reconcile
    BY <2>3, ReconcileReady
  <2>4. CASE Call \/ Failure
    BY <2>4, WorkReady, PatchReady DEF Call, Teardown, Converge
  <2>5. CASE Watch \/ Resync \/ TimerFires \/ Restart
    BY <2>5, ProcessReady
  <2>6. CASE Environment
    BY <2>6, EnvironmentReady
  <2>7. QED
    BY <2>1, <2>2, <2>3, <2>4, <2>5, <2>6 DEF Next
<1>3. QED
  BY <1>1, <1>2, TypeCorrect, CopyIsInvariant, PTL DEF Spec

\* Once everything is observed, a session reported as Ready has its address, a running VM and
\* every object that VM needs, however many requests, failures and restarts came before.
THEOREM ReadyBackedWhenSettled == Spec => []ReadyIsBacked
<1>1. ReadyInv => ReadyIsBacked
  BY DEF ReadyInv, ReadyBacked, ReadyIsBacked, Settled, Attended, Backed, Held
<1>2. QED
  BY <1>1, ReadyIsInvariant, PTL

-----------------------------------------------------------------------------
(* Why nothing runs in a Paused session that nobody resumes.  The request  *)
(* to pause is then in every later version, so the copy a reconciliation   *)
(* begins from calls for no VM.                                            *)

\* A request to pause is not taken back in a later version.
PauseStays ==
    labsession.exists =>
        /\ \A i \in DOMAIN events : events[i].exists
        /\ cache.paused => labsession.paused /\ \A i \in DOMAIN events : events[i].paused
        /\ \A i \in DOMAIN events : events[i].paused =>
              labsession.paused /\ \A j \in DOMAIN events : i < j => events[j].paused

\* The informer has seen the request that a reconciliation acts on or has reported.
PauseIsKnown == labsession.phase = "Paused" \/ goal = "pause" => cache.paused

ConvergesUnpaused == step \in ConvergingSteps => labsession.phase # "Paused"

PauseInv == PauseStays /\ PauseIsKnown /\ ConvergesUnpaused /\ PausedIsLetGo

\* A write that adds no request to resume keeps the order of the versions.
LEMMA PauseWritten ==
  ASSUME TypeOK, PauseStays, NEW v \in LabSession, Write(v), UNCHANGED cache,
         labsession.exists, v.exists => (labsession.paused => v.paused)
  PROVE  PauseStays'
<1>1. labsession' = v /\ (events' = events \/ events' = Append(events, v))
  BY DEF Write
<1>2. CASE events' = events
  BY <1>1, <1>2 DEF PauseStays
<1>3. CASE events' = Append(events, v)
  <2>1. events \in Seq(LabSession)
    BY DEF TypeOK
  <2>2. /\ DOMAIN events' = 1..(Len(events) + 1) /\ DOMAIN events = 1..Len(events)
        /\ \A i \in DOMAIN events : events'[i] = events[i]
        /\ events'[Len(events) + 1] = v
    BY <1>3, <2>1
  <2> SUFFICES ASSUME v.exists PROVE PauseStays'
    BY <1>1 DEF PauseStays
  <2>3. \A i \in DOMAIN events' : events'[i].exists
    BY <2>1, <2>2 DEF PauseStays
  <2>4. cache'.paused => labsession'.paused /\ \A i \in DOMAIN events' : events'[i].paused
    BY <1>1, <2>1, <2>2 DEF PauseStays
  <2>5. ASSUME NEW i \in DOMAIN events', events'[i].paused
        PROVE  labsession'.paused /\ \A j \in DOMAIN events' : i < j => events'[j].paused
    BY <1>1, <2>1, <2>2, <2>5 DEF PauseStays
  <2>6. QED
    BY <2>3, <2>4, <2>5 DEF PauseStays
<1>4. QED
  BY <1>1, <1>2, <1>3

\* A patch carries no request, and no phase but its own.
LEMMA PausePatched ==
  ASSUME TypeOK, PauseStays, NEW a \in LabSession, Patch(a), UNCHANGED cache,
         a.exists = ls.exists, a.paused = ls.paused
  PROVE  /\ PauseStays'
         /\ labsession'.phase = IF a.phase # ls.phase THEN a.phase ELSE labsession.phase
<1> DEFINE v == MergePatch(labsession, ls, a)
<1>1. /\ v \in LabSession /\ v.paused = labsession.paused
      /\ v.phase = IF a.phase # ls.phase THEN a.phase ELSE labsession.phase
  BY MergePatchFields DEF TypeOK
<1>2. labsession.exists /\ Write(v) /\ labsession' = v
  BY DEF Patch, Write
<1> HIDE DEF v
<1>3. QED
  BY <1>1, <1>2, PauseWritten

\* A step that writes no version and creates nothing.
LEMMA PauseKept ==
  ASSUME PauseInv, UNCHANGED <<labsession, cache, events>>,
         goal' = "pause" => goal = "pause" \/ cache.paused,
         step' \in ConvergingSteps => step \in ConvergingSteps \/ labsession.phase # "Paused",
         LetGo => LetGo', objects' \subseteq objects,
         pod \in {"absent", "deleting"} => pod' \in {"absent", "deleting"}
  PROVE  PauseInv'
BY DEF PauseInv, PauseStays, PauseIsKnown, ConvergesUnpaused, PausedIsLetGo

\* A copy that calls for objects is one of a session not reported as Paused.
LEMMA ReconcilePause ==
  ASSUME TypeOK, PauseInv, Reconcile
  PROVE  PauseInv'
<1> USE DEF cluster, queue, worker, world, bounds
<1>1. ~cache.paused => labsession.phase # "Paused"
  BY DEF PauseInv, PauseIsKnown
<1>2. UNCHANGED <<labsession, cache, events, vmi, pod, objects>>
  BY DEF Reconcile, BeginNothing, BeginDeletion, BeginFinalizer, BeginExpiry, BeginPause,
         BeginResume, BeginConverge, BeginMisconfigured, Begin
<1>3. ASSUME NEW s, NEW g, Begin(s, g), g = "pause" => cache.paused,
             s \in ConvergingSteps => ~cache.paused
      PROVE  PauseInv'
  BY <1>1, <1>2, <1>3, PauseKept DEF Begin, LetGo
<1>4. CASE BeginNothing
  BY <1>2, <1>4, PauseKept DEF BeginNothing, LetGo
<1>5. CASE BeginDeletion \/ BeginFinalizer \/ BeginExpiry
  BY <1>3, <1>5 DEF BeginDeletion, BeginFinalizer, BeginExpiry, ConvergingSteps
<1>6. CASE BeginPause
  BY <1>3, <1>6 DEF BeginPause, Pausing, ConvergingSteps
<1>7. CASE BeginResume
  BY <1>3, <1>7 DEF BeginResume, Resuming
<1>8. ~Pausing(cache) /\ cache.phase # "Paused" => ~cache.paused
  BY DEF Pausing
<1>9. CASE BeginConverge
  BY <1>3, <1>8, <1>9 DEF BeginConverge
<1>10. CASE BeginMisconfigured
  BY <1>1, <1>2, <1>8, <1>10, PauseKept DEF BeginMisconfigured, LetGo
<1>11. QED
  BY <1>4, <1>5, <1>6, <1>7, <1>9, <1>10 DEF Reconcile

\* A teardown reports Paused when the compute is down, and only takes away.
LEMMA TeardownPause ==
  ASSUME TypeOK, EndingInv, PauseInv, Teardown \/ PatchExpired \/ TeardownComputeFails
  PROVE  PauseInv'
<1> USE DEF cluster, queue, worker, world, bounds
<1>1. ls \in LabSession /\ result \in Results /\ PauseStays
  BY DEF TypeOK, PauseInv
<1>2. ASSUME NEW n \in Nat, DeleteCompute(n), goal' = goal \/ goal' = "none",
             step' \notin ConvergingSteps
      PROVE  PauseInv'
  BY <1>2, PauseKept DEF DeleteCompute, LetGo, VMIDeleted, PodDeleted
<1>3. Len(ComputeObjects) = 4
  BY DEF ComputeObjects
<1>4. CASE TeardownCompute
  BY <1>2, <1>3, <1>4 DEF TeardownCompute, Goto, ConvergingSteps
<1>5. CASE TeardownComputeFails
  BY <1>2, <1>3, <1>5 DEF TeardownComputeFails, Abort, Idle, ConvergingSteps
<1>6. CASE TeardownDisk
  BY <1>6, PauseKept DEF TeardownDisk, Goto, LetGo, ConvergingSteps
<1>7. ASSUME NEW a \in {Paused(ls), ExpiredStatus(ls), [ls EXCEPT !.capacityReady = FALSE]},
             Patch(a), UNCHANGED <<cache, vmi, pod, objects>>,
             goal' = goal \/ goal' = "none", step' \notin ConvergingSteps,
             a.phase = "Paused" => ls.phase = "Paused" \/ (goal = "pause" /\ ComputeIsDown)
      PROVE  PauseInv'
  <2>1. a \in LabSession /\ a.exists = ls.exists /\ a.paused = ls.paused
    <3>1. CASE a = Paused(ls)
      BY <1>1, <3>1, PausedFields
    <3>2. CASE a = ExpiredStatus(ls)
      BY <1>1, <3>2, ExpiredFields
    <3>3. CASE a = [ls EXCEPT !.capacityReady = FALSE]
      BY <1>1, <3>3, SessionFields DEF SameSession
    <3>4. QED
      BY <1>7, <3>1, <3>2, <3>3
  <2>2. /\ PauseStays'
        /\ labsession'.phase = IF a.phase # ls.phase THEN a.phase ELSE labsession.phase
    BY <1>1, <1>7, <2>1, PausePatched
  <2>3. labsession'.phase = "Paused"
           => labsession.phase = "Paused" \/ (goal = "pause" /\ ComputeIsDown)
    BY <1>7, <2>2
  <2>4. QED
    BY <1>7, <2>2, <2>3
    DEF PauseInv, PauseIsKnown, ConvergesUnpaused, PausedIsLetGo, ComputeIsDown, LetGo
<1>8. CASE ClearCapacity
  <2>1. [ls EXCEPT !.capacityReady = FALSE].phase = ls.phase
    BY <1>1 DEF LabSession
  <2>2. /\ step' = "confirmStopped" /\ UNCHANGED <<cache, vmi, pod, objects, goal>>
        /\ \/ UNCHANGED <<labsession, events>>
           \/ Patch([ls EXCEPT !.capacityReady = FALSE])
    BY <1>8 DEF ClearCapacity
  <2>3. QED
    BY <1>7, <2>1, <2>2, PauseKept DEF ConvergingSteps, LetGo
<1>9. CASE ConfirmStopped
  <2>1. step = "confirmStopped" /\ UNCHANGED <<cache, vmi, pod, objects>>
    BY <1>9 DEF ConfirmStopped
  <2>2. /\ step' \notin ConvergingSteps /\ (goal' = goal \/ goal' = "none")
        /\ \/ UNCHANGED <<labsession, events>>
           \/ goal = "pause" /\ Patch(Paused(ls))
    BY <1>9 DEF ConfirmStopped, Return, Idle, Goto, ConvergingSteps
  <2>3. ComputeIsDown
    BY <2>1 DEF EndingInv, TeardownProgress
  <2>4. QED
    BY <1>7, <2>1, <2>2, <2>3, PauseKept DEF LetGo
<1>10. CASE PatchExpired
  <2>1. ExpiredStatus(ls).phase = "Expired"
    BY <1>1, ExpiredFields
  <2>2. /\ Patch(ExpiredStatus(ls)) /\ step' = "idle" /\ goal' = "none"
        /\ UNCHANGED <<cache, vmi, pod, objects>>
    BY <1>10 DEF PatchExpired, Return, Idle
  <2>3. QED
    BY <1>7, <2>1, <2>2 DEF ConvergingSteps
<1>11. QED
  BY <1>4, <1>5, <1>6, <1>8, <1>9, <1>10 DEF Teardown

\* What creates something does so for a session that is not reported as Paused.
LEMMA ConvergePause ==
  ASSUME TypeOK, PauseInv, Converge \/ EnsureFails \/ PatchResumed \/ PatchStatus
  PROVE  PauseInv'
<1> USE DEF cluster, queue, worker, world, bounds
<1>1. step \in ConvergingSteps /\ UNCHANGED cache /\ (goal' = goal \/ goal' = "none")
  BY DEF Converge, Bootstrap, MarkCapacity, Ensure, EnsureConflicts, Observe, EnsureObjects,
         EnsureFails, PatchResumed, PatchStatus, ConvergingSteps, Report, Goto, Abort, Return, Idle
<1>2. /\ ls \in LabSession /\ result \in Results /\ "Paused" \notin Results
      /\ labsession.phase # "Paused" /\ PauseStays /\ (goal = "pause" => cache.paused)
  BY <1>1 DEF TypeOK, Results, PauseInv, ConvergesUnpaused, PauseIsKnown
<1>3. ASSUME PauseStays', labsession'.phase # "Paused"
      PROVE  PauseInv'
  BY <1>1, <1>2, <1>3 DEF PauseInv, PauseIsKnown, ConvergesUnpaused, PausedIsLetGo
<1>4. ASSUME UNCHANGED <<labsession, events>> PROVE PauseInv'
  BY <1>1, <1>2, <1>3, <1>4 DEF PauseStays
<1>5. ASSUME NEW a \in {Reported(ls), [ls EXCEPT !.capacityReady = TRUE],
                        [ls EXCEPT !.phase = "Provisioning"]},
             Patch(a), a.phase = "Paused" => ls.phase = "Paused"
      PROVE  PauseInv'
  <2>1. a \in LabSession /\ a.exists = ls.exists /\ a.paused = ls.paused
    <3>1. CASE a = Reported(ls)
      BY <1>2, <3>1, ReportedFields
    <3>2. CASE a = [ls EXCEPT !.capacityReady = TRUE]
      BY <1>2, <3>2, SessionFields DEF SameSession
    <3>3. CASE a = [ls EXCEPT !.phase = "Provisioning"]
      BY <1>2, <3>3, SessionFields DEF SameSession
    <3>4. QED
      BY <1>5, <3>1, <3>2, <3>3
  <2>2. /\ PauseStays'
        /\ labsession'.phase = IF a.phase # ls.phase THEN a.phase ELSE labsession.phase
    BY <1>1, <1>2, <1>5, <2>1, PausePatched
  <2>3. QED
    BY <1>2, <1>3, <1>5, <2>2
<1>6. CASE Bootstrap \/ Ensure \/ EnsureConflicts \/ EnsureFails \/ Observe
  BY <1>4, <1>6 DEF Bootstrap, Ensure, EnsureConflicts, EnsureFails, EnsureObjects, Observe
<1>7. CASE MarkCapacity
  <2>1. [ls EXCEPT !.capacityReady = TRUE].phase = ls.phase
    BY <1>2 DEF LabSession
  <2>2. QED
    BY <1>5, <1>7, <2>1 DEF MarkCapacity
<1>8. CASE PatchResumed
  <2>1. [ls EXCEPT !.phase = "Provisioning"].phase = "Provisioning"
    BY <1>2 DEF LabSession
  <2>2. QED
    BY <1>5, <1>8, <2>1 DEF PatchResumed
<1>9. CASE PatchStatus
  <2>1. Reported(ls).phase = result
    BY <1>2 DEF Reported, LabSession
  <2>2. QED
    BY <1>2, <1>4, <1>5, <1>9, <2>1 DEF PatchStatus
<1>10. QED
  BY <1>6, <1>7, <1>8, <1>9 DEF Converge

\* Finalizers, failed calls, watches, timers and restarts.
LEMMA ProcessPause ==
  ASSUME TypeOK, CopyInv, LetGoInv, PauseInv,
         AddFinalizer \/ RemoveFinalizer \/ CallFails
         \/ Watch \/ Resync \/ TimerFires \/ Restart
  PROVE  PauseInv'
<1> USE DEF cluster, queue, worker, world, bounds
<1>1. labsession \in LabSession /\ PauseStays
  BY DEF TypeOK, PauseInv
<1>2. CASE AddFinalizer \/ RemoveFinalizer
  <2>1. /\ step' = "idle" /\ goal' = "none" /\ UNCHANGED <<cache, vmi, pod, objects>>
    BY <1>2 DEF AddFinalizer, RemoveFinalizer, Return, Abort, Idle
  <2>2. CASE UNCHANGED <<labsession, events>>
    BY <2>1, <2>2, PauseKept DEF ConvergingSteps, LetGo
  <2>3. ASSUME NEW v \in LabSession, Write(v), labsession.exists,
               v = NoSession \/ (v.phase = labsession.phase /\ v.paused = labsession.paused)
        PROVE  PauseInv'
    <3>1. PauseStays'
      BY <1>1, <2>1, <2>3, PauseWritten DEF NoSession
    <3>2. labsession'.phase = "Paused" => labsession.phase = "Paused"
      BY <2>3 DEF Write, NoSession
    <3>3. QED
      BY <2>1, <3>1, <3>2
      DEF PauseInv, PauseIsKnown, ConvergesUnpaused, PausedIsLetGo, ConvergingSteps, LetGo
  <2>4. CASE labsession.exists /\ Write(NoSession)
    BY <2>3, <2>4, SessionValues
  <2>5. CASE labsession.exists /\ Write([labsession EXCEPT !.finalizer = TRUE])
    <3> DEFINE v == [labsession EXCEPT !.finalizer = TRUE]
    <3>1. v \in LabSession /\ v.phase = labsession.phase /\ v.paused = labsession.paused
      BY <1>1 DEF LabSession
    <3> HIDE DEF v
    <3>2. QED
      BY <2>3, <2>5, <3>1 DEF v
  <2>6. QED
    BY <1>2, <2>2, <2>4, <2>5 DEF AddFinalizer, RemoveFinalizer
<1>3. CASE CallFails
  BY <1>3, PauseKept DEF CallFails, Abort, Idle, ConvergingSteps, LetGo
<1>4. CASE \/ ObserveVMI \/ ObservePod \/ Resync \/ TimerFires
           \/ \E o \in Lagging : ObserveObject(o)
  BY <1>4, PauseKept DEF ObserveVMI, ObservePod, ObserveObject, Resync, TimerFires, LetGo
<1>5. CASE Restart
  <2>1. /\ step' = "idle" /\ goal' = "none" /\ cache' = labsession /\ events' = <<>>
        /\ UNCHANGED <<labsession, vmi, pod, objects>>
    BY <1>5 DEF Restart, Idle
  <2>2. labsession.phase = "Paused" => labsession.paused
    BY GoneIsNew DEF CopyInv, PauseInv, PauseIsKnown, PauseStays
  <2>3. QED
    BY <2>1, <2>2
    DEF PauseInv, PauseStays, PauseIsKnown, ConvergesUnpaused, PausedIsLetGo, ConvergingSteps,
        LetGo
<1>6. CASE ObserveSession
  <2>1. /\ events # <<>> /\ cache' = Head(events) /\ events' = Tail(events)
        /\ UNCHANGED <<labsession, step, goal, vmi, pod, objects>>
    BY <1>6 DEF ObserveSession
  <2>2. events \in Seq(LabSession)
    BY DEF TypeOK
  <2>3. /\ 1 \in DOMAIN events /\ cache' = events[1]
        /\ DOMAIN events = 1..Len(events) /\ DOMAIN events' = 1..(Len(events) - 1)
        /\ \A i \in DOMAIN events' : i + 1 \in DOMAIN events /\ events'[i] = events[i + 1]
    BY <2>1, <2>2
  <2>4. ASSUME labsession.exists
        PROVE  /\ \A i \in DOMAIN events' : events'[i].exists
               /\ cache'.paused
                     => labsession'.paused /\ \A i \in DOMAIN events' : events'[i].paused
    BY <1>1, <2>1, <2>2, <2>3, <2>4 DEF PauseStays
  <2>5. ASSUME labsession.exists, NEW i \in DOMAIN events', events'[i].paused
        PROVE  labsession'.paused /\ \A j \in DOMAIN events' : i < j => events'[j].paused
    BY <1>1, <2>1, <2>2, <2>3, <2>5 DEF PauseStays
  <2>6. PauseStays'
    BY <2>1, <2>4, <2>5 DEF PauseStays
  <2>7. goal = "pause" \/ labsession.phase = "Paused" => labsession.exists
    BY GoneIsNew DEF CopyInv, LetGoInv, FinalizerHeld, FinalizerKnown
  <2>8. PauseIsKnown'
    BY <1>1, <2>1, <2>3, <2>7 DEF PauseInv, PauseIsKnown, PauseStays
  <2>9. QED
    BY <2>1, <2>6, <2>8 DEF PauseInv, ConvergesUnpaused, PausedIsLetGo, LetGo
<1>7. QED
  BY <1>2, <1>3, <1>4, <1>5, <1>6 DEF Watch

\* The other requests keep the request to pause, and the cluster starts nothing that was
\* not created.
LEMMA EnvironmentPause ==
  ASSUME TypeOK, PauseInv, Environment, "resume" \notin Inputs
  PROVE  PauseInv'
<1> USE DEF cluster, queue, worker, world, bounds
<1>1. labsession \in LabSession /\ PauseStays
  BY DEF TypeOK, PauseInv
<1>2. ASSUME NEW kind, NEW v \in LabSession, Request(kind, v),
             v = NoSession \/ (v.phase = labsession.phase /\ (labsession.paused => v.paused))
      PROVE  PauseInv'
  <2>1. Write(v) /\ labsession.exists /\ UNCHANGED <<cache, step, goal, vmi, pod, objects>>
    BY <1>2 DEF Request
  <2>2. PauseStays'
    BY <1>1, <1>2, <2>1, PauseWritten DEF NoSession
  <2>3. labsession'.phase = "Paused" => labsession.phase = "Paused"
    BY <1>2, <2>1 DEF Write, NoSession
  <2>4. QED
    BY <2>1, <2>2, <2>3 DEF PauseInv, PauseIsKnown, ConvergesUnpaused, PausedIsLetGo, LetGo
<1>3. CASE Pause
  <2> DEFINE v == [labsession EXCEPT !.paused = TRUE]
  <2>1. v \in LabSession /\ v.phase = labsession.phase /\ v.paused
    BY <1>1 DEF LabSession
  <2>2. Request("pause", v)
    BY <1>3 DEF Pause
  <2> HIDE DEF v
  <2>3. QED
    BY <1>2, <2>1, <2>2
<1>4. ~Resume
  BY DEF Resume, Request
<1>5. CASE Expire
  <2> DEFINE v == [labsession EXCEPT !.due = TRUE]
  <2>1. v \in LabSession /\ v.phase = labsession.phase /\ v.paused = labsession.paused
    BY <1>1 DEF LabSession
  <2>2. Request("expire", v)
    BY <1>5 DEF Expire
  <2> HIDE DEF v
  <2>3. QED
    BY <1>2, <2>1, <2>2
<1>6. CASE Delete
  <2> DEFINE v == IF labsession.finalizer THEN [labsession EXCEPT !.deleting = TRUE]
                                          ELSE NoSession
  <2>1. /\ v \in LabSession
        /\ v = NoSession \/ (v.phase = labsession.phase /\ v.paused = labsession.paused)
    BY <1>1, SessionValues DEF LabSession
  <2>2. Request("delete", v)
    BY <1>6 DEF Delete
  <2> HIDE DEF v
  <2>3. QED
    BY <1>2, <2>1, <2>2
<1>7. CASE TTLPasses \/ VMIStarts \/ VMIFails \/ VMIGone \/ GuestBoots \/ PodReady \/ PodGone
           \/ GarbageCollect
  <2>1. UNCHANGED <<labsession, cache, events, step, goal>>
    BY <1>7 DEF TTLPasses, VMIStarts, VMIFails, VMIGone, GuestBoots, VMIBecomes, PodReady, PodGone,
                PodBecomes, GarbageCollect
  <2>2. /\ LetGo => LetGo'
        /\ pod \in {"absent", "deleting"} => pod' \in {"absent", "deleting"}
        /\ objects' \subseteq objects
    BY <1>7 DEF TTLPasses, VMIStarts, VMIFails, VMIGone, GuestBoots, VMIBecomes, PodReady, PodGone,
                PodBecomes, GarbageCollect, VMIDeleted, PodDeleted, LetGo
  <2>3. QED
    BY <2>1, <2>2, PauseKept
<1>8. QED
  BY <1>3, <1>4, <1>5, <1>6, <1>7 DEF Environment

\* The invariant behind PausedIsLetGo is inductive as long as nobody resumes.
THEOREM PauseIsInvariant ==
  ASSUME "resume" \notin Inputs
  PROVE  Spec => []PauseInv
<1>1. Init => PauseInv
  <2> SUFFICES ASSUME Init PROVE PauseInv
    OBVIOUS
  <2>1. DOMAIN events = {1} /\ events[1] = Created
    BY DEF Init
  <2>2. QED
    BY <2>1 DEF Init, PauseInv, PauseStays, PauseIsKnown, ConvergesUnpaused, PausedIsLetGo,
                ConvergingSteps, NoSession, Created
<1>2. TypeOK /\ CopyInv /\ EndingInv /\ LetGoInv /\ PauseInv /\ [Next]_vars => PauseInv'
  <2> SUFFICES ASSUME TypeOK, CopyInv, EndingInv, LetGoInv, PauseInv, [Next]_vars
               PROVE  PauseInv'
    OBVIOUS
  <2>1. CASE UNCHANGED vars
    BY <2>1, PauseKept DEF vars, cluster, worker, LetGo
  <2>2. CASE Finished
    BY <2>1, <2>2 DEF Finished
  <2>3. CASE Reconcile
    BY <2>3, ReconcilePause
  <2>4. CASE Call \/ Failure
    BY <2>4, TeardownPause, ConvergePause, ProcessPause DEF Call, PatchLabSession, Failure
  <2>5. CASE Watch \/ Resync \/ TimerFires \/ Restart
    BY <2>5, ProcessPause
  <2>6. CASE Environment
    BY <2>6, EnvironmentPause
  <2>7. QED
    BY <2>1, <2>2, <2>3, <2>4, <2>5, <2>6 DEF Next
<1>3. QED
  BY <1>1, <1>2, TypeCorrect, CopyIsInvariant, EndingIsInvariant, LetGoIsInvariant, PTL DEF Spec

\* The VM of a session that nobody resumes and that is reported as Paused has been deleted,
\* though it may be terminating, and so have its exposure and its bootstrap Pod, at any moment
\* and for any lag, failures, restarts, deadline or deletion.
THEOREM PausedLetGo ==
  ASSUME "resume" \notin Inputs
  PROVE  Spec => []PausedIsLetGo
<1>1. PauseInv => PausedIsLetGo
  BY DEF PauseInv
<1>2. QED
  BY <1>1, PauseIsInvariant, PTL

-----------------------------------------------------------------------------
(* What a resume does not break.                                           *)

\* A session becomes Paused in no step but one that finds its VM gone from the informer's
\* copy and, in the cluster, gone or terminating; its exposure and its Pod deleted too.
PausedWhenDown ==
    labsession'.phase = "Paused" =>
        labsession.phase = "Paused" \/ (vmiSeen = "absent" /\ ComputeIsDown)'

\* A write of another phase, or of none, does not report Paused.
LEMMA NotPaused ==
  ASSUME TypeOK, NEW a \in LabSession, Patch(a), a.phase # "Paused" \/ a.phase = ls.phase
  PROVE  PausedWhenDown
<1>1. labsession'.phase = IF a.phase # ls.phase THEN a.phase ELSE labsession.phase
  BY MergePatchFields DEF TypeOK, Patch, Write
<1>2. QED
  BY <1>1 DEF PausedWhenDown

\* A report of Paused finds the compute deleted and its VM absent from the informer's copy,
\* whoever resumes and pauses, whatever fails and however far the informer lags.  That is less
\* than "stopped is true only after the VMI no longer exists" (provider.go): a VMI created too
\* lately for the copy to show it may be terminating still.
THEOREM PausedReportedDown == Spec => [][PausedWhenDown]_vars
<1>1. TypeOK /\ EndingInv /\ [Next]_vars => PausedWhenDown \/ UNCHANGED vars
  <2> SUFFICES ASSUME TypeOK, EndingInv, Next PROVE PausedWhenDown
    OBVIOUS
  <2> USE DEF cluster, queue, worker, world, bounds
  <2>1. /\ ls \in LabSession /\ labsession \in LabSession /\ result \in Results
        /\ "Paused" \notin Results
    BY DEF TypeOK, Results
  <2>2. ASSUME labsession' = labsession PROVE PausedWhenDown
    BY <2>2 DEF PausedWhenDown
  <2>3. ASSUME NEW v, Write(v), v.phase # "Paused" \/ v.phase = labsession.phase
        PROVE  PausedWhenDown
    BY <2>3 DEF PausedWhenDown, Write
  <2>4. \A v \in LabSession : /\ [v EXCEPT !.finalizer = TRUE].phase = v.phase
                              /\ [v EXCEPT !.paused = TRUE].phase = v.phase
                              /\ [v EXCEPT !.paused = FALSE].phase = v.phase
                              /\ [v EXCEPT !.due = TRUE].phase = v.phase
                              /\ [v EXCEPT !.deleting = TRUE].phase = v.phase
                              /\ [v EXCEPT !.capacityReady = TRUE].phase = v.phase
                              /\ [v EXCEPT !.capacityReady = FALSE].phase = v.phase
                              /\ [v EXCEPT !.phase = "Provisioning"].phase = "Provisioning"
                              /\ ExpiredStatus(v).phase = "Expired"
                              /\ Reported(v).phase = result
    BY DEF LabSession, ExpiredStatus, Reported
  <2>5. NoSession.phase # "Paused"
    BY DEF NoSession
  <2>6. CASE ConfirmStopped
    <3>1. ComputeIsDown
      BY <2>6 DEF ConfirmStopped, EndingInv, TeardownProgress
    <3>2. ComputeIsDown'
      BY <2>6, <3>1 DEF ConfirmStopped, ComputeIsDown, LetGo
    <3>3. (vmiSeen = "absent" /\ vmiSeen' = vmiSeen) \/ labsession' = labsession
      BY <2>6 DEF ConfirmStopped
    <3>4. QED
      BY <3>2, <3>3 DEF PausedWhenDown
  <2>7. ASSUME NEW a \in {[ls EXCEPT !.capacityReady = FALSE], [ls EXCEPT !.capacityReady = TRUE],
                          ExpiredStatus(ls), [ls EXCEPT !.phase = "Provisioning"], Reported(ls)},
               Patch(a)
        PROVE  PausedWhenDown
    <3>1. a \in LabSession
      BY <2>1, PatchedCopies
    <3>2. a.phase # "Paused" \/ a.phase = ls.phase
      <4>1. CASE a \in {[ls EXCEPT !.capacityReady = FALSE], [ls EXCEPT !.capacityReady = TRUE]}
        BY <2>1, <2>4, <4>1, Zenon
      <4>2. a = ExpiredStatus(ls) => a.phase # "Paused"
        <5>1. ExpiredStatus(ls).phase = "Expired"
          BY <2>1, <2>4
        <5>2. QED
          BY <5>1
      <4>3. a = [ls EXCEPT !.phase = "Provisioning"] => a.phase # "Paused"
        <5>1. [ls EXCEPT !.phase = "Provisioning"].phase = "Provisioning"
          BY <2>1, <2>4
        <5>2. QED
          BY <5>1
      <4>4. a = Reported(ls) => a.phase # "Paused"
        BY <2>1, <2>4
      <4>5. QED
        BY <4>1, <4>2, <4>3, <4>4
    <3>3. QED
      BY <2>7, <3>1, <3>2, NotPaused
  <2>8. CASE ClearCapacity \/ MarkCapacity \/ PatchExpired \/ PatchResumed \/ PatchStatus
    BY <2>2, <2>7, <2>8 DEF ClearCapacity, MarkCapacity, PatchExpired, PatchResumed, PatchStatus
  <2>9. CASE AddFinalizer \/ RemoveFinalizer
    BY <2>1, <2>2, <2>3, <2>4, <2>5, <2>9 DEF AddFinalizer, RemoveFinalizer
  <2>10. CASE Pause \/ Resume \/ Expire \/ Delete
    BY <2>1, <2>3, <2>4, <2>5, <2>10 DEF Pause, Resume, Expire, Delete, Request
  <2>11. CASE Reconcile
    BY <2>2, <2>11 DEF Reconcile, BeginNothing, BeginDeletion, BeginFinalizer, BeginExpiry,
       BeginPause, BeginResume, BeginConverge, BeginMisconfigured, Begin
  <2>12. CASE TeardownCompute \/ TeardownComputeFails \/ TeardownDisk
    BY <2>2, <2>12 DEF TeardownCompute, TeardownComputeFails, TeardownDisk, DeleteCompute
  <2>13. CASE Bootstrap \/ Ensure \/ EnsureConflicts \/ EnsureFails \/ Observe \/ CallFails
    BY <2>2, <2>13 DEF Bootstrap, Ensure, EnsureConflicts, EnsureFails, EnsureObjects, Observe,
       CallFails
  <2>14. CASE Finished \/ Watch \/ Resync \/ TimerFires \/ Restart
    BY <2>2, <2>14 DEF Finished, Watch, ObserveSession, ObserveVMI, ObservePod,
       ObserveObject, Resync, TimerFires, Restart, vars
  <2>15. CASE \/ TTLPasses \/ VMIStarts \/ VMIFails \/ VMIGone \/ GuestBoots
              \/ PodReady \/ PodGone \/ GarbageCollect
    BY <2>2, <2>15 DEF TTLPasses, VMIStarts, VMIFails, VMIGone, VMIBecomes, GuestBoots, PodReady,
       PodGone, PodBecomes, GarbageCollect
  <2>16. QED
    BY <2>6, <2>8, <2>9, <2>10, <2>11, <2>12, <2>13, <2>14, <2>15
    DEF Next, Call, Teardown, Converge, PatchLabSession, Failure, Environment
<1>2. QED
  BY <1>1, TypeCorrect, EndingIsInvariant, PTL DEF Spec
=============================================================================
