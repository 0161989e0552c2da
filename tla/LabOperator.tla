----------------------------- MODULE LabOperator -----------------------------
(***************************************************************************)
(* The lab operator: the reconciler of one LabSession custom resource      *)
(* (internal/controller/labsession_controller.go) and the KubeVirt         *)
(* provider it drives (internal/provider/kubevirt/provider.go), together   *)
(* with what surrounds them: the API server and the informer caches the    *)
(* operator reads, its work queue, the requests of the lab server, KubeVirt *)
(* and the scheduler.                                                      *)
(*                                                                         *)
(* A reconciliation is a step per API call that depends on what the others *)
(* do meanwhile, because the spec, the clock and the VM change between two *)
(* calls; a series of blind deletions or creations is one step, which may  *)
(* also fail after any of its calls.  Reads go to the informer caches,     *)
(* which lag behind the API server; writes go to the API server.           *)
(***************************************************************************)
EXTENDS Naturals, Sequences

CONSTANTS
    Inputs,         \* what happens to the session: requests, its deadline
    Lagging,        \* Objects whose informer copies may lag
    MaxLag,         \* LabSession versions the informer may not have seen yet
    MaxRequests,    \* requests in a behaviour
    MaxFailures,    \* failed API calls in a behaviour
    MaxRestarts     \* operator restarts in a behaviour

ASSUME BoundsAssumption ==
    /\ Inputs \subseteq {"pause", "resume", "expire", "delete", "deadline"}
    /\ Lagging \subseteq {"DataVolume", "Secret", "Service", "NetworkPolicy"}
    /\ MaxLag \in Nat \ {0}
    /\ MaxRequests \in Nat /\ MaxFailures \in Nat /\ MaxRestarts \in Nat

-----------------------------------------------------------------------------
(* The LabSession.  due: spec.expiresAt was set to the current time.       *)

Phases == {"New", "Provisioning", "Running", "Ready", "Paused", "Expired",
           "Failed"}

LabSession == [exists : BOOLEAN, phase : Phases, dns : BOOLEAN,
               paused : BOOLEAN, due : BOOLEAN, capacityReady : BOOLEAN,
               finalizer : BOOLEAN, deleting : BOOLEAN]

NoSession == [exists |-> FALSE, phase |-> "New", dns |-> FALSE,
              paused |-> FALSE, due |-> FALSE, capacityReady |-> FALSE,
              finalizer |-> FALSE, deleting |-> FALSE]

Created == [NoSession EXCEPT !.exists = TRUE]

\* The objects that have no life of their own.
Objects == {"DataVolume", "Secret", "Service", "NetworkPolicy"}

VMIStates == {"absent", "pending", "running", "failed", "deleting"}

\* "ready": Running on a node whose labels and devices KubeVirt has set up.
PodStates == {"absent", "pending", "ready", "deleting"}

Timers == {"none", "short", "expiry"}

Goals == {"none", "delete", "expire", "pause"}

Steps == {"idle", "addFinalizer", "teardownCompute", "clearCapacity",
          "confirmStopped", "teardownDisk", "removeFinalizer",
          "patchExpired", "patchResumed", "bootstrap", "markCapacity",
          "ensure", "observe", "patchStatus"}

\* "New", the empty phase, before one has been computed.
Results == {"New", "Provisioning", "Running", "Ready", "Failed"}

VARIABLES
    labsession,  \* the LabSession in the API server
    cache,       \* the operator's informer copy of it
    events,      \* its versions the informer has not seen yet, oldest first
    vmi, vmiSeen, \* the VirtualMachineInstance and the informer copy
    ttyd,        \* the guest answers on port 7681
    pod, podSeen, \* the capacity bootstrap Pod and the informer copy
    objects,     \* which of Objects exist
    objectsSeen, \* which of Lagging their informer copies show
    passed,      \* the clock is past the expiresAt the session was created with
    configured,  \* the operator's scenario content and golden PVCs are complete
    queued,      \* the session's key is in the work queue
    timer,       \* the earliest delayed requeue of the key
    step,        \* the next API call of the reconciliation under way
    goal,        \* what the teardown under way is for
    ls,          \* the reconciliation's copy of the LabSession
    current,     \* ls has the resourceVersion of labsession
    result,      \* the phase the reconciliation has computed
    requests, failures, restarts  \* what is left of the bounds

cluster == <<vmi, vmiSeen, ttyd, pod, podSeen, objects, objectsSeen>>
queue == <<queued, timer>>
worker == <<step, goal, ls, current, result>>
world == <<passed, configured>>
bounds == <<requests, failures, restarts>>
vars == <<labsession, cache, events, cluster, world, queue, worker, bounds>>

TypeOK ==
    /\ labsession \in LabSession /\ cache \in LabSession /\ ls \in LabSession
    /\ events \in Seq(LabSession) /\ Len(events) <= MaxLag
    /\ vmi \in VMIStates /\ vmiSeen \in VMIStates
    /\ pod \in PodStates /\ podSeen \in PodStates
    /\ objects \subseteq Objects /\ objectsSeen \subseteq Lagging
    /\ ttyd \in BOOLEAN /\ passed \in BOOLEAN /\ configured \in BOOLEAN
    /\ queued \in BOOLEAN /\ current \in BOOLEAN
    /\ timer \in Timers /\ step \in Steps /\ goal \in Goals
    /\ result \in Results
    /\ requests \in 0..MaxRequests
    /\ failures \in 0..MaxFailures
    /\ restarts \in 0..MaxRestarts

Init ==
    /\ labsession = Created /\ cache = NoSession /\ events = <<Created>>
    /\ vmi = "absent" /\ vmiSeen = "absent" /\ ttyd = FALSE
    /\ pod = "absent" /\ podSeen = "absent"
    /\ objects = {} /\ objectsSeen = {}
    /\ passed = FALSE /\ configured = TRUE
    /\ queued = FALSE /\ timer = "none"
    /\ step = "idle" /\ goal = "none" /\ ls = NoSession /\ current = FALSE
    /\ result = "New"
    /\ requests = MaxRequests /\ failures = MaxFailures
    /\ restarts = MaxRestarts

-----------------------------------------------------------------------------
(* Writing the LabSession.                                                 *)

Expired(v) == v.due \/ passed

HasAddress(phase) == phase \in {"Running", "Ready"}

\* Mutant: the whole object is written back from the copy.
WriteBack(truth, before, after) == after

\* A merge patch carries the fields that differ between the two copies.
MergePatch(truth, before, after) ==
    [f \in DOMAIN truth |-> IF after[f] # before[f] THEN after[f] ELSE truth[f]]

\* A write that changes nothing produces no watch event.
Write(v) ==
    /\ labsession' = v
    /\ \/ v = labsession /\ events' = events
       \/ /\ v # labsession /\ Len(events) < MaxLag
          /\ events' = Append(events, v)

-----------------------------------------------------------------------------
(* The work queue and the end of a reconciliation.                         *)

\* Of two delayed requeues of one key the queue keeps the earlier.
Earliest(s, t) ==
    IF "short" \in {s, t} THEN "short"
    ELSE IF "expiry" \in {s, t} THEN "expiry" ELSE "none"

\* Mutant: a session that needs nothing now is not looked at again.
RequeueNever(v) == "none"

RequeueUntilExpiry(v) == IF Expired(v) THEN "short" ELSE "expiry"

Idle ==
    /\ step' = "idle" /\ goal' = "none" /\ ls' = NoSession
    /\ current' = FALSE /\ result' = "New"

\* return ctrl.Result{RequeueAfter: t}, nil
Return(t) == Idle /\ timer' = Earliest(timer, t) /\ UNCHANGED queued

\* return ctrl.Result{}, err
Abort == Idle /\ queued' = TRUE /\ UNCHANGED timer

Goto(s) == step' = s /\ UNCHANGED <<queue, goal, ls, current, result>>

\* Patch the LabSession from ls to v; the response replaces ls.
Patch(v) ==
    /\ labsession.exists
    /\ Write(MergePatch(labsession, ls, v))

Enqueue == queued' = TRUE

-----------------------------------------------------------------------------
(* Reconcile: what the copy in the cache calls for.  Each action is one    *)
(* branch; the guards are the early returns before it.                     *)

Live(v) == v.exists /\ ~v.deleting /\ v.finalizer

Unexpired(v) == Live(v) /\ ~Expired(v)

\* Mutant: only a Ready session is paused.
PausingReady(v) == v.paused /\ v.phase = "Ready"

Pausing(v) == v.paused /\ v.phase # "Paused"

Resuming(v) == ~v.paused /\ v.phase = "Paused"

\* The worker takes the key and reads the LabSession from the cache.
Begin(s, g) ==
    /\ step = "idle" /\ queued
    /\ queued' = FALSE
    /\ step' = s /\ goal' = g /\ ls' = cache /\ current' = (events = <<>>)
    /\ UNCHANGED <<timer, result, labsession, cache, events, cluster, world,
                   bounds>>

\* The branches that return without a call: the key is only taken.
BeginNothing ==
    /\ step = "idle" /\ queued
    /\ \/ ~cache.exists
       \/ cache.deleting /\ ~cache.finalizer
       \/ Live(cache) /\ Expired(cache) /\ cache.phase = "Expired"
       \/ Unexpired(cache) /\ cache.paused /\ cache.phase = "Paused"
    /\ queued' = FALSE
    /\ UNCHANGED <<timer, labsession, cache, events, cluster, world, worker,
                   bounds>>

\* Mutant: a deleted session is torn down as an expired one.
BeginDeletionAsExpiry ==
    /\ cache.exists /\ cache.deleting /\ cache.finalizer
    /\ Begin("teardownCompute", "expire")

BeginDeletion ==
    /\ cache.exists /\ cache.deleting /\ cache.finalizer
    /\ Begin("teardownCompute", "delete")

BeginFinalizer ==
    /\ cache.exists /\ ~cache.deleting /\ ~cache.finalizer
    /\ Begin("addFinalizer", "none")

BeginExpiry ==
    /\ Live(cache) /\ Expired(cache) /\ cache.phase # "Expired"
    /\ Begin("teardownCompute", "expire")

BeginPause ==
    /\ Unexpired(cache) /\ Pausing(cache)
    /\ Begin("teardownCompute", "pause")

BeginResume ==
    /\ Unexpired(cache) /\ Resuming(cache)
    /\ Begin("patchResumed", "none")

\* Provider.Reconcile; incomplete content is reported as Failed at once.
BeginConverge ==
    /\ Unexpired(cache) /\ ~Pausing(cache) /\ cache.phase # "Paused"
    /\ configured
    /\ Begin(IF cache.capacityReady THEN "ensure" ELSE "bootstrap",
             "none")

BeginMisconfigured ==
    /\ Unexpired(cache) /\ ~Pausing(cache) /\ cache.phase # "Paused"
    /\ ~configured
    /\ step = "idle" /\ queued
    /\ queued' = FALSE
    /\ step' = "patchStatus" /\ result' = "Failed" /\ ls' = cache
    /\ current' = (events = <<>>)
    /\ UNCHANGED <<timer, goal, labsession, cache, events, cluster, world,
                   bounds>>

-----------------------------------------------------------------------------
(* Finalizers are written with Update, which fails on a stale copy.        *)

AddFinalizer ==
    /\ step = "addFinalizer"
    /\ \/ /\ current /\ labsession.exists
          /\ Write([labsession EXCEPT !.finalizer = TRUE])
          /\ Return("none")
       \/ ~(current /\ labsession.exists) /\ Abort /\ UNCHANGED <<labsession, events>>
    /\ UNCHANGED <<cache, cluster, world, bounds>>

\* With its last finalizer gone, the API server drops the object.
RemoveFinalizer ==
    /\ step = "removeFinalizer"
    /\ \/ /\ current /\ labsession.exists
          /\ Write(NoSession) /\ Return("none")
       \/ ~(current /\ labsession.exists) /\ Abort /\ UNCHANGED <<labsession, events>>
    /\ UNCHANGED <<cache, cluster, world, bounds>>

-----------------------------------------------------------------------------
(* Provider.TeardownCompute and Provider.Teardown.                         *)

\* KubeVirt stops a VMI, and the kubelet a scheduled Pod, before it is gone.
VMIDeleted(v) == IF v = "absent" THEN "absent" ELSE "deleting"

PodDeleted(p) == IF p \in {"absent", "pending"} THEN "absent" ELSE "deleting"

\* Mutant: the bootstrap Pod is forgotten.
ComputeObjectsNoPod == <<"VMI", "NetworkPolicy", "Service">>

\* The objects are deleted one after the other; after the first n the next
\* call may fail.
ComputeObjects == <<"VMI", "NetworkPolicy", "Service", "Pod">>

DeleteCompute(n) ==
    LET deleted == {ComputeObjects[i] : i \in 1..n} IN
    /\ vmi' = IF "VMI" \in deleted THEN VMIDeleted(vmi) ELSE vmi
    /\ pod' = IF "Pod" \in deleted THEN PodDeleted(pod) ELSE pod
    /\ objects' = objects \ deleted
    /\ UNCHANGED <<labsession, cache, events, vmiSeen, ttyd, podSeen,
                   objectsSeen, world, requests, restarts>>

TeardownCompute ==
    /\ step = "teardownCompute"
    /\ DeleteCompute(Len(ComputeObjects))
    /\ Goto("clearCapacity") /\ UNCHANGED failures

\* Mutant: the error of a deletion is ignored.
TeardownComputeGoesOn ==
    /\ step = "teardownCompute" /\ failures > 0
    /\ \E n \in 1..Len(ComputeObjects) - 1 : DeleteCompute(n)
    /\ Goto("clearCapacity") /\ failures' = failures - 1

TeardownComputeFails ==
    /\ step = "teardownCompute" /\ failures > 0
    /\ \E n \in 1..Len(ComputeObjects) - 1 : DeleteCompute(n)
    /\ Abort /\ failures' = failures - 1

\* clearCapacityBootstrap looks at its own copy of the annotation.
ClearCapacity ==
    /\ step = "clearCapacity"
    /\ step' = "confirmStopped"
    /\ \/ /\ ls.deleting \/ ~ls.capacityReady
          /\ UNCHANGED <<labsession, events, ls, current>>
       \/ /\ ~ls.deleting /\ ls.capacityReady
          /\ Patch([ls EXCEPT !.capacityReady = FALSE])
          /\ ls' = labsession' /\ current' = TRUE
    /\ UNCHANGED <<cache, cluster, world, queue, goal, result, bounds>>

Paused(v) == [v EXCEPT !.phase = "Paused", !.dns = FALSE]

\* The VMI is looked up in the cache.  Teardown ignores the answer.
ConfirmStopped ==
    /\ step = "confirmStopped"
    /\ \/ /\ goal = "pause" /\ vmiSeen = "absent"
          /\ Patch(Paused(ls))
          /\ Return(RequeueUntilExpiry(labsession'))
       \/ /\ goal = "pause" /\ vmiSeen # "absent"
          /\ Return("short") /\ UNCHANGED <<labsession, events>>
       \/ /\ goal # "pause"
          /\ Goto("teardownDisk") /\ UNCHANGED <<labsession, events>>
    /\ UNCHANGED <<cache, cluster, world, bounds>>

TeardownDisk ==
    /\ step = "teardownDisk"
    /\ objects' = objects \ {"DataVolume"}
    /\ Goto(IF goal = "delete" THEN "removeFinalizer" ELSE "patchExpired")
    /\ UNCHANGED <<labsession, cache, events, vmi, vmiSeen, ttyd, pod, podSeen,
                   objectsSeen, world, bounds>>

ExpiredStatus(v) == [v EXCEPT !.phase = "Expired", !.dns = FALSE]

PatchExpired ==
    /\ step = "patchExpired"
    /\ Patch(ExpiredStatus(ls))
    /\ Return("none")
    /\ UNCHANGED <<cache, cluster, world, bounds>>

PatchResumed ==
    /\ step = "patchResumed"
    /\ Patch([ls EXCEPT !.phase = "Provisioning"])
    /\ Return("short")
    /\ UNCHANGED <<cache, cluster, world, bounds>>

-----------------------------------------------------------------------------
(* Provider.Reconcile: the objects in the order they are ensured.          *)

Report(phase) ==
    /\ step' = "patchStatus" /\ result' = phase
    /\ UNCHANGED <<queue, goal, ls, current>>

\* CreateOrUpdate of the Pod, then the checks on it and on its node, then its
\* deletion.  A Pod that is being deleted still reads as Running.
Bootstrap ==
    /\ step = "bootstrap"
    /\ \/ /\ podSeen = "absent" /\ pod = "absent"
          /\ pod' = "pending" /\ Report("Provisioning")
       \/ /\ podSeen = "absent" /\ pod # "absent"
          /\ Abort /\ UNCHANGED pod
       \/ /\ podSeen = "pending"
          /\ Report("Provisioning") /\ UNCHANGED pod
       \/ /\ podSeen \in {"ready", "deleting"}
          /\ pod' = PodDeleted(pod) /\ Goto("markCapacity")
    /\ UNCHANGED <<labsession, cache, events, vmi, vmiSeen, ttyd, podSeen,
                   objects, objectsSeen, world, bounds>>

MarkCapacity ==
    /\ step = "markCapacity"
    /\ Patch([ls EXCEPT !.capacityReady = TRUE])
    /\ ls' = labsession' /\ current' = TRUE
    /\ step' = "ensure"
    /\ UNCHANGED <<cache, cluster, world, queue, goal, result, bounds>>

\* CreateOrUpdate of the objects in this order.
SessionObjects == <<"DataVolume", "Secret", "VMI", "Service", "NetworkPolicy">>

InCluster == objects \cup (IF vmi = "absent" THEN {} ELSE {"VMI"})

InCaches ==
    objectsSeen \cup (objects \ Lagging)
                \cup (IF vmiSeen = "absent" THEN {} ELSE {"VMI"})

\* Read back they never equal what is wanted: stringData is write-only, and the
\* API server adds the protocol of a port.
Rewritten == {"Secret", "Service"}

\* Creating what the cache does not show fails when it exists; updating what it
\* shows fails when it is gone, and one that equals what is wanted is not updated.
Conflicts(o) ==
    \/ o \notin InCaches /\ o \in InCluster
    \/ o \in InCaches \cap Rewritten /\ o \notin InCluster

EnsureObjects(n) ==
    LET ensured == {SessionObjects[i] : i \in 1..n}
        created == ensured \ InCaches
    IN
    /\ \A o \in ensured : ~Conflicts(o)
    /\ vmi' = IF "VMI" \in created THEN "pending" ELSE vmi
    /\ objects' = objects \cup (created \ {"VMI"})
    /\ UNCHANGED <<labsession, cache, events, vmiSeen, ttyd, pod, podSeen,
                   objectsSeen, world, requests, restarts>>

Ensure ==
    /\ step = "ensure"
    /\ EnsureObjects(Len(SessionObjects))
    /\ Goto("observe") /\ UNCHANGED failures

EnsureConflicts ==
    /\ step = "ensure"
    /\ \E n \in 0..Len(SessionObjects) - 1 :
          EnsureObjects(n) /\ Conflicts(SessionObjects[n + 1])
    /\ Abort /\ UNCHANGED failures

EnsureFails ==
    /\ step = "ensure" /\ failures > 0
    /\ \E n \in 1..Len(SessionObjects) - 1 : EnsureObjects(n)
    /\ Abort /\ failures' = failures - 1

ProbeAnswers == ttyd /\ "Service" \in objects

\* Mutant: the phase of a stopped VMI is reported as it is.
ObservedRawPhases ==
    CASE vmiSeen \in {"absent", "pending"} -> {"Provisioning"}
      [] vmiSeen \in {"failed", "deleting"} -> {"Succeeded"}
      [] vmiSeen = "running" -> {IF ProbeAnswers THEN "Ready" ELSE "Running"}

\* The phase of the VMI in the cache, and the readiness probe.  A VMI that is
\* being deleted keeps its phase until its guest has stopped.
ObservedPhases ==
    CASE vmiSeen \in {"absent", "pending"} -> {"Provisioning"}
      [] vmiSeen = "failed" -> {"Failed"}
      [] vmiSeen = "running" -> {IF ProbeAnswers THEN "Ready" ELSE "Running"}
      [] vmiSeen = "deleting" ->
             {"Provisioning", "Failed", IF ProbeAnswers THEN "Ready" ELSE "Running"}

Observe ==
    /\ step = "observe"
    /\ \E phase \in ObservedPhases : Report(phase)
    /\ UNCHANGED <<labsession, cache, events, cluster, world, bounds>>

Reported(v) == [v EXCEPT !.phase = result, !.dns = HasAddress(result)]

\* Mutant: a session that is not Ready is not polled.
PatchStatusOnce ==
    /\ step = "patchStatus"
    /\ \/ ls = Reported(ls) /\ UNCHANGED <<labsession, events>>
       \/ ls # Reported(ls) /\ Patch(Reported(ls))
    /\ Return(IF result = "Ready" THEN RequeueUntilExpiry(ls) ELSE "none")
    /\ UNCHANGED <<cache, cluster, world, bounds>>

PatchStatus ==
    /\ step = "patchStatus"
    /\ \/ ls = Reported(ls) /\ UNCHANGED <<labsession, events>>
       \/ ls # Reported(ls) /\ Patch(Reported(ls))
    /\ Return(IF result = "Ready" THEN RequeueUntilExpiry(ls) ELSE "short")
    /\ UNCHANGED <<cache, cluster, world, bounds>>

\* The next API call fails before it has changed anything.
CallFails ==
    /\ step # "idle" /\ failures > 0
    /\ failures' = failures - 1
    /\ Abort
    /\ UNCHANGED <<labsession, cache, events, cluster, world, requests,
                   restarts>>

Reconcile ==
    \/ BeginNothing \/ BeginDeletion \/ BeginFinalizer \/ BeginExpiry
    \/ BeginPause \/ BeginResume \/ BeginConverge \/ BeginMisconfigured

Teardown ==
    \/ TeardownCompute \/ ClearCapacity \/ ConfirmStopped \/ TeardownDisk

Converge ==
    \/ Bootstrap \/ MarkCapacity \/ Ensure \/ EnsureConflicts \/ Observe

Failure == CallFails \/ TeardownComputeFails \/ EnsureFails

PatchLabSession ==
    \/ AddFinalizer \/ RemoveFinalizer \/ PatchExpired \/ PatchResumed
    \/ PatchStatus

Call == Teardown \/ Converge \/ PatchLabSession

-----------------------------------------------------------------------------
(* The process: watches, timers, restarts.                                 *)

ObserveSession ==
    /\ events # <<>>
    /\ cache' = Head(events) /\ events' = Tail(events)
    /\ Enqueue
    /\ UNCHANGED <<labsession, cluster, world, timer, worker, bounds>>

\* The controller owns VMIs, so a change of one enqueues its session.
ObserveVMI ==
    /\ vmiSeen # vmi
    /\ vmiSeen' = vmi
    /\ Enqueue
    /\ UNCHANGED <<labsession, cache, events, vmi, ttyd, pod, podSeen, objects,
                   objectsSeen, world, timer, worker, bounds>>

\* Pods are cached because they are read, but the controller does not own them.
ObservePod ==
    /\ podSeen # pod
    /\ podSeen' = pod
    /\ UNCHANGED <<labsession, cache, events, vmi, vmiSeen, ttyd, pod, objects,
                   objectsSeen, world, queue, worker, bounds>>

\* Mutant: the controller does not own them.
ObserveObjectQuietly(o) ==
    /\ (o \in objectsSeen) # (o \in objects)
    /\ objectsSeen' = IF o \in objects THEN objectsSeen \cup {o}
                                       ELSE objectsSeen \ {o}
    /\ UNCHANGED <<labsession, cache, events, vmi, vmiSeen, ttyd, pod, podSeen,
                   objects, world, queue, worker, bounds>>

\* A watch for each kind; the controller owns these kinds too.
ObserveObject(o) ==
    /\ (o \in objectsSeen) # (o \in objects)
    /\ objectsSeen' = IF o \in objects THEN objectsSeen \cup {o}
                                       ELSE objectsSeen \ {o}
    /\ Enqueue
    /\ UNCHANGED <<labsession, cache, events, vmi, vmiSeen, ttyd, pod, podSeen,
                   objects, world, timer, worker, bounds>>

\* A change of an owned object that is left out here, such as the progress of a
\* DataVolume, and the informers' periodic resync.
Resync ==
    /\ cache.exists /\ ~queued /\ step = "idle"
    /\ Enqueue
    /\ UNCHANGED <<labsession, cache, events, cluster, world, timer, worker,
                   bounds>>

TimerFires ==
    /\ timer = "short" \/ (timer = "expiry" /\ passed)
    /\ timer' = "none"
    /\ Enqueue
    /\ UNCHANGED <<labsession, cache, events, cluster, world, worker, bounds>>

\* Queue, timers and caches are in memory: a new process lists everything and
\* enqueues every session it finds.  Its configuration may be another one.
Restart ==
    /\ restarts > 0
    /\ restarts' = restarts - 1
    /\ Idle
    /\ cache' = labsession /\ events' = <<>>
    /\ vmiSeen' = vmi /\ podSeen' = pod /\ objectsSeen' = objects \cap Lagging
    /\ queued' = labsession.exists /\ timer' = "none"
    /\ configured' \in BOOLEAN
    /\ UNCHANGED <<labsession, vmi, ttyd, pod, objects, passed, requests,
                   failures>>

-----------------------------------------------------------------------------
(* The requests of the lab server, the clock and the cluster.              *)

Request(kind, v) ==
    /\ kind \in Inputs /\ requests > 0 /\ labsession.exists
    /\ requests' = requests - 1
    /\ v # labsession /\ Write(v)
    /\ current' = FALSE
    /\ UNCHANGED <<cache, cluster, world, queue, step, goal, ls, result,
                   failures, restarts>>

Pause == Request("pause", [labsession EXCEPT !.paused = TRUE])

Resume == Request("resume", [labsession EXCEPT !.paused = FALSE])

Expire == Request("expire", [labsession EXCEPT !.due = TRUE])

\* Without a finalizer the object is dropped at once.
Delete ==
    Request("delete",
            IF labsession.finalizer THEN [labsession EXCEPT !.deleting = TRUE]
                                    ELSE NoSession)

TTLPasses ==
    /\ "deadline" \in Inputs /\ ~passed /\ passed' = TRUE
    /\ UNCHANGED <<labsession, cache, events, cluster, configured, queue,
                   worker, bounds>>

VMIBecomes(from, to) ==
    /\ vmi \in from /\ vmi' = to
    /\ UNCHANGED <<labsession, cache, events, vmiSeen, pod, podSeen, objects,
                   objectsSeen, world, queue, worker, bounds>>

VMIStarts == VMIBecomes({"pending"}, "running") /\ UNCHANGED ttyd

\* The guest crashes, shuts down, or is never scheduled.
VMIFails == VMIBecomes({"pending", "running"}, "failed") /\ ttyd' = FALSE

VMIGone == VMIBecomes({"deleting"}, "absent") /\ ttyd' = FALSE

GuestBoots ==
    /\ vmi = "running" /\ ~ttyd /\ ttyd' = TRUE
    /\ UNCHANGED <<labsession, cache, events, vmi, vmiSeen, pod, podSeen,
                   objects, objectsSeen, world, queue, worker, bounds>>

PodBecomes(from, to) ==
    /\ pod = from /\ pod' = to
    /\ UNCHANGED <<labsession, cache, events, vmi, vmiSeen, ttyd, podSeen,
                   objects, objectsSeen, world, queue, worker, bounds>>

PodReady == PodBecomes("pending", "ready")

PodGone == PodBecomes("deleting", "absent")

\* Every object is owned by the LabSession.
GarbageCollect ==
    /\ ~labsession.exists
    /\ \/ objects # {} \/ vmi \notin {"absent", "deleting"}
       \/ pod \notin {"absent", "deleting"}
    /\ objects' = {} /\ vmi' = VMIDeleted(vmi) /\ pod' = PodDeleted(pod)
    /\ UNCHANGED <<labsession, cache, events, vmiSeen, ttyd, podSeen,
                   objectsSeen, world, queue, worker, bounds>>

Environment ==
    \/ Pause \/ Resume \/ Expire \/ Delete \/ TTLPasses
    \/ VMIStarts \/ VMIFails \/ VMIGone \/ GuestBoots
    \/ PodReady \/ PodGone \/ GarbageCollect

Watch ==
    \/ ObserveSession \/ ObserveVMI \/ ObservePod
    \/ \E o \in Lagging : ObserveObject(o)

\* A deleted session leaves nothing to do.
Finished ==
    /\ ~labsession.exists /\ ~cache.exists /\ ~queued /\ step = "idle"
    /\ UNCHANGED vars

Next ==
    \/ Finished
    \/ Reconcile \/ Call \/ Failure
    \/ Watch \/ Resync \/ TimerFires \/ Restart
    \/ Environment

Spec == Init /\ [][Next]_vars

\* The worker, the watches and the timers of controller-runtime keep running;
\* KubeVirt and the scheduler finish what they were asked for (no two of the steps
\* of a VMI, or of a Pod, are enabled at the same time).  Neither the periodic resync
\* nor a failure, a request or the deadline has to come.
Fairness ==
    /\ WF_vars(Reconcile \/ Call)
    /\ WF_vars(ObserveSession) /\ WF_vars(ObserveVMI) /\ WF_vars(ObservePod)
    /\ \A o \in Lagging : WF_vars(ObserveObject(o))
    /\ WF_vars(TimerFires)
    /\ WF_vars(VMIStarts \/ VMIGone \/ GuestBoots)
    /\ WF_vars(PodReady \/ PodGone)

FairSpec == Spec /\ Fairness

-----------------------------------------------------------------------------
(* Properties.                                                             *)

\* The VMI is gone, or deleted and terminating: KubeVirt is stopping its guest.
LetGo == vmi \in {"absent", "deleting"}

\* Nothing is left to do or to observe before the deadline, unless somebody acts.
Settled ==
    /\ step = "idle" /\ ~queued /\ timer # "short" /\ events = <<>>
    /\ vmi # "deleting"
    /\ vmiSeen = vmi /\ podSeen = pod /\ objectsSeen = objects \cap Lagging

\* A session reported as Expired has had its VM, its disk, its network exposure
\* and its bootstrap Pod deleted, whatever failed, raced or was retried on the way:
\* Reconcile patches Expired after Teardown only.  It does not wait for the VM and
\* the Pod, which may still be terminating.
ExpiredIsTornDown ==
    labsession.phase = "Expired" =>
        /\ LetGo
        /\ objects \subseteq {"Secret"}
        /\ pod \in {"absent", "deleting"}

\* What the LabSession and the clock say of the session, in the terms of SessionLifecycle.
Verdict ==
    IF ~labsession.exists THEN "gone"
    ELSE IF labsession.phase = "Expired" THEN "Expired"
    ELSE IF Expired(labsession) \/ labsession.deleting THEN "closing"
    ELSE "open"

HasCompute == ~LetGo \/ pod \in {"pending", "ready"}

HasExposure == objects \cap {"Service", "NetworkPolicy"} # {}

HasDisk == "DataVolume" \in objects

\* What it holds; a VMI that is being deleted no longer counts.
Holds ==
    {r \in {"compute", "exposure", "disk"} :
        \/ r = "compute" /\ HasCompute
        \/ r = "exposure" /\ HasExposure
        \/ r = "disk" /\ HasDisk}

Lifecycle == INSTANCE SessionLifecycle WITH verdict <- Verdict, holds <- Holds

\* The operator keeps the promises of SessionLifecycle: through every race, error
\* and restart the disk is dropped last and only for a session that has ended,
\* and a session reported over holds nothing and acquires nothing again.
ImplementsLifecycle == Lifecycle!Spec

\* Once everything is observed, a Ready session has an address, a VM that was not
\* deleted, and everything that VM needs to be reached and resumed.
ReadyIsBacked ==
    Settled /\ labsession.phase = "Ready" =>
        /\ labsession.dns
        /\ vmi = "running"
        /\ objects = Objects

\* The VM of a session reported as Paused has been deleted, though it may still be
\* terminating if the informer had not seen it yet, and its exposure and bootstrap Pod
\* too, whatever copies were stale and whatever failed: nothing is created for it, and
\* Paused is patched only after the teardown.  It holds as long as nobody resumes;
\* PausedVMIsStopped is what a resume breaks, even once everything is observed.
PausedIsLetGo ==
    labsession.phase = "Paused" =>
        /\ LetGo
        /\ objects \subseteq {"DataVolume", "Secret"}
        /\ pod \in {"absent", "deleting"}

-----------------------------------------------------------------------------
(* What the code or its documents say and the runs refute.                 *)

\* "stopped is true only after the VMI no longer exists, so the controller does
\* not report Paused while compute is running" (provider.go), at least not for as
\* long as nothing happens.  A Paused patch that overtakes a resume, a stale copy
\* that brings the VM up again, and a second pause leave such a session.
PausedVMIsStopped ==
    Settled /\ labsession.phase = "Paused" /\ labsession.paused => vmi = "absent"

-----------------------------------------------------------------------------
(* Liveness.                                                               *)

Ended == ~labsession.exists \/ Expired(labsession)

\* A session whose deadline passes, or that is ended, while it is not Paused is
\* reported as Expired, or is gone, and its VM is gone.
ExpiryEnforced ==
    labsession.exists /\ Expired(labsession) /\ labsession.phase # "Paused" ~>
        /\ labsession.exists => labsession.phase = "Expired"
        /\ vmi = "absent"

\* A pause that is not taken back is reported, and the VM is gone, as long as
\* nobody resumes.
PauseConverges ==
    labsession.paused ~>
        \/ labsession.phase = "Paused" /\ vmi = "absent"
        \/ ~labsession.paused \/ Ended \/ labsession.deleting

\* A session that is to run, fresh or resumed, becomes Ready and has all its objects,
\* even those a stale copy passed over, unless its VM fails or somebody pauses or ends it.
ResumeConverges ==
    ~labsession.paused /\ labsession.exists ~>
        \/ labsession.phase = "Ready" /\ vmi = "running" /\ objects = Objects
        \/ vmi = "failed"
        \/ labsession.paused \/ Ended \/ labsession.deleting

\* A deleted session goes away.
DeletionCompletes == labsession.deleting ~> ~labsession.exists
=============================================================================
