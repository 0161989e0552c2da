--------------------------- MODULE SessionManager ---------------------------
(***************************************************************************)
(* The lab server's session manager (internal/session/manager.go): the     *)
(* admission of new sessions.  Create holds createMu from its LIST to its  *)
(* CREATE, but the mutex belongs to one server process and a rollout runs  *)
(* two; meanwhile deadlines pass, learners end their sessions and the      *)
(* operator reports phases.  LabOperator models the operator; here it is   *)
(* whatever may change the phase of a LabSession.                          *)
(***************************************************************************)
EXTENDS Naturals, FiniteSets

CONSTANTS
    Clients,    \* clientIDs
    Ids,        \* the session IDs there are to draw
    Servers,    \* the server processes running at the same time
    MaxActive,  \* MAX_ACTIVE_SESSIONS
    None        \* not a client

ASSUME ManagerAssumption ==
    /\ IsFiniteSet(Ids)
    /\ IsFiniteSet(Servers) /\ Servers # {}
    /\ MaxActive \in Nat \ {0}
    /\ None \notin Clients

\* The phases before the session has ended.  "Provisioning" stands for all those
\* up to Ready, which nothing here tells apart.
LivePhases == {"Provisioning", "Paused", "Failed"}

\* over: spec.expiresAt is not after the current time.
Session == [client : Clients \cup {None}, phase : LivePhases \cup {"Expired"},
            over : BOOLEAN]

Absent == [client |-> None, phase |-> "Provisioning", over |-> FALSE]

VARIABLES
    sessions,   \* the LabSession of every ID
    creating,   \* for each server, the client whose Create holds createMu
    hadFailed   \* the IDs whose session was Failed at some time

vars == <<sessions, creating, hadFailed>>

TypeOK ==
    /\ sessions \in [Ids -> Session]
    /\ creating \in [Servers -> Clients \cup {None}]
    /\ hadFailed \subseteq Ids

Init ==
    /\ sessions = [i \in Ids |-> Absent]
    /\ creating = [s \in Servers |-> None]
    /\ hadFailed = {}

-----------------------------------------------------------------------------

Exists(i) == sessions[i].client # None

\* Create's notion of a session that no longer counts.
Expired(x) == x.phase = "Expired" \/ x.over

Active == {i \in Ids : Exists(i) /\ ~Expired(sessions[i])}

\* Mutant: a paused session of the client does not stand in its way either.
BlockingUnpaused(c) ==
    {i \in Active : sessions[i].client = c /\ sessions[i].phase \notin {"Failed", "Paused"}}

\* A Failed session of the client does not stand in its way.
Blocking(c) ==
    {i \in Active : sessions[i].client = c /\ sessions[i].phase # "Failed"}

\* Mutant: the count is off by one.
AdmitPastCapacity(s, c) ==
    /\ creating[s] = None
    /\ Blocking(c) = {}
    /\ Cardinality(Active) <= MaxActive
    /\ creating' = [creating EXCEPT ![s] = c]
    /\ UNCHANGED <<sessions, hadFailed>>

\* Create takes the mutex, lists the sessions and goes on to create one.  A
\* refusal, for ErrSessionExists or ErrCapacityReached, leaves no trace.
Admit(s, c) ==
    /\ creating[s] = None
    /\ Blocking(c) = {}
    /\ Cardinality(Active) < MaxActive
    /\ creating' = [creating EXCEPT ![s] = c]
    /\ UNCHANGED <<sessions, hadFailed>>

CreateSession(s, i) ==
    /\ creating[s] # None /\ sessions[i] = Absent
    /\ sessions' = [sessions EXCEPT ![i] = [Absent EXCEPT !.client = creating[s]]]
    /\ creating' = [creating EXCEPT ![s] = None]
    /\ hadFailed' = hadFailed \ {i}

\* The scenario does not load, the API call fails, or the process dies.
CreateFails(s) ==
    /\ creating[s] # None
    /\ creating' = [creating EXCEPT ![s] = None]
    /\ UNCHANGED <<sessions, hadFailed>>

\* Mutant: Expire reports a phase of its own.
EndsWithPhase(i) ==
    /\ Exists(i)
    /\ sessions' = [sessions EXCEPT ![i].over = TRUE, ![i].phase = "Ended"]
    /\ UNCHANGED <<creating, hadFailed>>

\* spec.expiresAt is reached, or Expire sets it to the current time.
Ends(i) ==
    /\ Exists(i) /\ ~sessions[i].over
    /\ sessions' = [sessions EXCEPT ![i].over = TRUE]
    /\ UNCHANGED <<creating, hadFailed>>

\* Delete.  Create goes on counting the session until its finalizer is removed,
\* so its disappearance is the step.
Delete(i) ==
    /\ Exists(i)
    /\ sessions' = [sessions EXCEPT ![i] = Absent]
    /\ hadFailed' = hadFailed \ {i}
    /\ UNCHANGED creating

-----------------------------------------------------------------------------
(* The operator.                                                           *)

\* It may report from a copy that is older than the end of the session.
Report(i, phase) ==
    /\ Exists(i) /\ sessions[i].phase \notin {phase, "Expired"}
    /\ sessions' = [sessions EXCEPT ![i].phase = phase]
    /\ hadFailed' = IF phase = "Failed" THEN hadFailed \cup {i} ELSE hadFailed
    /\ UNCHANGED creating

ReportExpired(i) ==
    /\ Exists(i) /\ sessions[i].over /\ sessions[i].phase # "Expired"
    /\ sessions' = [sessions EXCEPT ![i].phase = "Expired"]
    /\ UNCHANGED <<creating, hadFailed>>

Next ==
    \/ \E s \in Servers :
        \/ \E c \in Clients : Admit(s, c)
        \/ \E i \in Ids : CreateSession(s, i)
        \/ CreateFails(s)
    \/ \E i \in Ids :
        \/ Ends(i) \/ Delete(i) \/ ReportExpired(i)
        \/ \E phase \in LivePhases : Report(i, phase)

Spec == Init /\ [][Next]_vars

-----------------------------------------------------------------------------
(* Properties.                                                             *)

\* However many server processes overlap, the sessions Create counts exceed
\* MAX_ACTIVE_SESSIONS by at most one for each process beyond the first: with
\* the single replica of the chart they never exceed it.
CapacityBound ==
    Cardinality(Active) <= MaxActive + (Cardinality(Servers) - 1)

Unfailed(c) == {i \in Active \ hadFailed : sessions[i].client = c}

\* A client has at most one active session for each server process, leaving
\* aside sessions that were Failed at some time.
PerClientBound == \A c \in Clients : Cardinality(Unfailed(c)) <= Cardinality(Servers)

\* A session that is Failed is among those that ever were.
FailedRecorded ==
    \A i \in Ids : Exists(i) /\ sessions[i].phase = "Failed" => i \in hadFailed

\* What makes both hold: a process that has listed the sessions and not yet
\* created one counts as the session it may create.
Creating(C) == {s \in Servers : creating[s] \in C}

CountsInv ==
    /\ Cardinality(Active) + Cardinality(Creating(Clients))
           <= MaxActive + (Cardinality(Servers) - 1)
    /\ \A c \in Clients :
           Cardinality(Unfailed(c)) + Cardinality(Creating({c})) <= Cardinality(Servers)
=============================================================================
