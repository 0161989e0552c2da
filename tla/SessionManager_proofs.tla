------------------------ MODULE SessionManager_proofs ------------------------
(***************************************************************************)
(* Proofs about SessionManager for any clients, IDs, server processes and  *)
(* bound: how many sessions Create lets be active; and about Catalog on    *)
(* top of it: a browser is led only to labs of its own.                    *)
(***************************************************************************)
EXTENDS Catalog, FiniteSetTheorems, TLAPS

\* Every step of the manager keeps the types.
LEMMA TypePreserved == TypeOK /\ [Next]_vars => TypeOK'
<1> SUFFICES ASSUME TypeOK, [Next]_vars PROVE TypeOK'
  OBVIOUS
<1> USE DEF TypeOK, Session
<1>1. ASSUME NEW s \in Servers, NEW c \in Clients, Admit(s, c) PROVE TypeOK'
  BY <1>1 DEF Admit
<1>2. ASSUME NEW s \in Servers, NEW i \in Ids, CreateSession(s, i) PROVE TypeOK'
  BY <1>2 DEF CreateSession, Absent, LivePhases
<1>3. ASSUME NEW s \in Servers, CreateFails(s) PROVE TypeOK'
  BY <1>3 DEF CreateFails
<1>4. ASSUME NEW i \in Ids, Ends(i) PROVE TypeOK'
  BY <1>4 DEF Ends
<1>5. ASSUME NEW i \in Ids, Delete(i) PROVE TypeOK'
  BY <1>5 DEF Delete, Absent, LivePhases
<1>6. ASSUME NEW i \in Ids, ReportExpired(i) PROVE TypeOK'
  BY <1>6 DEF ReportExpired
<1>7. ASSUME NEW i \in Ids, NEW phase \in LivePhases, Report(i, phase) PROVE TypeOK'
  BY <1>7 DEF Report
<1>8. CASE UNCHANGED vars
  BY <1>8 DEF vars
<1>9. QED
  BY <1>1, <1>2, <1>3, <1>4, <1>5, <1>6, <1>7, <1>8 DEF Next

\* Every state of the manager has its type.
THEOREM TypeCorrect == Spec => []TypeOK
<1>1. Init => TypeOK
  BY ManagerAssumption DEF Init, TypeOK, Session, Absent, LivePhases
<1>2. QED
  BY <1>1, TypePreserved, PTL DEF Spec

-----------------------------------------------------------------------------
(* The two counts of CountsInv have one shape: sessions that count, and    *)
(* servers that may add one.  A step that lets neither set grow keeps the  *)
(* sum; CreateSession moves one from the servers to the sessions.          *)

\* Subsets of finite sets have no larger cardinalities, so sums of them shrink.
LEMMA SumShrinks ==
  ASSUME NEW A, NEW B, IsFiniteSet(A), IsFiniteSet(B),
         NEW C \in SUBSET A, NEW D \in SUBSET B, NEW n \in Nat,
         Cardinality(A) + Cardinality(B) <= n
  PROVE  Cardinality(C) + Cardinality(D) <= n
<1>1. /\ Cardinality(A) \in Nat /\ Cardinality(B) \in Nat
      /\ Cardinality(C) \in Nat /\ Cardinality(D) \in Nat
  BY FS_CardinalityType, FS_Subset
<1>2. Cardinality(C) <= Cardinality(A) /\ Cardinality(D) <= Cardinality(B)
  BY FS_Subset
<1>3. QED
  BY <1>1, <1>2

\* One element leaves B and at most one is added to A: the sum does not grow.
LEMMA SumMoves ==
  ASSUME NEW A, NEW B, IsFiniteSet(A), IsFiniteSet(B), NEW x, NEW y \in B,
         NEW C \in SUBSET (A \cup {x}), NEW n \in Nat,
         Cardinality(A) + Cardinality(B) <= n
  PROVE  Cardinality(C) + Cardinality(B \ {y}) <= n
<1>1. Cardinality(A) \in Nat /\ Cardinality(B) \in Nat
  BY FS_CardinalityType
<1>2. /\ IsFiniteSet(A \cup {x})
      /\ Cardinality(A \cup {x}) <= Cardinality(A) + 1
  <2>1. /\ IsFiniteSet(A \cup {x})
        /\ \/ Cardinality(A \cup {x}) = Cardinality(A)
           \/ Cardinality(A \cup {x}) = Cardinality(A) + 1
    BY FS_AddElement, Zenon
  <2>2. QED
    BY <1>1, <2>1
<1>3. Cardinality(C) \in Nat /\ Cardinality(C) <= Cardinality(A \cup {x})
  BY <1>2, FS_CardinalityType, FS_Subset
<1>4. Cardinality(B \ {y}) = Cardinality(B) - 1
  BY FS_RemoveElement
<1>5. Cardinality(A \cup {x}) \in Nat
  BY <1>2, FS_CardinalityType
<1>6. QED
  BY <1>1, <1>2, <1>3, <1>4, <1>5

\* The sets that are counted are finite, and the bound is a number.
LEMMA Finiteness ==
  /\ IsFiniteSet(Active)
  /\ \A c \in Clients : IsFiniteSet(Unfailed(c))
  /\ \A C : /\ IsFiniteSet(Creating(C))
            /\ Cardinality(Creating(C)) \in Nat
            /\ Cardinality(Creating(C)) <= Cardinality(Servers)
  /\ Cardinality(Servers) \in Nat
  /\ Cardinality(Active) \in Nat
  /\ MaxActive + (Cardinality(Servers) - 1) \in Nat
<1>1. IsFiniteSet(Ids) /\ IsFiniteSet(Servers) /\ MaxActive \in Nat \ {0}
  BY ManagerAssumption
<1>2. IsFiniteSet(Active) /\ Cardinality(Active) \in Nat
  BY <1>1, FS_Subset, FS_CardinalityType DEF Active
<1>3. ASSUME NEW c \in Clients PROVE IsFiniteSet(Unfailed(c))
  BY <1>1, FS_Subset DEF Active, Unfailed
<1>4. ASSUME NEW C
      PROVE  /\ IsFiniteSet(Creating(C)) /\ Cardinality(Creating(C)) \in Nat
             /\ Cardinality(Creating(C)) <= Cardinality(Servers)
  <2>1. Creating(C) \in SUBSET Servers
    BY DEF Creating
  <2>2. QED
    BY <1>1, <2>1, FS_Subset, FS_CardinalityType
<1>5. Cardinality(Servers) \in Nat
  BY <1>1, FS_CardinalityType
<1>6. MaxActive + (Cardinality(Servers) - 1) \in Nat
  BY <1>1, <1>5
<1>7. QED
  BY <1>2, <1>3, <1>4, <1>5, <1>6

\* What a step other than Admit may do to the counted sets: every set shrinks,
\* or one session is created by a process that had counted for it.
LEMMA CountsPreserved ==
  ASSUME TypeOK, CountsInv, TypeOK', Next,
         \A s \in Servers, c \in Clients : ~Admit(s, c)
  PROVE  CountsInv'
<1> USE DEF TypeOK, Session
<1>1. ASSUME Active' \subseteq Active,
             Creating(Clients)' \subseteq Creating(Clients),
             \A c \in Clients : /\ Unfailed(c)' \subseteq Unfailed(c)
                               /\ Creating({c})' \subseteq Creating({c})
      PROVE  CountsInv'
  <2>1. Cardinality(Active') + Cardinality(Creating(Clients)')
            <= MaxActive + (Cardinality(Servers) - 1)
    BY <1>1, Finiteness, SumShrinks DEF CountsInv
  <2>2. ASSUME NEW c \in Clients
        PROVE  Cardinality(Unfailed(c)') + Cardinality(Creating({c})')
                   <= Cardinality(Servers)
    BY <1>1, Finiteness, SumShrinks DEF CountsInv
  <2>3. QED
    BY <2>1, <2>2 DEF CountsInv
<1>2. ASSUME NEW s \in Servers, NEW i \in Ids, CreateSession(s, i) PROVE CountsInv'
  <2>1. /\ creating[s] \in Clients
        /\ Active' \subseteq Active \cup {i}
        /\ Creating(Clients)' = Creating(Clients) \ {s}
        /\ s \in Creating(Clients)
    BY <1>2, ManagerAssumption
    DEF CreateSession, Active, Creating, Exists, Expired, Absent
  <2>2. Cardinality(Active') + Cardinality(Creating(Clients)')
            <= MaxActive + (Cardinality(Servers) - 1)
    BY <2>1, Finiteness, SumMoves DEF CountsInv
  <2>3. ASSUME NEW c \in Clients
        PROVE  Cardinality(Unfailed(c)') + Cardinality(Creating({c})')
                   <= Cardinality(Servers)
    <3>1. CASE creating[s] = c
      <4>1. /\ Unfailed(c)' \subseteq Unfailed(c) \cup {i}
            /\ Creating({c})' = Creating({c}) \ {s}
            /\ s \in Creating({c})
        BY <1>2, <3>1, ManagerAssumption
        DEF CreateSession, Unfailed, Active, Creating, Exists, Expired, Absent
      <4>2. QED
        BY <4>1, Finiteness, SumMoves DEF CountsInv
    <3>2. CASE creating[s] # c
      <4>1. /\ Unfailed(c)' \subseteq Unfailed(c)
            /\ Creating({c})' \subseteq Creating({c})
        BY <1>2, <3>2, ManagerAssumption
        DEF CreateSession, Unfailed, Active, Creating, Exists, Expired, Absent
      <4>2. QED
        BY <4>1, Finiteness, SumShrinks DEF CountsInv
    <3>3. QED
      BY <3>1, <3>2
  <2>4. QED
    BY <2>2, <2>3 DEF CountsInv
<1>3. ASSUME NEW s \in Servers, CreateFails(s) PROVE CountsInv'
  BY <1>1, <1>3, ManagerAssumption
  DEF CreateFails, Creating, Active, Unfailed, Exists, Expired
<1>4. ASSUME NEW i \in Ids, Ends(i) PROVE CountsInv'
  BY <1>1, <1>4 DEF Ends, Creating, Active, Unfailed, Exists, Expired
<1>5. ASSUME NEW i \in Ids, Delete(i) PROVE CountsInv'
  BY <1>1, <1>5, ManagerAssumption
  DEF Delete, Creating, Active, Unfailed, Exists, Expired, Absent
<1>6. ASSUME NEW i \in Ids, ReportExpired(i) PROVE CountsInv'
  BY <1>1, <1>6 DEF ReportExpired, Creating, Active, Unfailed, Exists, Expired
<1>7. ASSUME NEW i \in Ids, NEW phase \in LivePhases, Report(i, phase)
      PROVE  CountsInv'
  BY <1>1, <1>7
  DEF Report, Creating, Active, Unfailed, Exists, Expired, LivePhases
<1>8. QED
  BY <1>2, <1>3, <1>4, <1>5, <1>6, <1>7 DEF Next

\* Admit looks at both counts: the listed sessions leave room for one more, and
\* none of the client's stands in the way, so every process may add one.
LEMMA AdmitPreserves ==
  ASSUME TypeOK, TypeOK', NEW s \in Servers, NEW d \in Clients, Admit(s, d),
         CountsInv, FailedRecorded
  PROVE  CountsInv'
<1> USE DEF TypeOK, Session
<1>1. /\ Active' = Active
      /\ \A c \in Clients : Unfailed(c)' = Unfailed(c)
  BY DEF Admit, Active, Unfailed, Exists, Expired
<1>2. Cardinality(Active') + Cardinality(Creating(Clients)')
          <= MaxActive + (Cardinality(Servers) - 1)
  <2>1. Cardinality(Active) <= MaxActive - 1
    BY Finiteness, ManagerAssumption DEF Admit
  <2>2. /\ Cardinality(Creating(Clients)') \in Nat
        /\ Cardinality(Creating(Clients)') <= Cardinality(Servers)
    BY ManagerAssumption, FS_Subset, FS_CardinalityType DEF Creating
  <2>3. QED
    BY <1>1, <2>1, <2>2, Finiteness, ManagerAssumption
<1>3. ASSUME NEW c \in Clients
      PROVE  Cardinality(Unfailed(c)') + Cardinality(Creating({c})')
                 <= Cardinality(Servers)
  <2>1. CASE c = d
    <3>1. Unfailed(c)' = {}
      <4>1. \A i \in Active \ hadFailed : sessions[i].client = c =>
                                             sessions[i].phase = "Failed"
        BY <2>1 DEF Admit, Blocking, Active
      <4>2. Unfailed(c) = {}
        BY <4>1 DEF FailedRecorded, Unfailed, Active
      <4>3. QED
        BY <1>1, <4>2
    <3>2. /\ Cardinality(Creating({c})') \in Nat
          /\ Cardinality(Creating({c})') <= Cardinality(Servers)
      BY ManagerAssumption, FS_Subset, FS_CardinalityType DEF Creating
    <3>3. QED
      BY <3>1, <3>2, FS_EmptySet, Finiteness
  <2>2. CASE c # d
    <3>1. Creating({c})' \subseteq Creating({c})
      BY <2>2 DEF Admit, Creating
    <3>2. QED
      BY <1>1, <3>1, Finiteness, SumShrinks DEF CountsInv
  <2>3. QED
    BY <2>1, <2>2
<1>4. QED
  BY <1>2, <1>3 DEF CountsInv

\* A session that is Failed is recorded as having been.
LEMMA FailedRecordedPreserved ==
  ASSUME TypeOK, FailedRecorded, [Next]_vars
  PROVE  FailedRecorded'
<1> USE DEF TypeOK, Session, FailedRecorded, Exists
<1>1. ASSUME NEW s \in Servers, NEW c \in Clients, Admit(s, c) PROVE FailedRecorded'
  BY <1>1 DEF Admit
<1>2. ASSUME NEW s \in Servers, NEW i \in Ids, CreateSession(s, i)
      PROVE  FailedRecorded'
  BY <1>2 DEF CreateSession, Absent
<1>3. ASSUME NEW s \in Servers, CreateFails(s) PROVE FailedRecorded'
  BY <1>3 DEF CreateFails
<1>4. ASSUME NEW i \in Ids, Ends(i) PROVE FailedRecorded'
  BY <1>4 DEF Ends
<1>5. ASSUME NEW i \in Ids, Delete(i) PROVE FailedRecorded'
  BY <1>5 DEF Delete, Absent
<1>6. ASSUME NEW i \in Ids, ReportExpired(i) PROVE FailedRecorded'
  BY <1>6 DEF ReportExpired
<1>7. ASSUME NEW i \in Ids, NEW phase \in LivePhases, Report(i, phase)
      PROVE  FailedRecorded'
  BY <1>7 DEF Report
<1>8. CASE UNCHANGED vars
  BY <1>8 DEF vars
<1>9. QED
  BY <1>1, <1>2, <1>3, <1>4, <1>5, <1>6, <1>7, <1>8 DEF Next

-----------------------------------------------------------------------------

IInv == TypeOK /\ FailedRecorded /\ CountsInv

\* The inductive invariant behind both bounds.
THEOREM CountsAreInvariant == Spec => []IInv
<1>1. Init => IInv
  <2> SUFFICES ASSUME Init PROVE IInv
    OBVIOUS
  <2>1. TypeOK /\ FailedRecorded
    BY ManagerAssumption
    DEF Init, TypeOK, Session, Absent, LivePhases, FailedRecorded, Exists
  <2>2. /\ Active = {} /\ Creating(Clients) = {}
        /\ \A c \in Clients : Unfailed(c) = {} /\ Creating({c}) = {}
    BY ManagerAssumption DEF Init, Active, Unfailed, Creating, Exists, Absent
  <2>3. CountsInv
    BY <2>2, FS_EmptySet, Finiteness DEF CountsInv
  <2>4. QED
    BY <2>1, <2>3 DEF IInv
<1>2. TypeOK /\ TypeOK' /\ IInv /\ [Next]_vars => IInv'
  <2> SUFFICES ASSUME TypeOK, TypeOK', IInv, [Next]_vars PROVE IInv'
    OBVIOUS
  <2>1. FailedRecorded'
    BY FailedRecordedPreserved DEF IInv
  <2>2. CountsInv'
    <3>1. CASE UNCHANGED vars
      BY <3>1 DEF vars, IInv, CountsInv, Active, Unfailed, Creating, Exists, Expired
    <3>2. CASE \E s \in Servers, c \in Clients : Admit(s, c)
      BY <3>2, AdmitPreserves DEF IInv
    <3>3. CASE Next /\ \A s \in Servers, c \in Clients : ~Admit(s, c)
      BY <3>3, CountsPreserved DEF IInv
    <3>4. QED
      BY <3>1, <3>2, <3>3
  <2>3. QED
    BY <2>1, <2>2 DEF IInv
<1>3. QED
  BY <1>1, <1>2, TypeCorrect, PTL DEF Spec

\* The sessions Create counts as active exceed MAX_ACTIVE_SESSIONS by at most one
\* for each server process beyond the first.
THEOREM CapacityIsBounded == Spec => []CapacityBound
<1>1. IInv => CapacityBound
  BY Finiteness DEF IInv, CountsInv, CapacityBound
<1>2. QED
  BY <1>1, CountsAreInvariant, PTL

\* A client has at most one active session for each server process, sessions that
\* were Failed at some time aside.
THEOREM ClientIsBounded == Spec => []PerClientBound
<1>1. IInv => PerClientBound
  <2> SUFFICES ASSUME IInv, NEW c \in Clients
               PROVE  Cardinality(Unfailed(c)) <= Cardinality(Servers)
    BY DEF PerClientBound
  <2>1. Cardinality(Unfailed(c)) \in Nat
    BY Finiteness, FS_CardinalityType
  <2>2. /\ Cardinality(Creating({c})) \in Nat
        /\ Cardinality(Servers) \in Nat
    BY Finiteness
  <2>3. Cardinality(Unfailed(c)) + Cardinality(Creating({c})) <= Cardinality(Servers)
    BY DEF IInv, CountsInv
  <2>4. QED
    BY <2>1, <2>2, <2>3
<1>2. QED
  BY <1>1, CountsAreInvariant, PTL

-----------------------------------------------------------------------------
(* The catalog page and its handlers.                                      *)

\* The requests that hold a mutex go on as they are, the others come from clients the
\* browser has been, and nothing becomes known: the invariant stands.
LEMMA HomeKept ==
  ASSUME CatalogTypeOK, HomeInv, UNCHANGED <<sessions, creating, drawn>>,
         cookie' \in drawn \cup {None},
         \A r \in Requests :
             /\ {request'[r].as, request'[r].draws} \subseteq drawn \cup {None}
             /\ request'[r].stage = "creating" =>
                    request[r].stage = "creating" /\ request'[r].at = request[r].at,
         \A i \in Ids : Known(i)' => Known(i)
  PROVE  HomeInv'
BY DEF HomeInv, OneBrowser, RequestsAreItsOwn, OneMutexEach, KnownIsItsOwn

\* A tab that shows something else leaves its requests to go on without it.
LEMMA LeavingKeeps ==
  ASSUME CatalogTypeOK, NEW t, NEW r \in Requests
  PROVE  LET q == Leaving(t)[r] IN
         /\ q \in Request
         /\ {q.as, q.draws} \subseteq {request[r].as, request[r].draws, None}
         /\ q.stage = "creating" => request[r].stage = "creating" /\ q.at = request[r].at
         /\ q.answer \in {request[r].answer, None}
<1>1. request[r] \in Request
  BY DEF CatalogTypeOK
<1>2. CASE request[r].tab # t
  BY <1>1, <1>2 DEF Leaving
<1>3. CASE request[r].tab = t /\ request[r].stage = "answered"
  BY <1>1, <1>3 DEF Leaving, Free, Request
<1>4. CASE request[r].tab = t /\ request[r].stage # "answered"
  BY <1>1, <1>4 DEF Leaving, Request
<1>5. QED
  BY <1>2, <1>3, <1>4

CatalogInv == CatalogTypeOK /\ HomeInv

\* What the browser knows of stays known, or is forgotten.
LEMMA NothingLearnt ==
  ASSUME \A t \in Tabs : \A i \in Ids :
             i \in {page'[t].lab, page'[t].activeSession} => Known(i),
         \A r \in Requests : \A i \in Ids : request'[r].answer = i => Known(i)
  PROVE  \A i \in Ids : Known(i)' => Known(i)
BY DEF Known

\* A tab is led to a session it knows of.
LEMMA LedKeeps ==
  ASSUME CatalogInv, NEW t \in Tabs, NEW i \in Ids \cup {None}, LedTo(t, i),
         i \in Ids => Known(i), UNCHANGED <<vars, drawn>>,
         cookie' \in drawn \cup {None}
  PROVE  CatalogInv'
<1> USE DEF CatalogInv
<1>1. CatalogTypeOK'
  <2>1. \A r \in Requests : request'[r] \in Request
    BY LeavingKeeps DEF LedTo
  <2>2. request' \in [Requests -> Request]
    BY <2>1 DEF LedTo, Leaving
  <2>3. page' \in [Tabs -> Page]
    BY DEF LedTo, CatalogTypeOK, Page
  <2>4. QED
    BY <2>2, <2>3 DEF CatalogTypeOK, TypeOK, vars
<1>2. \A r \in Requests :
          /\ {request'[r].as, request'[r].draws} \subseteq drawn \cup {None}
          /\ request'[r].stage = "creating" =>
                 request[r].stage = "creating" /\ request'[r].at = request[r].at
  BY LeavingKeeps DEF LedTo, HomeInv, RequestsAreItsOwn
<1>3. \A u \in Tabs : \A k \in Ids :
          k \in {page'[u].lab, page'[u].activeSession} => Known(k)
  BY CatalogAssumption DEF LedTo, CatalogTypeOK, Page, Known
<1>4. \A r \in Requests : \A k \in Ids : request'[r].answer = k => Known(k)
  BY LeavingKeeps, CatalogAssumption DEF LedTo, Known
<1>5. \A k \in Ids : Known(k)' => Known(k)
  BY <1>3, <1>4, NothingLearnt
<1>6. HomeInv'
  BY <1>2, <1>5, HomeKept DEF vars
<1>7. QED
  BY <1>1, <1>6

\* A request changes, without taking a mutex or learning of a session.
LEMMA RequestKeeps ==
  ASSUME CatalogInv, NEW r \in Requests, NEW q \in Request,
         request' = [request EXCEPT ![r] = q],
         {q.as, q.draws} \subseteq drawn \cup {None}, q.stage # "creating",
         q.answer \in Ids => Known(q.answer),
         page' \in [Tabs -> Page],
         \A t \in Tabs : \A i \in Ids :
             i \in {page'[t].lab, page'[t].activeSession} => Known(i),
         UNCHANGED <<vars, drawn>>, cookie' \in drawn \cup {None}
  PROVE  CatalogInv'
<1> USE DEF CatalogInv
<1>1. CatalogTypeOK'
  BY DEF CatalogTypeOK, TypeOK, vars
<1>2. \A k \in Requests : request'[k] = IF k = r THEN q ELSE request[k]
  BY DEF CatalogTypeOK
<1>3. \A k \in Requests :
          /\ {request'[k].as, request'[k].draws} \subseteq drawn \cup {None}
          /\ request'[k].stage = "creating" =>
                 request[k].stage = "creating" /\ request'[k].at = request[k].at
  BY <1>2 DEF HomeInv, RequestsAreItsOwn
<1>4. \A k \in Requests : \A i \in Ids : request'[k].answer = i => Known(i)
  BY <1>2 DEF Known
<1>5. \A i \in Ids : Known(i)' => Known(i)
  BY <1>4, NothingLearnt
<1>6. HomeInv'
  BY <1>3, <1>5, HomeKept DEF vars
<1>7. QED
  BY <1>1, <1>6

\* What a page shows, and what an answer says, is known.
LEMMA ShownIsKnown ==
  /\ \A t \in Tabs : \A i \in Ids : i \in {page[t].lab, page[t].activeSession} => Known(i)
  /\ \A r \in Requests : request[r].answer \in Ids => Known(request[r].answer)
BY DEF Known

\* What the learner does in a tab, and its loading, keeps the invariant.
LEMMA TabKeeps ==
  ASSUME CatalogInv, NEW t \in Tabs,
         \/ \E r \in Requests : CheckActiveSession(r, t) \/ StartLab(r, t)
         \/ Resume(t) \/ LoadCatalog(t)
  PROVE  CatalogInv'
<1> USE DEF CatalogInv
<1>1. /\ Free \in Request /\ cookie \in drawn \cup {None}
      /\ page \in [Tabs -> Page] /\ drawn \subseteq Clients
  BY DEF CatalogTypeOK, Free, Request, HomeInv, OneBrowser
<1>2. ASSUME NEW r \in Requests, CheckActiveSession(r, t) \/ StartLab(r, t)
      PROVE  CatalogInv'
  <2>1. PICK kind \in {"me", "start"} : Send(r, kind, t) /\ UNCHANGED <<vars, page, cookie, drawn>>
    BY <1>2 DEF CheckActiveSession, StartLab
  <2> DEFINE n == [Free EXCEPT !.kind = kind, !.tab = t, !.stage = "sent", !.as = cookie]
  <2>2. /\ n \in Request /\ n.as = cookie /\ n.draws = None
        /\ n.stage = "sent" /\ n.answer = None
    BY <1>1 DEF Free, Request
  <2>3. request' = [request EXCEPT ![r] = n]
    BY <2>1 DEF Send
  <2> HIDE DEF n
  <2>4. QED
    BY <1>1, <2>1, <2>2, <2>3, RequestKeeps, ShownIsKnown, CatalogAssumption
<1>3. CASE Resume(t)
  <2>1. page[t].activeSession \in Ids
    BY <1>1, <1>3 DEF Resume, Page
  <2>2. QED
    BY <1>1, <1>3, <2>1, LedKeeps, ShownIsKnown DEF Resume
<1>4. CASE LoadCatalog(t)
  <2>1. LedTo(t, None)
    BY <1>4 DEF LoadCatalog, LedTo
  <2>2. QED
    BY <1>1, <1>4, <2>1, LedKeeps, CatalogAssumption DEF LoadCatalog
<1>5. QED
  BY <1>2, <1>3, <1>4

\* So does a callback of the page, or a request that does not reach the server.
LEMMA CallbackKeeps ==
  ASSUME CatalogInv, NEW r \in Requests, Callback(r) \/ Unreached(r)
  PROVE  CatalogInv'
<1> USE DEF CatalogInv
<1>1. /\ Free \in Request /\ cookie \in drawn \cup {None}
      /\ page \in [Tabs -> Page] /\ drawn \subseteq Clients
  BY DEF CatalogTypeOK, Free, Request, HomeInv, OneBrowser
<1> DEFINE q == request[r]
<1>2. q \in Request /\ {q.as, q.draws} \subseteq drawn \cup {None}
  BY DEF CatalogTypeOK, HomeInv, RequestsAreItsOwn
<1> HIDE DEF q
<1>5. CASE Checked(r)
  <2>1. /\ request' = [request EXCEPT ![r] = Free]
        /\ cookie' \in drawn \cup {None}
        /\ UNCHANGED <<vars, drawn>>
        /\ q.tab \in Tabs
    BY <1>1, <1>2, <1>5 DEF Checked, Answered, Forget, q, Request
  <2>2. /\ page' \in [Tabs -> Page]
        /\ \A u \in Tabs : \A i \in Ids :
               i \in {page'[u].lab, page'[u].activeSession} => Known(i)
    BY <1>1, <1>2, <1>5, <2>1, ShownIsKnown DEF Checked, q, Page, Request
  <2>3. Free.as = None /\ Free.draws = None /\ Free.stage = "free" /\ Free.answer = None
    BY DEF Free
  <2>4. QED
    BY <1>1, <1>2, <2>1, <2>2, <2>3, RequestKeeps, CatalogAssumption
<1>6. CASE Started(r)
  BY <1>1, <1>2, <1>6, LedKeeps, ShownIsKnown DEF Started, Answered, q, Request
<1>7. CASE StartRefused(r)
  <2>1. /\ cookie' \in drawn \cup {None}
        /\ UNCHANGED <<vars, drawn>>
        /\ q.tab \in Tabs
    BY <1>1, <1>2, <1>7 DEF StartRefused, Answered, q, Request
  <2>2. CASE LedTo(q.tab, page[q.tab].activeSession) /\ page[q.tab].activeSession # None
    BY <1>1, <1>2, <2>1, <2>2, LedKeeps, ShownIsKnown DEF Page
  <2>3. CASE Forget(r) /\ UNCHANGED page
    <3>1. Free.as = None /\ Free.draws = None /\ Free.stage = "free" /\ Free.answer = None
      BY DEF Free
    <3>2. QED
      BY <1>1, <1>2, <2>1, <2>3, <3>1, RequestKeeps, ShownIsKnown, CatalogAssumption DEF Forget
  <2>4. QED
    BY <1>7, <2>2, <2>3 DEF StartRefused, q
<1>8. CASE Unreached(r)
  <2> DEFINE n == IF q.tab = None THEN Free
                  ELSE [q EXCEPT !.stage = "answered", !.at = None,
                                 !.draws = None, !.answer = None, !.refusal = "error"]
  <2>1. request' = [request EXCEPT ![r] = n]
    BY <1>8 DEF Unreached, Lose, Reply, q
  <2>2. /\ n \in Request /\ n.stage # "creating" /\ n.answer = None
        /\ {n.as, n.draws} \subseteq drawn \cup {None}
    BY <1>1, <1>2 DEF Free, Request
  <2>3. UNCHANGED <<vars, page, cookie, drawn>>
    BY <1>8 DEF Unreached
  <2> HIDE DEF n
  <2>4. QED
    BY <1>1, <1>2, <2>1, <2>2, <2>3, RequestKeeps, ShownIsKnown, CatalogAssumption
<1>9. QED
  BY <1>5, <1>6, <1>7, <1>8 DEF Callback

\* A server answers one request, for a client the browser is then known to have been, with
\* what is the client's, and the mutexes of the others are held as before.
LEMMA ServerKeeps ==
  ASSUME CatalogInv, TypeOK', UNCHANGED <<page, cookie>>,
         NEW r \in Requests, NEW n \in Request, request' = [request EXCEPT ![r] = n],
         NEW c \in Clients \ Others, drawn' = drawn \cup {c},
         n.as \in {request[r].as, None}, n.draws \in {c, None}, n.stage # "creating",
         n.answer \in Ids => sessions'[n.answer].client = c,
         \A i \in Ids : Known(i) => sessions'[i].client \in {sessions[i].client, None},
         \A k \in Requests \ {r} : request[k].stage = "creating" =>
             creating'[request[k].at] = creating[request[k].at]
  PROVE  CatalogInv'
<1> USE DEF CatalogInv
<1>1. \A k \in Requests : request'[k] = IF k = r THEN n ELSE request[k]
  BY DEF CatalogTypeOK
<1>2. CatalogTypeOK'
  BY DEF CatalogTypeOK
<1>3. OneBrowser'
  BY DEF HomeInv, OneBrowser
<1>4. RequestsAreItsOwn'
  BY <1>1 DEF HomeInv, RequestsAreItsOwn
<1>5. OneMutexEach'
  BY <1>1 DEF HomeInv, OneMutexEach
<1>6. KnownIsItsOwn'
  <2> SUFFICES ASSUME NEW i \in Ids, Known(i)' PROVE sessions'[i].client \in drawn' \cup {None}
    BY DEF KnownIsItsOwn
  <2>1. CASE Known(i)
    BY <2>1 DEF HomeInv, KnownIsItsOwn
  <2>2. CASE ~Known(i)
    <3>1. n.answer = i
      BY <1>1, <2>2 DEF Known
    <3>2. QED
      BY <2>2, <3>1
  <2>3. QED
    BY <2>1, <2>2
<1>7. QED
  BY <1>2, <1>3, <1>4, <1>5, <1>6 DEF HomeInv

\* An answer makes a request that is answered, or free.
LEMMA ReplyMakes ==
  ASSUME CatalogTypeOK, NEW r \in Requests, NEW draws \in Clients \cup {None},
         NEW answer \in Ids \cup {None}, NEW refusal \in {"none", "exists", "error"},
         Reply(r, draws, answer, refusal)
  PROVE  \E n \in Request :
             /\ request' = [request EXCEPT ![r] = n]
             /\ n.as \in {request[r].as, None} /\ n.draws \in {draws, None}
             /\ n.answer \in {answer, None} /\ n.stage # "creating"
<1> DEFINE q == request[r]
           n == IF q.tab = None THEN Free
                ELSE [q EXCEPT !.stage = "answered", !.at = None,
                               !.draws = draws, !.answer = answer, !.refusal = refusal]
<1>1. q \in Request
  BY DEF CatalogTypeOK
<1>2. request' = [request EXCEPT ![r] = n]
  BY DEF Reply
<1>3. /\ n \in Request /\ n.as \in {q.as, None} /\ n.draws \in {draws, None}
      /\ n.answer \in {answer, None} /\ n.stage # "creating"
  BY <1>1 DEF Free, Request
<1>4. QED
  BY <1>2, <1>3

\* A client that the server takes a request to be from.
LEMMA IdentifiedIsOwn ==
  ASSUME CatalogInv, NEW r \in Requests, NEW c \in Clients, Identified(r, c)
  PROVE  c \in Clients \ Others /\ Draws(r, c) \in {c, None}
BY DEF CatalogInv, HomeInv, OneBrowser, RequestsAreItsOwn, Identified, Draws

\* The handlers of the lab server keep the invariant.
LEMMA HandlersKeep ==
  ASSUME CatalogInv, TypeOK', NEW r \in Requests, Serve(r) \/ Create(r)
  PROVE  CatalogInv'
<1> USE DEF CatalogInv
<1>1. ASSUME NEW c \in Clients, GetMySession(r, c) PROVE CatalogInv'
  <2>1. PICK i \in GetActive(c) : Reply(r, Draws(r, c), i, "none")
    BY <1>1 DEF GetMySession, Answer
  <2>2. i \in Ids \cup {None} /\ (i \in Ids => sessions[i].client = c)
    BY CatalogAssumption DEF GetActive, Offered
  <2>3. c \in Clients \ Others /\ Draws(r, c) \in {c, None}
    BY <1>1, IdentifiedIsOwn DEF GetMySession
  <2>4. PICK n \in Request :
            /\ request' = [request EXCEPT ![r] = n]
            /\ n.as \in {request[r].as, None} /\ n.draws \in {Draws(r, c), None}
            /\ n.answer \in {i, None} /\ n.stage # "creating"
    BY <2>1, <2>2, <2>3, ReplyMakes
  <2>5. /\ UNCHANGED <<sessions, creating, page, cookie>> /\ drawn' = drawn \cup {c}
    BY <1>1 DEF GetMySession, vars
  <2>6. QED
    BY <2>2, <2>3, <2>4, <2>5, ServerKeeps, CatalogAssumption
<1>2. ASSUME NEW s \in Servers, NEW c \in Clients, CreateSessionRefuses(r, s, c)
      PROVE  CatalogInv'
  <2>1. PICK refusal \in {"exists", "error"} : Reply(r, Draws(r, c), None, refusal)
    BY <1>2 DEF CreateSessionRefuses, Refuse
  <2>2. c \in Clients \ Others /\ Draws(r, c) \in {c, None}
    BY <1>2, IdentifiedIsOwn DEF CreateSessionRefuses
  <2>3. PICK n \in Request :
            /\ request' = [request EXCEPT ![r] = n]
            /\ n.as \in {request[r].as, None} /\ n.draws \in {Draws(r, c), None}
            /\ n.answer = None /\ n.stage # "creating"
    BY <2>1, <2>2, ReplyMakes
  <2>4. /\ UNCHANGED <<sessions, creating, page, cookie>> /\ drawn' = drawn \cup {c}
    BY <1>2 DEF CreateSessionRefuses, vars
  <2>5. QED
    BY <2>2, <2>3, <2>4, ServerKeeps, CatalogAssumption
<1>3. ASSUME NEW s \in Servers, NEW c \in Clients, CreateSessionAdmits(r, s, c)
      PROVE  CatalogInv'
  <2> DEFINE n == [request[r] EXCEPT !.stage = "creating", !.at = s]
  <2>1. request[r] \in Request /\ request[r].stage = "sent"
    BY <1>3 DEF CreateSessionAdmits, CatalogTypeOK
  <2>2. /\ n \in Request /\ n.as = request[r].as /\ n.draws = request[r].draws
        /\ n.answer = request[r].answer /\ n.stage = "creating" /\ n.at = s
    BY <2>1 DEF Request
  <2>3. /\ UNCHANGED <<sessions, page, cookie>> /\ drawn' = drawn \cup {c}
        /\ request' = [request EXCEPT ![r] = n]
        /\ creating[s] = None /\ creating' = [creating EXCEPT ![s] = c]
    <3>1. request' = [request EXCEPT ![r].stage = "creating", ![r].at = s]
      BY <1>3 DEF CreateSessionAdmits
    <3>2. request' = [request EXCEPT ![r] = n]
      BY <3>1, <2>1 DEF CatalogTypeOK, Request
    <3>3. QED
      BY <1>3, <3>2 DEF CreateSessionAdmits, Admit
  <2>4. c \in Clients \ Others
    BY <1>3, IdentifiedIsOwn DEF CreateSessionAdmits
  <2>5. creating'[s] = c
    BY <2>3 DEF CatalogTypeOK, TypeOK
  <2>6. \A k \in Requests \ {r} : request[k].stage = "creating" =>
            creating'[request[k].at] = creating[request[k].at] /\ request[k].at # s
    BY <2>3, ManagerAssumption
    DEF HomeInv, OneBrowser, RequestsAreItsOwn, CatalogTypeOK, TypeOK
  <2> HIDE DEF n
  <2>7. \A k \in Requests : request'[k] = IF k = r THEN n ELSE request[k]
    BY <2>3 DEF CatalogTypeOK
  <2>8. CatalogTypeOK' /\ OneBrowser'
    BY <2>2, <2>3, <2>4 DEF CatalogTypeOK, HomeInv, OneBrowser
  <2>9. RequestsAreItsOwn'
    BY <2>2, <2>3, <2>5, <2>6, <2>7 DEF HomeInv, RequestsAreItsOwn
  <2>10. OneMutexEach'
    BY <2>2, <2>6, <2>7 DEF HomeInv, OneMutexEach
  <2>11. KnownIsItsOwn'
    <3>1. \A i \in Ids : Known(i)' => Known(i)
      BY <2>2, <2>3, <2>7 DEF Known
    <3>2. QED
      BY <2>3, <3>1 DEF HomeInv, KnownIsItsOwn
  <2>12. QED
    BY <2>8, <2>9, <2>10, <2>11 DEF HomeInv
<1>4. ASSUME Create(r) PROVE CatalogInv'
  <2> DEFINE s == request[r].at
             c == creating[s]
  <2>1. request[r].stage = "creating"
    BY <1>4 DEF Create, CreateSessionFails, CreateSessionCreates
  <2>2. /\ s \in Servers /\ c \in drawn /\ c \in Clients \ Others
        /\ drawn = drawn \cup {c} /\ Draws(r, c) \in {c, None}
    BY <2>1 DEF HomeInv, OneBrowser, RequestsAreItsOwn, Draws
  <2>3. \A k \in Requests \ {r} : request[k].stage = "creating" => request[k].at # s
    BY <2>1 DEF HomeInv, OneMutexEach
  <2> HIDE DEF s, c
  <2>4. /\ creating' = [creating EXCEPT ![s] = None]
        /\ UNCHANGED <<page, cookie, drawn>>
    BY <1>4 DEF Create, CreateSessionFails, CreateSessionCreates, CreateFails,
                CreateSession, s
  <2>5. \A k \in Requests \ {r} : request[k].stage = "creating" =>
            creating'[request[k].at] = creating[request[k].at]
    BY <2>3, <2>4 DEF CatalogTypeOK, TypeOK, HomeInv, RequestsAreItsOwn
  <2>6. CASE CreateSessionFails(r)
    <3>1. Reply(r, Draws(r, c), None, "error") /\ UNCHANGED sessions
      BY <2>6 DEF CreateSessionFails, CreateFails, Refuse, s, c
    <3>2. PICK n \in Request :
              /\ request' = [request EXCEPT ![r] = n]
              /\ n.as \in {request[r].as, None} /\ n.draws \in {Draws(r, c), None}
              /\ n.answer = None /\ n.stage # "creating"
      BY <2>2, <3>1, ReplyMakes
    <3>3. n.answer \notin Ids /\ n.draws \in {c, None}
      BY <2>2, <3>2, CatalogAssumption
    <3>4. c \in Clients \ Others /\ drawn' = drawn \cup {c} /\ UNCHANGED <<page, cookie>>
      BY <2>2, <2>4
    <3>5. QED
      BY <2>5, <3>1, <3>2, <3>3, <3>4, ServerKeeps
  <2>7. ASSUME NEW i \in Ids, CreateSessionCreates(r, i) PROVE CatalogInv'
    <3>1. /\ ~Known(i) /\ sessions' = [sessions EXCEPT ![i] = [Absent EXCEPT !.client = c]]
          /\ Reply(r, Draws(r, c), i, "none") \/ Reply(r, None, None, "error")
      BY <2>7 DEF CreateSessionCreates, CreateSession, Answer, Lose, s, c
    <3>2. PICK n \in Request :
              /\ request' = [request EXCEPT ![r] = n]
              /\ n.as \in {request[r].as, None} /\ n.draws \in {Draws(r, c), None}
              /\ n.answer \in {i, None} /\ n.stage # "creating"
      <4>1. CASE Reply(r, Draws(r, c), i, "none")
        BY <2>2, <4>1, ReplyMakes
      <4>2. CASE Reply(r, None, None, "error")
        BY <4>2, ReplyMakes
      <4>3. QED
        BY <3>1, <4>1, <4>2
    <3>3. /\ sessions'[i].client = c
          /\ \A k \in Ids : Known(k) => sessions'[k] = sessions[k]
      BY <3>1 DEF CatalogTypeOK, TypeOK, Absent
    <3>4. /\ n.answer \in Ids => sessions'[n.answer].client = c
          /\ \A k \in Ids : Known(k) => sessions'[k].client \in {sessions[k].client, None}
          /\ n.draws \in {c, None}
      BY <2>2, <3>2, <3>3, CatalogAssumption
    <3>5. c \in Clients \ Others /\ drawn' = drawn \cup {c} /\ UNCHANGED <<page, cookie>>
      BY <2>2, <2>4
    <3>6. QED
      BY <2>5, <3>2, <3>4, <3>5, ServerKeeps
  <2>8. QED
    BY <1>4, <2>6, <2>7 DEF Create
<1>5. QED
  BY <1>1, <1>2, <1>3, <1>4 DEF Serve

\* What others, the deadlines and the operator do keeps it: no session changes hands,
\* and no mutex is taken from a request of the browser.
LEMMA OthersKeep ==
  ASSUME CatalogInv, TypeOK',
         (\E s \in Servers : ServeOther(s)) \/ (\E i \in Ids : SessionStep(i))
  PROVE  CatalogInv'
<1> USE DEF CatalogInv
<1>1. UNCHANGED <<page, request, cookie, drawn>>
  BY DEF ServeOther, SessionStep, catalogVars
<1>2. \A i \in Ids : Known(i)' <=> Known(i)
  BY <1>1 DEF Known
<1>3. \A i \in Ids : Known(i) => sessions'[i].client \in {sessions[i].client, None}
  <2>1. ASSUME NEW s \in Servers, ServeOther(s), NEW i \in Ids, Known(i)
        PROVE  sessions'[i] = sessions[i]
    BY <2>1 DEF ServeOther, Admit, CreateFails, CreateSession, CatalogTypeOK, TypeOK
  <2>2. ASSUME NEW k \in Ids, SessionStep(k), NEW i \in Ids
        PROVE  sessions'[i].client \in {sessions[i].client, None}
    BY <2>2
    DEF SessionStep, Ends, Delete, ReportExpired, Report, Absent, CatalogTypeOK, TypeOK, Session
  <2>3. QED
    BY <2>1, <2>2
<1>4. \A s \in Servers : creating[s] \in drawn => creating'[s] = creating[s]
  <2>1. ASSUME NEW s \in Servers, ServeOther(s), NEW t \in Servers, creating[t] \in drawn
        PROVE  creating'[t] = creating[t]
    BY <2>1, ManagerAssumption
    DEF ServeOther, Admit, CreateFails, CreateSession, CatalogTypeOK, TypeOK, HomeInv, OneBrowser
  <2>2. ASSUME NEW k \in Ids, SessionStep(k) PROVE UNCHANGED creating
    BY <2>2 DEF SessionStep, Ends, Delete, ReportExpired, Report
  <2>3. QED
    BY <2>1, <2>2
<1>5. CatalogTypeOK'
  BY <1>1 DEF CatalogTypeOK
<1>6. OneBrowser' /\ RequestsAreItsOwn' /\ OneMutexEach'
  BY <1>1, <1>4 DEF HomeInv, OneBrowser, RequestsAreItsOwn, OneMutexEach
<1>7. KnownIsItsOwn'
  BY <1>1, <1>2, <1>3 DEF HomeInv, KnownIsItsOwn
<1>8. QED
  BY <1>5, <1>6, <1>7 DEF HomeInv

\* Every step of the browser, of its requests and of others is a step of the session
\* manager or leaves it alone.
LEMMA StepIsManagers == CatalogInv /\ [CatalogNext]_allVars => [Next]_vars
<1> SUFFICES ASSUME CatalogInv, [CatalogNext]_allVars PROVE [Next]_vars
  OBVIOUS
<1>1. ASSUME NEW t \in Tabs, NEW r \in Requests, CheckActiveSession(r, t) \/ StartLab(r, t)
      PROVE  UNCHANGED vars
  BY <1>1 DEF CheckActiveSession, StartLab
<1>2. ASSUME NEW t \in Tabs, Resume(t) \/ LoadCatalog(t) PROVE UNCHANGED vars
  BY <1>2 DEF Resume, LoadCatalog
<1>3. ASSUME NEW r \in Requests, Serve(r) PROVE [Next]_vars
  BY <1>3 DEF Serve, GetMySession, CreateSessionAdmits, CreateSessionRefuses, Next
<1>4. ASSUME NEW r \in Requests, Unreached(r) \/ Callback(r) PROVE UNCHANGED vars
  BY <1>4 DEF Unreached, Callback, Checked, Started, StartRefused, Answered
<1>5. ASSUME NEW s \in Servers, ServeOther(s) PROVE Next
  BY <1>5, CatalogAssumption DEF ServeOther, Next
<1>6. ASSUME NEW i \in Ids, SessionStep(i) PROVE Next
  BY <1>6 DEF SessionStep, Next
<1>7. CASE UNCHANGED allVars
  BY <1>7 DEF allVars, catalogVars
<1>8. ASSUME NEW r \in Requests, Create(r) PROVE Next
  <2>1. request[r].at \in Servers
    BY <1>8 DEF Create, CreateSessionFails, CreateSessionCreates,
                CatalogInv, HomeInv, RequestsAreItsOwn
  <2>2. QED
    BY <1>8, <2>1 DEF Create, CreateSessionFails, CreateSessionCreates, Next
<1>9. QED
  BY <1>1, <1>2, <1>3, <1>4, <1>5, <1>6, <1>7, <1>8 DEF CatalogNext

\* What the browser knows of is its own: the inductive invariant.
THEOREM HomeIsInvariant == CatalogSpec => []CatalogInv
<1>1. CatalogInit => CatalogInv
  <2> SUFFICES ASSUME CatalogInit PROVE CatalogInv
    OBVIOUS
  <2>1. CatalogTypeOK
    BY ManagerAssumption
    DEF CatalogInit, CatalogTypeOK, Init, TypeOK, Session, Absent, LivePhases, Page,
        Request, Free
  <2>2. HomeInv
    BY CatalogAssumption
    DEF CatalogInit, HomeInv, OneBrowser, RequestsAreItsOwn, OneMutexEach, KnownIsItsOwn,
        Known, Free
  <2>3. QED
    BY <2>1, <2>2 DEF CatalogInv
<1>2. CatalogInv /\ [CatalogNext]_allVars => CatalogInv'
  <2> SUFFICES ASSUME CatalogInv, [CatalogNext]_allVars PROVE CatalogInv'
    OBVIOUS
  <2>1. TypeOK'
    BY StepIsManagers, TypePreserved DEF CatalogInv, CatalogTypeOK
  <2>2. CASE UNCHANGED allVars
    BY <2>2
    DEF allVars, catalogVars, vars, CatalogInv, CatalogTypeOK, TypeOK, HomeInv, OneBrowser,
        RequestsAreItsOwn, OneMutexEach, KnownIsItsOwn, Known
  <2>3. ASSUME NEW t \in Tabs, NEW r \in Requests,
               CheckActiveSession(r, t) \/ StartLab(r, t)
        PROVE  CatalogInv'
    BY <2>3, TabKeeps
  <2>4. ASSUME NEW t \in Tabs, Resume(t) \/ LoadCatalog(t) PROVE CatalogInv'
    BY <2>4, TabKeeps
  <2>5. ASSUME NEW r \in Requests, Unreached(r) \/ Callback(r) PROVE CatalogInv'
    BY <2>5, CallbackKeeps
  <2>6. ASSUME NEW r \in Requests, Serve(r) \/ Create(r) PROVE CatalogInv'
    BY <2>1, <2>6, HandlersKeep
  <2>7. QED
    BY <2>1, <2>2, <2>3, <2>4, <2>5, <2>6, OthersKeep DEF CatalogNext
<1>3. QED
  BY <1>1, <1>2, PTL DEF CatalogSpec

\* Catalog is a refinement of the session manager: what holds of every behaviour of the
\* manager holds with the page, its handlers and other learners on top.
THEOREM CatalogIsManager == CatalogSpec => Spec
<1>1. CatalogInit => Init
  BY DEF CatalogInit
<1>2. QED
  BY <1>1, StepIsManagers, HomeIsInvariant, PTL DEF CatalogSpec, Spec

\* CheckActiveSession, StartLab and the handlers keep the page's state of its type, on top
\* of the manager's.
THEOREM CatalogTypeCorrect == CatalogSpec => []CatalogTypeOK
  BY HomeIsInvariant, PTL DEF CatalogInv

\* The capacity holds with the page on top.
THEOREM CatalogStaysInBounds == CatalogSpec => [](CapacityBound /\ PerClientBound)
BY CatalogIsManager, CapacityIsBounded, ClientIsBounded, PTL

\* A tab is led only to a lab of the learner's own, or one that is gone.
THEOREM TabsAreLedHome == CatalogSpec => []LedHome
<1>1. CatalogInv => LedHome
  BY DEF CatalogInv, CatalogTypeOK, Page, HomeInv, OneBrowser, KnownIsItsOwn, Known, LedHome
<1>2. QED
  BY <1>1, HomeIsInvariant, PTL
=============================================================================
