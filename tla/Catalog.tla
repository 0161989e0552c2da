------------------------------- MODULE Catalog -------------------------------
(***************************************************************************)
(* The catalog page (web/static/index.html) and the handlers it asks       *)
(* (createSession, getMySession and clientID in cmd/labserver/main.go,     *)
(* GetActive in internal/session/manager.go), on top of SessionManager:    *)
(* one browser, in whose tabs a learner starts and resumes labs while      *)
(* deadlines pass and the operator reports phases.                         *)
(***************************************************************************)
EXTENDS SessionManager

CONSTANTS
    Tabs,           \* tabs of the browser
    Requests,       \* requests of the page under way at a time
    Others          \* the clients of other learners

ASSUME CatalogAssumption == Others \subseteq Clients /\ None \notin Ids \cup Servers

\* A GET of /api/sessions/me or a POST of /api/sessions.  tab: None when the page that
\* sent it is gone; as: the client it came from; draws: the client whose cookie the
\* answer sets; at: the server that runs Create; answer: a session; refusal: why there is
\* none, ErrSessionExists or anything else.

Request == [kind : {"me", "start"}, tab : Tabs \cup {None},
            stage : {"free", "sent", "creating", "answered"},
            as : Clients \cup {None}, draws : Clients \cup {None},
            at : Servers \cup {None}, answer : Ids \cup {None},
            refusal : {"none", "exists", "error"}]

Free == [kind |-> "me", tab |-> None, stage |-> "free", as |-> None, draws |-> None,
         at |-> None, answer |-> None, refusal |-> "none"]

\* lab: the session whose lab page the tab shows, or None for the catalog.
Page == [lab : Ids \cup {None}, activeSession : Ids \cup {None}]

VARIABLES
    page,       \* the tabs
    request,    \* the requests
    cookie,     \* lab_client_id, or the learner's email if authenticated
    drawn       \* the clients this browser has been

catalogVars == <<page, request, cookie, drawn>>
allVars == <<vars, catalogVars>>

CatalogTypeOK ==
    /\ TypeOK
    /\ page \in [Tabs -> Page]
    /\ request \in [Requests -> Request]
    /\ cookie \in Clients \cup {None}
    /\ drawn \subseteq Clients

CatalogInit ==
    /\ Init
    /\ page = [t \in Tabs |-> [lab |-> None, activeSession |-> None]]
    /\ request = [r \in Requests |-> Free]
    /\ cookie \in (Clients \ Others) \cup {None}
    /\ drawn = {cookie} \ {None}

-----------------------------------------------------------------------------
(* GetActive.                                                              *)

\* lsToSession makes Failed and Expired the same status.
Offered(c) ==
    {i \in Ids : sessions[i].client = c /\ sessions[i].phase \notin {"Failed", "Expired"}}

\* Mutant: the client is not looked at.
GetActiveOfAny(c) ==
    LET S == UNION {Offered(d) : d \in Clients} IN IF S = {} THEN {None} ELSE S

\* The first of the list, which is in the order of the random IDs; or none.
GetActive(c) == IF Offered(c) = {} THEN {None} ELSE Offered(c)

-----------------------------------------------------------------------------
(* The page.                                                               *)

Send(r, kind, t) ==
    /\ request[r] = Free
    /\ request' = [request EXCEPT ![r] =
           [Free EXCEPT !.kind = kind, !.tab = t, !.stage = "sent", !.as = cookie]]

\* checkActiveSession, when the page is loaded.
CheckActiveSession(r, t) ==
    /\ page[t] = [lab |-> None, activeSession |-> None]
    /\ \A q \in Requests : request[q].tab = t => request[q].kind # "me"
    /\ Send(r, "me", t)
    /\ UNCHANGED <<vars, page, cookie, drawn>>

\* startLab up to its fetch.  Its button is disabled, but not those of other labs.
StartLab(r, t) ==
    /\ page[t].lab = None
    /\ Send(r, "start", t)
    /\ UNCHANGED <<vars, page, cookie, drawn>>

\* The tab shows something else; what its page has sent goes on without it.
Leaving(t) == [r \in Requests |->
    IF request[r].tab # t THEN request[r]
    ELSE IF request[r].stage = "answered" THEN Free
    ELSE [request[r] EXCEPT !.tab = None]]

LedTo(t, i) ==
    /\ page' = [page EXCEPT ![t] = [lab |-> i, activeSession |-> None]]
    /\ request' = Leaving(t)

\* An answer sets the cookie before the page sees it.
Answered(r, kind) ==
    LET q == request[r] IN
    /\ q.stage = "answered" /\ q.kind = kind /\ q.tab # None
    /\ cookie' = IF q.draws = None THEN cookie ELSE q.draws
    /\ UNCHANGED <<vars, drawn>>

Forget(r) == request' = [request EXCEPT ![r] = Free]

\* checkActiveSession after its fetch: an error leaves the page as it is.
Checked(r) ==
    LET q == request[r] IN
    /\ Answered(r, "me") /\ Forget(r)
    /\ page' = IF q.answer = None THEN page
                                  ELSE [page EXCEPT ![q.tab].activeSession = q.answer]

\* The link of the banner, or its dismissal, which changes nothing here.
Resume(t) ==
    /\ page[t].activeSession # None
    /\ LedTo(t, page[t].activeSession)
    /\ UNCHANGED <<vars, cookie, drawn>>

\* startLab after its fetch.
Started(r) ==
    LET q == request[r] IN
    /\ Answered(r, "start")
    /\ q.refusal = "none"
    /\ LedTo(q.tab, q.answer)

\* A conflict leads to the session that was found when the page was loaded.
StartRefused(r) ==
    LET q == request[r]  known == page[q.tab].activeSession IN
    /\ Answered(r, "start")
    /\ q.refusal # "none"
    /\ IF q.refusal = "exists" /\ known # None
       THEN LedTo(q.tab, known)
       ELSE Forget(r) /\ UNCHANGED page

\* The learner goes back to the catalog, or reloads it.
LoadCatalog(t) ==
    /\ page' = [page EXCEPT ![t] = [lab |-> None, activeSession |-> None]]
    /\ request' = Leaving(t)
    /\ UNCHANGED <<vars, cookie, drawn>>

-----------------------------------------------------------------------------
(* The server.                                                             *)

\* clientID: a request without a cookie gets a new one.
Identified(r, c) ==
    IF request[r].as # None THEN c = request[r].as ELSE c \in Clients \ (Others \cup drawn)

\* The answer, if there is still a page for it.
Reply(r, draws, answer, refusal) ==
    request' = [request EXCEPT ![r] =
        IF @.tab = None THEN Free
        ELSE [@ EXCEPT !.stage = "answered", !.at = None,
                       !.draws = draws, !.answer = answer, !.refusal = refusal]]

Draws(r, c) == IF request[r].as = None THEN c ELSE None

Answer(r, c, answer) == Reply(r, Draws(r, c), answer, "none")

Refuse(r, c, refusal) == Reply(r, Draws(r, c), None, refusal)

\* What becomes of it when the page does not hear from the server.
Lose(r) == Reply(r, None, None, "error")

\* getMySession.
GetMySession(r, c) ==
    /\ request[r].stage = "sent" /\ request[r].kind = "me"
    /\ Identified(r, c)
    /\ \E i \in GetActive(c) : Answer(r, c, i)
    /\ drawn' = drawn \cup {c}
    /\ UNCHANGED <<vars, page, cookie>>

\* createSession up to the session's creation.
CreateSessionAdmits(r, s, c) ==
    /\ request[r].stage = "sent" /\ request[r].kind = "start"
    /\ Identified(r, c)
    /\ Admit(s, c)
    /\ request' = [request EXCEPT ![r].stage = "creating", ![r].at = s]
    /\ drawn' = drawn \cup {c}
    /\ UNCHANGED <<page, cookie>>

CreateSessionRefuses(r, s, c) ==
    /\ request[r].stage = "sent" /\ request[r].kind = "start"
    /\ Identified(r, c)
    /\ creating[s] = None
    /\ \/ Blocking(c) # {} /\ Refuse(r, c, "exists")
       \/ Blocking(c) = {} /\ Cardinality(Active) >= MaxActive /\ Refuse(r, c, "error")
    /\ drawn' = drawn \cup {c}
    /\ UNCHANGED <<vars, page, cookie>>

\* An ID that somebody knows is not drawn again.
Known(i) ==
    \/ \E t \in Tabs : i \in {page[t].lab, page[t].activeSession}
    \/ \E r \in Requests : request[r].answer = i

\* Its answer may be lost.
CreateSessionCreates(r, i) ==
    LET q == request[r] IN
    /\ q.stage = "creating" /\ ~Known(i)
    /\ CreateSession(q.at, i)
    /\ Answer(r, creating[q.at], i) \/ Lose(r)
    /\ UNCHANGED <<page, cookie, drawn>>

CreateSessionFails(r) ==
    LET q == request[r] IN
    /\ q.stage = "creating"
    /\ CreateFails(q.at)
    /\ Refuse(r, creating[q.at], "error")
    /\ UNCHANGED <<page, cookie, drawn>>

\* The server is not reached.
Unreached(r) ==
    /\ request[r].stage = "sent"
    /\ Lose(r)
    /\ UNCHANGED <<vars, page, cookie, drawn>>

\* createSession for another learner, whose page is not looked at.
ServeOther(s) ==
    /\ \/ \E c \in Others : Admit(s, c)
       \/ /\ creating[s] \in Others
          /\ CreateFails(s) \/ \E i \in Ids : ~Known(i) /\ CreateSession(s, i)
    /\ UNCHANGED catalogVars

\* The deadlines and the operator.
SessionStep(i) ==
    /\ Ends(i) \/ Delete(i) \/ ReportExpired(i) \/ \E phase \in LivePhases : Report(i, phase)
    /\ UNCHANGED catalogVars

Serve(r) ==
    \E c \in Clients :
        \/ GetMySession(r, c)
        \/ \E s \in Servers : CreateSessionAdmits(r, s, c) \/ CreateSessionRefuses(r, s, c)

Create(r) == CreateSessionFails(r) \/ \E i \in Ids : CreateSessionCreates(r, i)

Callback(r) == Checked(r) \/ Started(r) \/ StartRefused(r)

CatalogNext ==
    \/ \E t \in Tabs :
        \/ \E r \in Requests : CheckActiveSession(r, t) \/ StartLab(r, t)
        \/ Resume(t) \/ LoadCatalog(t)
    \/ \E r \in Requests : Serve(r) \/ Unreached(r) \/ Create(r) \/ Callback(r)
    \/ \E s \in Servers : ServeOther(s)
    \/ \E i \in Ids : SessionStep(i)

CatalogSpec == CatalogInit /\ [][CatalogNext]_allVars

-----------------------------------------------------------------------------
(* Properties.                                                             *)

\* startLab, checkActiveSession: whatever was refused, lost or started in another tab
\* meanwhile, the lab a tab is led to is one of the learner's own, unless it is gone, as
\* long as their browser has been one client only.
LedHome ==
    \A t \in Tabs :
        page[t].lab # None /\ drawn \subseteq {cookie}
            => sessions[page[t].lab].client \in {cookie, None}

\* What makes it hold.  A browser is never another learner.
OneBrowser == drawn \subseteq Clients \ Others /\ cookie \in drawn \cup {None}

\* Whoever a request of the browser comes from, or is given by its answer, it has been.
RequestsAreItsOwn ==
    \A r \in Requests :
        /\ {request[r].as, request[r].draws} \subseteq drawn \cup {None}
        /\ request[r].stage = "creating" =>
               request[r].at \in Servers /\ creating[request[r].at] \in drawn

\* Every request that is creating a session holds a mutex of its own.
OneMutexEach ==
    \A q, r \in Requests :
        request[q].stage = "creating" /\ request[r].stage = "creating" /\ q # r
            => request[q].at # request[r].at

\* A session that the browser knows of is its own, or gone.
KnownIsItsOwn == \A i \in Ids : Known(i) => sessions[i].client \in drawn \cup {None}

HomeInv == OneBrowser /\ RequestsAreItsOwn /\ OneMutexEach /\ KnownIsItsOwn
=============================================================================
