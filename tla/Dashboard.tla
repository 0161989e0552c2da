------------------------------ MODULE Dashboard ------------------------------
(***************************************************************************)
(* The customer dashboard: adminCSM (cmd/labserver/main.go) makes one row  *)
(* per customer and scenario out of all sessions there are, and            *)
(* web/static/csm.html sums each row up.  It is read here beside           *)
(* StepChecks: one of the sessions is the one whose steps are being        *)
(* checked, and what the dashboard claims rests on how MarkStepComplete    *)
(* keeps its list.                                                         *)
(***************************************************************************)
EXTENDS StepChecks, SequencesExt

CONSTANTS
    Names,    \* the e-mail domains and the scenarios there are
    Listings  \* the sessions of others in orders the API server may list them, with
              \* None where this one stands

\* A session as lsToSession shows it.  live: its status is not Expired, as which a
\* Failed one is shown too; old: its deadline is more than 30 days ago.
View == [domain : Names, scenario : Names, live : BOOLEAN, old : BOOLEAN,
         steps : Seq(Record)]

ASSUME DashboardAssumption ==
    /\ {"customer", "scenario", "none"} \subseteq Names
    /\ Listings \subseteq Seq(View \cup {None})

SessionView(d, s, l, o, st) ==
    [domain |-> d, scenario |-> s, live |-> l, old |-> o, steps |-> st]

Mine(live) == SessionView("customer", "scenario", live, FALSE, records)

List(listing, live) ==
    [i \in DOMAIN listing |-> IF listing[i] = None THEN Mine(live) ELSE listing[i]]

-----------------------------------------------------------------------------
(* adminCSM.                                                               *)

\* Sessions without an e-mail address have no domain.
Visible(x) == (x.live \/ ~x.old) /\ x.domain # "none"

Key(x) == <<x.domain, x.scenario>>

InGroup(x, key) == Visible(x) /\ Key(x) = key

\* Mutant: the later one of two that are equally far.
BetterLater(x, best) == Len(x.steps) >= Len(best.steps)

\* Most completed steps; of two that are equally far, active beats expired.
Better(x, best) ==
    \/ Len(x.steps) > Len(best.steps)
    \/ Len(x.steps) = Len(best.steps) /\ x.live /\ ~best.live

\* Session i of the list takes the place of session b, the best of its group so far; 0: the
\* group has none.
Challenge(list, key, i, b) ==
    IF InGroup(list[i], key) /\ (b = 0 \/ Better(list[i], list[b])) THEN i ELSE b

\* The best of a group after so many sessions of the list, and after all.
BestAfter(list, key) ==
    LET best[i \in 0..Len(list)] == IF i = 0 THEN 0 ELSE Challenge(list, key, i, best[i - 1])
    IN  best

Best(list, key) == list[BestAfter(list, key)[Len(list)]]

\* The status of step i.  The time a passed step took is the difference of neighbouring
\* records: see RecordedInTime.
Cell(x, i) ==
    IF i <= Len(x.steps) THEN "passed"
    ELSE IF i = Len(x.steps) + 1 /\ x.live THEN "active" ELSE "pending"

Row(best) == [i \in Steps |-> Cell(best, i)]

\* A scenario that cannot be loaded has no row.
Rows(list) ==
    LET keys == {Key(x) : x \in {y \in ToSet(list) : Visible(y)}} IN
    [key \in {k \in keys : k[2] = "scenario"} |-> Row(Best(list, key))]

-----------------------------------------------------------------------------
(* csm.html.                                                               *)

\* Mutant: whoever has nothing left to do has graduated.
SummaryInactive(row) ==
    CASE \A i \in Steps : row[i] # "active" -> "graduated"
      [] \E i \in Steps : row[i] = "active" -> "active"
      [] OTHER -> "not started"

\* A step that is active for more than 48 hours is shown as stuck.
Summary(row) ==
    CASE \A i \in Steps : row[i] = "passed" -> "graduated"
      [] \E i \in Steps : row[i] = "active" -> "active"
      [] OTHER -> "not started"

-----------------------------------------------------------------------------
(* Properties.                                                             *)

\* A session that is not running is paused or has failed.
Lists == UNION {{List(listing, TRUE), List(listing, running)} : listing \in Listings}

Customer == <<"customer", "scenario">>

\* adminCSM: in whatever order the sessions are listed, a row has as many passed steps
\* as the session of the customer that has got furthest, and shows the next one as
\* active just when one of those that got as far is still active.
RowShowsFurthest ==
    \A list \in Lists :
        LET seen == {x \in ToSet(list) : InGroup(x, Customer)}
            furthest == {x \in seen : \A y \in seen : Len(y.steps) <= Len(x.steps)}
            row == Rows(list)[Customer]
            of(status) == {i \in Steps : row[i] = status}
        IN  seen # {} =>
              \A x \in furthest :
                 /\ of("passed") = {i \in Steps : i <= Len(x.steps)}
                 /\ of("active") = IF \E y \in furthest : y.live
                                   THEN {i \in Steps : i = Len(x.steps) + 1} ELSE {}

\* adminCSM counts records and csm.html calls a row graduated that has enough of them:
\* then somebody's work did pass the script of every step, and no repeated or reordered
\* check stands in for a step that was left out.
GraduatesPassedAll ==
    exited0 # Steps => \A list \in Lists :
        \/ Customer \notin DOMAIN Rows(list)
        \/ Summary(Rows(list)[Customer]) # "graduated"
        \/ \E x \in ToSet(list) : Visible(x) /\ x # Mine(x.live) /\ Len(x.steps) >= N
=============================================================================
