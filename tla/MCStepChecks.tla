---------------------------- MODULE MCStepChecks ----------------------------
(* StepChecks and Dashboard for TLC: calls are interchangeable.  The others *)
(* are colleagues of the same customer who have passed one step, in a       *)
(* session that has ended or in one that runs, or all, long ago; and a      *)
(* session of nobody.                                                       *)
EXTENDS Dashboard, TLC

Symmetry == Permutations(Calls)

OneStep == <<[step |-> 1, at |-> 0]>>

Ended == SessionView("customer", "scenario", FALSE, FALSE, OneStep)
Live == SessionView("customer", "scenario", TRUE, FALSE, OneStep)
LongGone == SessionView("customer", "scenario", FALSE, TRUE, OneStep \o OneStep)
Nobody == SessionView("none", "scenario", TRUE, FALSE, OneStep)

MCListings == {<<Ended, None, Live>>, <<LongGone, Nobody, None, Ended>>}
=============================================================================
