---------------------------- MODULE MCSupervision ----------------------------
(***************************************************************************)
(* Instances of Supervision for TLC.                                       *)
(***************************************************************************)
EXTENDS Supervision

\* The disturbances of D, at most n of them.
UpTo(n, D) == [may |-> D, budget |-> n]

\* Which disturbances may overlap.  Without `early' a change or a restart comes
\* only when the last one has been dealt with.
SomeScenarios ==
    {UpTo(2, {"edit", "option", "search", "exit"}),
     UpTo(2, {"edit", "restart", "launch"}),
     UpTo(2, {"edit", "early", "bad"}),
     UpTo(2, {"launch", "crash", "layout"}),
     UpTo(2, {"status", "stop", "crash"}),
     UpTo(2, {"stop", "search", "restart"}),
     UpTo(3, {"stop", "search", "launch"}),
     UpTo(2, {"cycle", "start"})}

\* The configuration is changed while the search bar is open.
SearchScenario == {UpTo(2, {"edit", "search"})}
=============================================================================
