----------------------------- MODULE MCSessions -----------------------------
EXTENDS Sessions, TLC

\* Requests are interchangeable, and no property of the run is about liveness.
Symmetry == Permutations(Reqs)

\* Kept apart, or the products of independent histories would fill the run.
Mix(ops, s, p, until) ==
  [ops |-> ops, sessions |-> s, passwords |-> p, until |-> until]

AllMixes ==
  {Mix({"login", "guess", "fault"}, 1, 1, 2),
   Mix({"login", "refresh", "logout"}, 3, 1, 1),
   Mix({"login", "refresh"}, 4, 1, 0),
   Mix({"login", "refresh", "change"}, 3, 2, 2),
   Mix({"login", "refresh", "update"}, 2, 1, 1),
   Mix({"login", "page", "remove", "restore"}, 2, 1, 2),
   Mix({"login", "forgot", "verify"}, 1, 4, 2),
   Mix({"login", "register", "create", "fault"}, 1, 1, 1)}

\* One login and its refreshes; wrong passwords, and no faults.
RefreshMix == {Mix({"login", "refresh"}, 3, 1, 0)}
GuessMix == {Mix({"login", "guess"}, 1, 1, 0)}
=============================================================================
