------------------------------ MODULE MCOffice ------------------------------
EXTENDS Office, TLC

CONSTANTS n1, n2, l1, l2

\* Two languages of one name, and another name.
ThreeSlots == {<<n1, l1>>, <<n1, l2>>, <<n2, l1>>}

Alike == UNION {Permutations(S) :
  S \in {Hooks, Events, Ids, Clients}}
=============================================================================
