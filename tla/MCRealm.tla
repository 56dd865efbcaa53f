------------------------------ MODULE MCRealm ------------------------------
(* Small instances of Realm for TLC.                                       *)
EXTENDS Realm, TLC

\* The clients are interchangeable.
Symmetry == Permutations(Clients)

Some(n) == {S \in SUBSET Clients : Cardinality(S) = n}

\* Two clients that call, register and leave; three that subscribe and publish.
MCScenarios ==
    [clients : Some(2), sends : {3}, inFlight : {1}, losses : {2}, removable : {TRUE},
     uses : {{"CALL", "YIELD", "SUBSCRIBE", "UNSUBSCRIBE", "REGISTER", "UNREGISTER",
              "GOODBYE", "MALFORMED"}}]
    \cup
    [clients : Some(3), sends : {2}, inFlight : {1}, losses : {1}, removable : {FALSE},
     uses : {{"SUBSCRIBE", "PUBLISH"}}]
=============================================================================
