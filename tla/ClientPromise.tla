--------------------------- MODULE ClientPromise ---------------------------
(***************************************************************************)
(* What a client session promises about the calls that await an answer,    *)
(* whatever threads, tasks, dictionaries and messages it is made of: a     *)
(* call ends with the router's answer to that very call, or it fails       *)
(* without the router having received it, or it stays open.                *)
(***************************************************************************)
CONSTANT Ops

VARIABLES
    asked,   \* the calls the router has received
    answer,  \* what the router decided: "none", "ok" or "error"
    outcome  \* how the call ended: "open", "ok", "error" or "failed"

vars == <<asked, answer, outcome>>

Init ==
    /\ asked = {}
    /\ answer = [o \in Ops |-> "none"]
    /\ outcome = [o \in Ops |-> "open"]

Ask(o) ==
    /\ outcome[o] = "open"
    /\ asked' = asked \cup {o}
    /\ UNCHANGED <<answer, outcome>>

Decide(o, a) ==
    /\ o \in asked
    /\ answer[o] = "none"
    /\ answer' = [answer EXCEPT ![o] = a]
    /\ UNCHANGED <<asked, outcome>>

Finish(o) ==
    /\ outcome[o] = "open"
    /\ answer[o] # "none"
    /\ outcome' = [outcome EXCEPT ![o] = answer[o]]
    /\ UNCHANGED <<asked, answer>>

Fail(o) ==
    /\ outcome[o] = "open"
    /\ o \notin asked
    /\ outcome' = [outcome EXCEPT ![o] = "failed"]
    /\ UNCHANGED <<asked, answer>>

Next == \E o \in Ops : Ask(o) \/ Finish(o) \/ Fail(o) \/ \E a \in {"ok", "error"} : Decide(o, a)

Spec == Init /\ [][Next]_vars
=============================================================================
