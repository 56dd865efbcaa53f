--------------------------- MODULE SessionPromise ---------------------------
(***************************************************************************)
(* The threads, dictionaries and messages of Session implement the promise *)
(* of ClientPromise.  The calls that await no answer (a publish without    *)
(* acknowledge, leave) take no part in it.                                 *)
(***************************************************************************)
EXTENDS Session, SequencesExt

Awaiting == {o \in Ops : kind[o] \in ReplyKinds}

\* The answers the router has sent: those under way and those in a future.
AnswersTo(o) ==
    {m.ok : m \in {x \in ToSet(fromRouter) : x.type = "reply" /\ x.op = o}}
        \cup {future[p].ok : p \in {q \in Ops : future[q].op = o}}

AnswerOf(o) ==
    IF AnswersTo(o) = {} THEN "none" ELSE IF TRUE \in AnswersTo(o) THEN "ok" ELSE "error"

OutcomeOf(o) ==
    CASE o \in Awaiting /\ pc[o] = "returned" -> "ok"
      [] o \in Awaiting /\ pc[o] = "raised"   -> IF Resolved(o) THEN "error" ELSE "failed"
      [] OTHER -> "open"

Asked   == (toRouter \cap Awaiting) \cup {o \in Ops : AnswersTo(o) # {}}
Answer  == [o \in Ops |-> AnswerOf(o)]
Outcome == [o \in Ops |-> OutcomeOf(o)]

Promise == INSTANCE ClientPromise WITH asked <- Asked, answer <- Answer, outcome <- Outcome

\* Every behaviour of the session is one the promise allows: no call returns
\* another call's answer, an error for a success, or an answer that was not given.
KeepsPromise == Promise!Spec
=============================================================================
