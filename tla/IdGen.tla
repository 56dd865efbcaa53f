------------------------------- MODULE IdGen -------------------------------
(***************************************************************************)
(* SessionScopeIDGenerator of xconn/helpers.py: the request ids of one     *)
(* session, taken by any number of threads under a lock.  The counter      *)
(* starts over after IdMax (wampproto's ID_MAX, 2^53).                     *)
(***************************************************************************)
EXTENDS Naturals, Sequences

CONSTANTS
    Threads,
    IdMax,
    MaxCalls,  \* bound on the number of ids taken
    NoThread

ASSUME IdGenAssumption ==
    /\ IdMax \in Nat \ {0}
    /\ MaxCalls \in Nat
    /\ NoThread \notin Threads

VARIABLES
    id,     \* self.id
    lock,   \* holder of self._lock, or NoThread
    pc,     \* where each thread stands in next()
    issued  \* the ids returned so far, oldest first; no code reads it

vars == <<id, lock, pc, issued>>

Init ==
    /\ id = 0
    /\ lock = NoThread
    /\ pc = [t \in Threads |-> "outside"]
    /\ issued = <<>>

\* Faulty: the lock is not waited for.
AcquireAnyway(t) ==
    /\ pc[t] = "outside"
    /\ Len(issued) < MaxCalls
    /\ lock' = t
    /\ pc' = [pc EXCEPT ![t] = "wrap"]
    /\ UNCHANGED <<id, issued>>

Acquire(t) ==
    /\ pc[t] = "outside"
    /\ Len(issued) < MaxCalls
    /\ lock = NoThread
    /\ lock' = t
    /\ pc' = [pc EXCEPT ![t] = "wrap"]
    /\ UNCHANGED <<id, issued>>

\* if self.id >= ID_MAX: self.id = 0
Wrap(t) ==
    /\ pc[t] = "wrap"
    /\ id' = IF id >= IdMax THEN 0 ELSE id
    /\ pc' = [pc EXCEPT ![t] = "increment"]
    /\ UNCHANGED <<lock, issued>>

\* self.id += 1
Increment(t) ==
    /\ pc[t] = "increment"
    /\ id' = id + 1
    /\ pc' = [pc EXCEPT ![t] = "return"]
    /\ UNCHANGED <<lock, issued>>

\* return self.id, which releases the lock
Return(t) ==
    /\ pc[t] = "return"
    /\ issued' = Append(issued, id)
    /\ lock' = NoThread
    /\ pc' = [pc EXCEPT ![t] = "outside"]
    /\ UNCHANGED id

Next == \E t \in Threads : Acquire(t) \/ Wrap(t) \/ Increment(t) \/ Return(t)

Spec == Init /\ [][Next]_vars

-----------------------------------------------------------------------------

\* Every variable keeps its type; an id is never above IdMax.
TypeOK ==
    /\ id \in 0..IdMax
    /\ lock \in Threads \cup {NoThread}
    /\ pc \in [Threads -> {"outside", "wrap", "increment", "return"}]
    /\ issued \in Seq(1..IdMax)

\* No id is given out again before the counter has gone once round, however the
\* threads interleave: two requests share an id only if IdMax requests lie
\* between them (helpers.py: the lock covers the wrap, the increment and the read).
DistinctInWindow ==
    \A i, j \in 1..Len(issued) : i < j /\ j - i < IdMax => issued[i] # issued[j]

\* The threads together see the counter 1, 2, ..., IdMax, 1, ...: no id is
\* skipped and none is given out twice in a row.
Successor(n) == IF n = IdMax THEN 1 ELSE n + 1
Consecutive ==
    \A i \in 1..Len(issued) :
        issued[i] = IF i = 1 THEN 1 ELSE Successor(issued[i - 1])
=============================================================================
