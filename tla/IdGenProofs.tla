---------------------------- MODULE IdGenProofs ----------------------------
(***************************************************************************)
(* Proofs about the request id generator: for every number of threads and  *)
(* every IdMax, ids do not repeat within IdMax consecutive ones.           *)
(***************************************************************************)
EXTENDS IdGen, SequenceTheorems, TLAPS

\* The id handed out last; 0 before the first.
Last == IF issued = <<>> THEN 0 ELSE issued[Len(issued)]

\* The lock is held exactly by the thread that is inside next().
LockHeld == \A t \in Threads : (pc[t] # "outside") = (lock = t)

\* What the counter holds, by where the holder of the lock stands.
CounterAt ==
    /\ lock = NoThread => id = Last
    /\ \A t \in Threads :
          /\ pc[t] = "wrap" => id = Last
          /\ pc[t] = "increment" => id = IF Last = IdMax THEN 0 ELSE Last
          /\ pc[t] = "return" => id = Successor(Last)

\* Two ids fewer than IdMax apart differ by their distance, or by their
\* distance less one round of the counter.
Rounds ==
    \A i, j \in 1..Len(issued) :
        i < j /\ j - i < IdMax =>
            issued[j] = issued[i] + (j - i) \/ issued[j] + IdMax = issued[i] + (j - i)

Inv == TypeOK /\ LockHeld /\ CounterAt /\ Rounds /\ Consecutive

\* The inductive invariant holds at the start.
LEMMA InitInv == Init => Inv
  BY IdGenAssumption DEF Init, Inv, TypeOK, LockHeld, CounterAt, Rounds, Consecutive, Last

\* If the last id is m places after the id a, its successor is m + 1 places after.
LEMMA OneMore ==
    \A M, n \in Nat \ {0} : \A a, b \in 1..M : \A i \in 1..n :
        /\ n + 1 - i < M
        /\ b = a + (n - i) \/ b + M = a + (n - i)
        => LET c == IF b = M THEN 1 ELSE b + 1
           IN  c = a + (n + 1 - i) \/ c + M = a + (n + 1 - i)
  OBVIOUS

\* Handing out the successor of the last id keeps the list in step.
LEMMA AppendKeeps ==
    ASSUME TypeOK, Rounds, Consecutive, id = Successor(Last), id \in 1..IdMax,
           issued' = Append(issued, id)
    PROVE  Rounds' /\ Consecutive'
<1> DEFINE n == Len(issued)
<1>1. n \in Nat /\ issued \in Seq(1..IdMax)
  BY DEF TypeOK
<1>2. /\ Len(issued') = n + 1
      /\ \A i \in 1..n : issued'[i] = issued[i]
      /\ issued'[n + 1] = id
  BY <1>1
<1>3. \A i \in 1..n : issued[i] \in 1..IdMax
  BY <1>1, ElementOfSeq
<1>4. n > 0 => Last = issued[n]
  BY <1>1 DEF Last
<1>5. n = 0 => Last = 0
  BY <1>1 DEF Last
<1>6. Consecutive'
  <2> SUFFICES ASSUME NEW i \in 1..(n + 1)
               PROVE  issued'[i] = IF i = 1 THEN 1 ELSE Successor(issued'[i - 1])
    BY <1>2 DEF Consecutive, Successor
  <2>1. CASE i \in 1..n
    BY <1>2, <1>3, <2>1 DEF Consecutive
  <2>2. CASE i = n + 1 /\ n > 0
    BY <1>1, <1>2, <1>4, <2>2 DEF Consecutive
  <2>3. CASE i = n + 1 /\ n = 0
    BY <1>1, <1>2, <1>5, <2>3, IdGenAssumption DEF Successor
  <2> QED
    BY <1>1, <2>1, <2>2, <2>3
<1>7. Rounds'
  <2> SUFFICES ASSUME NEW i \in 1..(n + 1), NEW j \in 1..(n + 1), i < j, j - i < IdMax
               PROVE  \/ issued'[j] = issued'[i] + (j - i)
                      \/ issued'[j] + IdMax = issued'[i] + (j - i)
    BY <1>2, ZenonT(40) DEF Rounds
  <2>1. i \in 1..n /\ n > 0
    BY <1>1
  <2>2. CASE j \in 1..n
    BY <1>2, <2>1, <2>2 DEF Rounds
  <2>3. CASE j = n + 1
    <3>1. issued[n] = issued[i] + (n - i) \/ issued[n] + IdMax = issued[i] + (n - i)
      BY <1>1, <1>3, <2>1, <2>3, IdGenAssumption, SMTT(30) DEF Rounds
    <3>2. id = IF issued[n] = IdMax THEN 1 ELSE issued[n] + 1
      BY <1>4, <2>1 DEF Successor
    <3>3. issued[i] \in 1..IdMax /\ issued[n] \in 1..IdMax
      BY <1>1, <1>3, <2>1
    <3>4. issued'[j] = id /\ issued'[i] = issued[i]
      BY <1>2, <2>1, <2>3
    <3>5. n \in Nat \ {0} /\ i \in 1..n /\ n + 1 - i < IdMax
      BY <1>1, <2>1, <2>3
    <3>6. \/ id = issued[i] + (n + 1 - i)
          \/ id + IdMax = issued[i] + (n + 1 - i)
      <4>1. PICK a \in 1..IdMax, b \in 1..IdMax : a = issued[i] /\ b = issued[n]
        BY <3>3
      <4>2. b = a + (n - i) \/ b + IdMax = a + (n - i)
        BY <3>1, <4>1
      <4>3. id = IF b = IdMax THEN 1 ELSE b + 1
        BY <3>2, <4>1
      <4>4. IdMax \in Nat \ {0}
        BY IdGenAssumption
      <4> HIDE DEF n
      <4>5. id = a + (n + 1 - i) \/ id + IdMax = a + (n + 1 - i)
        BY <3>5, <4>2, <4>3, <4>4, OneMore
      <4> QED
        BY <4>1, <4>5
    <3> QED
      BY <2>3, <3>4, <3>6
  <2> QED
    BY <1>1, <2>2, <2>3
<1> QED
  BY <1>6, <1>7

\* Every step keeps the inductive invariant.
LEMMA NextInv == Inv /\ [Next]_vars => Inv'
<1> USE IdGenAssumption
<1> SUFFICES ASSUME Inv, [Next]_vars PROVE Inv'
  OBVIOUS
<1>1. ASSUME NEW t \in Threads, Acquire(t) PROVE Inv'
  BY <1>1 DEF Acquire, Inv, TypeOK, LockHeld, CounterAt, Rounds, Consecutive, Last
<1>2. ASSUME NEW t \in Threads, Wrap(t) PROVE Inv'
  <2>1. Last \in 0..IdMax /\ Last' = Last
    BY <1>2 DEF Wrap, Inv, TypeOK, Last
  <2> QED
    BY <1>2, <2>1 DEF Wrap, Inv, TypeOK, LockHeld, CounterAt, Rounds, Consecutive
<1>3. ASSUME NEW t \in Threads, Increment(t) PROVE Inv'
  <2>1. Last \in 0..IdMax /\ Last' = Last
    BY <1>3 DEF Increment, Inv, TypeOK, Last
  <2>2. id' = Successor(Last) /\ id' \in 1..IdMax
    BY <1>3, <2>1 DEF Increment, Inv, TypeOK, CounterAt, Successor
  <2> QED
    BY <1>3, <2>1, <2>2 DEF Increment, Inv, TypeOK, LockHeld, CounterAt, Rounds, Consecutive, Successor
<1>4. ASSUME NEW t \in Threads, Return(t) PROVE Inv'
  <2>1. Last \in 0..IdMax
    BY DEF Inv, TypeOK, Last
  <2>2. id = Successor(Last) /\ id \in 1..IdMax
    BY <1>4, <2>1 DEF Return, Inv, TypeOK, CounterAt, Successor
  <2>3. Rounds' /\ Consecutive'
    BY <1>4, <2>2, AppendKeeps DEF Return, Inv
  <2>4. issued' \in Seq(1..IdMax) /\ Last' = id
    BY <1>4, <2>2 DEF Return, Inv, TypeOK, Last
  <2> QED
    BY <1>4, <2>2, <2>3, <2>4 DEF Return, Inv, TypeOK, LockHeld, CounterAt
<1>5. CASE UNCHANGED vars
  BY <1>5 DEF vars, Inv, TypeOK, LockHeld, CounterAt, Rounds, Consecutive, Last
<1> QED
  BY <1>1, <1>2, <1>3, <1>4, <1>5 DEF Next

\* The counter, the lock and the ids handed out keep their types.
THEOREM IdGenTypeOK == Spec => []TypeOK
<1>1. Inv => TypeOK
  BY DEF Inv
<1> QED
  BY <1>1, InitInv, NextInv, PTL DEF Spec

\* No id comes back before IdMax others were handed out, for any number of
\* threads calling next() at once.
THEOREM IdsDistinct == Spec => []DistinctInWindow
<1>1. Inv => DistinctInWindow
  <2> SUFFICES ASSUME Inv, NEW i \in 1..Len(issued), NEW j \in 1..Len(issued),
                      i < j, j - i < IdMax
               PROVE  issued[i] # issued[j]
    BY DEF DistinctInWindow
  <2>1. issued \in Seq(1..IdMax) /\ Rounds
    BY DEF Inv, TypeOK
  <2>2. issued[i] \in 1..IdMax /\ issued[j] \in 1..IdMax
    BY <2>1, ElementOfSeq
  <2>3. issued[j] = issued[i] + (j - i) \/ issued[j] + IdMax = issued[i] + (j - i)
    BY <2>1 DEF Rounds
  <2>4. i \in Nat /\ j \in Nat /\ IdMax \in Nat
    BY IdGenAssumption
  <2> QED
    BY <2>2, <2>3, <2>4
<1> QED
  BY <1>1, InitInv, NextInv, PTL DEF Spec

\* The ids run through 1, 2, ..., IdMax and start over.
THEOREM IdsConsecutive == Spec => []Consecutive
<1>1. Inv => Consecutive
  BY DEF Inv
<1> QED
  BY <1>1, InitInv, NextInv, PTL DEF Spec
=============================================================================
