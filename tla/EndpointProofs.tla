---------------------------- MODULE EndpointProofs ----------------------------
(***************************************************************************)
(* Proofs about Endpoint, for all endpoints, messages and results: what    *)
(* was entered is left in reverse order whatever fails, and a message that *)
(* is refused has touched nothing.                                         *)
(*                                                                         *)
(* ContextsClosed is not inductive: while contexts are left, those that    *)
(* are closed are the last ones of those that were opened, in reverse      *)
(* (Unwinding).  RefusedUntouched needs to know that nothing has happened  *)
(* before a message comes (Fresh), that no outcome is there before the     *)
(* end (Undecided), and that no result leads to one of the refusals.       *)
(***************************************************************************)
EXTENDS Endpoint, FiniteSetTheorems, TLAPS

Refusals == {"not_authorized", "invalid_arguments", "invalid_argument"}

\* A sequence, whatever its elements.
IsSeq(s) == s \in Seq(ToSet(s))

Stacks == IsSeq(opened) /\ IsSeq(closed)
Unwinding ==
  /\ Len(closed) <= Len(opened)
  /\ \A i \in 1..Len(closed) : closed[i] = opened[Len(opened) - i + 1]
Phases ==
  /\ phase \in {"idle", "resolving", "running", "closing", "done"}
  /\ phase \in {"idle", "resolving", "running"} => closed = <<>>
  /\ phase = "done" => Len(closed) = Len(opened)
Fresh == phase = "idle" => resolved = {} /\ opened = <<>> /\ result = Pending
Undecided == phase # "done" => outcome = "none"

IInv == Stacks /\ Unwinding /\ Phases /\ Fresh /\ Undecided /\ RefusedUntouched

\* The function is one that was registered, the message one that came.
Admitted ==
  /\ endpoint \in Endpoints
  /\ status = "registered" => ~Rejected(endpoint)
  /\ phase # "idle" => status = "registered" /\ message \in Messages
\* What is resolved and entered is the endpoint's own.
Taken == resolved \subseteq Plain(endpoint) /\ ToSet(opened) \subseteq Contexts(endpoint)
\* What runs has passed the checks, has its dependencies and fits.
Passed ==
  /\ phase \in {"resolving", "running"} => Refusal(endpoint, message) = "none"
  /\ phase = "running" => Ready /\ ~Misfit(endpoint, message)
\* Keywords that are no fields, a field that is called `model', and a class of the
\* other side in the signature: the exceptions of RuntimeErrorExplained that are there
\* before the function runs.
Odd(e, m) ==
  \/ e.clash \cap (Names(e, m) \cup DetailsField(e)) # {}
  \/ ~(m.kwargs \subseteq RequestKwargs(e))
  \/ Having(e, IF e.procedure THEN {"event_details"} ELSE {"call_details", "invocation"}) # {}
\* What went wrong has a cause.
Explained ==
  result.kind \in {"raised", "unyielded", "unbound"} =>
    \/ faults \cap {"dependency", "function", "context", "swallowed"} # {}
    \/ Odd(endpoint, message)

RunInv == Admitted /\ Taken /\ Passed /\ Explained /\ RuntimeErrorExplained

-----------------------------------------------------------------------------
(* Sequences.                                                              *)

LEMMA EmptyIsSeq == IsSeq(<<>>)
  BY DEF IsSeq

LEMMA AppendIsSeq ==
  ASSUME NEW s, IsSeq(s), NEW x
  PROVE  /\ IsSeq(Append(s, x))
         /\ Len(s) \in Nat
         /\ Len(Append(s, x)) = Len(s) + 1
         /\ \A i \in 1..Len(s) : Append(s, x)[i] = s[i]
         /\ Append(s, x)[Len(s) + 1] = x
<1> DEFINE T == ToSet(s) \cup {x}
<1>1. s \in Seq(T) /\ x \in T
  BY DEF IsSeq
<1>2. /\ Append(s, x) \in Seq(T)
      /\ Len(Append(s, x)) = Len(s) + 1
      /\ \A i \in 1..Len(s) : Append(s, x)[i] = s[i]
      /\ Append(s, x)[Len(s) + 1] = x
      /\ Len(s) \in Nat
  BY <1>1
<1>3. DOMAIN Append(s, x) = 1..Len(Append(s, x))
  BY <1>2
<1>4. \A i \in DOMAIN Append(s, x) : Append(s, x)[i] \in ToSet(Append(s, x))
  BY DEF ToSet
<1>5. Append(s, x) \in Seq(ToSet(Append(s, x)))
  BY <1>2, <1>3, <1>4
<1> QED
  BY <1>2, <1>5 DEF IsSeq

-----------------------------------------------------------------------------
(* Which errors there are.                                                 *)

LEMMA FirstErrorIn ==
  ASSUME NEW checks, NEW S, \A i \in DOMAIN checks : checks[i][2] \in S
  PROVE  FirstError(checks) \in S \cup {"none"}
  BY DEF FirstError

LEMMA NoResultRefuses ==
  ASSUME NEW e, NEW r
  PROVE  Outcome(e, r) \notin Refusals
<1> DEFINE Errors == {"internal_error", "runtime_error", "answered"}
<1>1. ResultError(e, r) \in Errors \cup {"none"}
  <2> DEFINE modelled == e.response # <<>>
             n == IF modelled THEN Head(e.response) ELSE 0
             checks == << <<modelled /\ r.kind = "none", "internal_error">>,
                          <<modelled /\ r.kind \in {"result", "tuple"} /\ r.count # n,
                            "internal_error">>,
                          <<modelled /\ r.kind = "primitive" /\ n # 1, "internal_error">>,
                          <<modelled /\ ~r.fits, "runtime_error">>,
                          <<r.kind # "none" /\ ~r.sendable, "runtime_error">>,
                          <<TRUE, "answered">> >>
  <2>1. \A i \in DOMAIN checks : checks[i][2] \in Errors
    <3>1. DOMAIN checks = 1..6
      OBVIOUS
    <3> HIDE DEF modelled, n
    <3> QED
      BY <3>1
  <2>2. ResultError(e, r) = FirstError(checks)
    BY DEF ResultError
  <2> HIDE DEF checks, Errors
  <2> QED
    BY <2>1, <2>2, FirstErrorIn
<1>2. CASE r.kind \in {"raised", "unyielded"}
  BY <1>2 DEF Outcome, Refusals
<1>3. CASE r.kind \in {"application_error", "cancelled"}
  BY <1>3 DEF Outcome, Refusals
<1>4. CASE r.kind \notin {"raised", "unyielded", "application_error", "cancelled"}
  BY <1>1, <1>4 DEF Outcome, Refusals
<1> QED
  BY <1>2, <1>3, <1>4

-----------------------------------------------------------------------------
(* What the checks of a message establish.                                 *)

\* When there is an error it is that of a condition that holds.
LEMMA FirstErrorHolds ==
  ASSUME NEW checks, FirstError(checks) # "none"
  PROVE  \E i \in DOMAIN checks : checks[i][1] /\ FirstError(checks) = checks[i][2]
<1> DEFINE first(i) == checks[i][1] /\ \A j \in 1..(i - 1) : ~checks[j][1]
<1>1. \E i \in DOMAIN checks : first(i)
  BY DEF FirstError
<1>2. first(CHOOSE i \in DOMAIN checks : first(i))
      /\ (CHOOSE i \in DOMAIN checks : first(i)) \in DOMAIN checks
  BY <1>1
<1>3. FirstError(checks) = checks[CHOOSE i \in DOMAIN checks : first(i)][2]
  BY <1>1 DEF FirstError
<1> QED
  BY <1>2, <1>3

\* When there is none, no condition holds: of the ones that hold, one is the first.
LEMMA NoErrorNoneHolds ==
  ASSUME NEW checks, DOMAIN checks = 1..7, \A i \in 1..7 : checks[i][2] # "none",
         FirstError(checks) = "none"
  PROVE  \A i \in 1..7 : ~checks[i][1]
<1> DEFINE first(i) == checks[i][1] /\ \A j \in 1..(i - 1) : ~checks[j][1]
<1>1. \A i \in 1..7 : ~first(i)
  <2> SUFFICES ASSUME \E i \in DOMAIN checks : first(i)
               PROVE  FALSE
    OBVIOUS
  <2>1. FirstError(checks) = checks[CHOOSE i \in DOMAIN checks : first(i)][2]
    BY DEF FirstError
  <2>2. (CHOOSE i \in DOMAIN checks : first(i)) \in DOMAIN checks
    OBVIOUS
  <2> QED
    BY <2>1, <2>2
<1>2. \A i \in 1..7 : (\A j \in 1..(i - 1) : ~checks[j][1]) => ~checks[i][1]
  BY <1>1
<1> DEFINE C(i) == checks[i][1]
<1>3. \A i \in 1..7 : (\A j \in 1..(i - 1) : ~C(j)) => ~C(i)
  BY <1>2
<1> HIDE DEF C
<1>4. ~C(1)
  BY <1>3
<1>5. ~C(2)
  BY <1>3, <1>4
<1>6. ~C(3)
  BY <1>3, <1>4, <1>5
<1>7. ~C(4)
  BY <1>3, <1>4, <1>5, <1>6
<1>8. ~C(5)
  BY <1>3, <1>4, <1>5, <1>6, <1>7
<1>9. ~C(6)
  BY <1>3, <1>4, <1>5, <1>6, <1>7, <1>8
<1>10. ~C(7)
  BY <1>3, <1>4, <1>5, <1>6, <1>7, <1>8, <1>9
<1>11. \A i \in 1..7 : ~C(i)
  BY <1>4, <1>5, <1>6, <1>7, <1>8, <1>9, <1>10
<1> QED
  BY <1>11 DEF C

\* The checks of a message, as Refusal goes through them.
Checks(e, m) ==
  << <<RoleUnknown(e, m), "internal_error">>,
     <<NotAllowed(e, m), "not_authorized">>,
     <<~e.procedure /\ NoDetails(e, m), "internal_error">>,
     <<Surplus(e, m), "invalid_arguments">>,
     <<NoDetails(e, m), "internal_error">>,
     <<ModelClash(e, m), "runtime_error">>,
     <<Unfit(e, m), "invalid_argument">> >>

LEMMA ChecksAre ==
  ASSUME NEW e, NEW m
  PROVE  /\ Refusal(e, m) = FirstError(Checks(e, m))
         /\ DOMAIN Checks(e, m) = 1..7
         /\ \A i \in 1..7 : Checks(e, m)[i][2] # "none"
         /\ \A i \in 1..7 : Checks(e, m)[i][2] = "runtime_error" => i = 6
         /\ Checks(e, m)[1][1] <=> RoleUnknown(e, m)
         /\ Checks(e, m)[2][1] <=> NotAllowed(e, m)
         /\ Checks(e, m)[5][1] <=> NoDetails(e, m)
         /\ Checks(e, m)[6][1] <=> ModelClash(e, m)
         /\ Checks(e, m)[7][1] <=> Unfit(e, m)
<1>1. Refusal(e, m) = FirstError(Checks(e, m))
  BY DEF Refusal, Checks
<1>2. DOMAIN Checks(e, m) = 1..7
  BY DEF Checks
<1>3. /\ Checks(e, m)[1] = <<RoleUnknown(e, m), "internal_error">>
      /\ Checks(e, m)[2] = <<NotAllowed(e, m), "not_authorized">>
      /\ Checks(e, m)[3] = <<~e.procedure /\ NoDetails(e, m), "internal_error">>
      /\ Checks(e, m)[4] = <<Surplus(e, m), "invalid_arguments">>
      /\ Checks(e, m)[5] = <<NoDetails(e, m), "internal_error">>
      /\ Checks(e, m)[6] = <<ModelClash(e, m), "runtime_error">>
      /\ Checks(e, m)[7] = <<Unfit(e, m), "invalid_argument">>
  BY DEF Checks
<1>4. /\ Checks(e, m)[1][2] = "internal_error"
      /\ Checks(e, m)[2][2] = "not_authorized"
      /\ Checks(e, m)[3][2] = "internal_error"
      /\ Checks(e, m)[4][2] = "invalid_arguments"
      /\ Checks(e, m)[5][2] = "internal_error"
      /\ Checks(e, m)[6][2] = "runtime_error"
      /\ Checks(e, m)[7][2] = "invalid_argument"
  BY <1>3
<1>5. /\ Checks(e, m)[1][1] <=> RoleUnknown(e, m)
      /\ Checks(e, m)[2][1] <=> NotAllowed(e, m)
      /\ Checks(e, m)[5][1] <=> NoDetails(e, m)
      /\ Checks(e, m)[6][1] <=> ModelClash(e, m)
      /\ Checks(e, m)[7][1] <=> Unfit(e, m)
  BY <1>3
<1> QED
  BY <1>1, <1>2, <1>4, <1>5

LEMMA NotRefused ==
  ASSUME NEW e, NEW m, Refusal(e, m) = "none"
  PROVE  /\ ~RoleUnknown(e, m) /\ ~NotAllowed(e, m) /\ ~NoDetails(e, m)
         /\ ~Unfit(e, m)
<1>1. \A i \in 1..7 : ~Checks(e, m)[i][1]
  BY ChecksAre, NoErrorNoneHolds
<1> QED
  BY <1>1, ChecksAre

LEMMA RefusedRuntime ==
  ASSUME NEW e, NEW m, Refusal(e, m) = "runtime_error"
  PROVE  ModelClash(e, m)
<1>1. PICK i \in DOMAIN Checks(e, m) : Checks(e, m)[i][1] /\ "runtime_error" = Checks(e, m)[i][2]
  BY ChecksAre, FirstErrorHolds
<1> QED
  BY <1>1, ChecksAre

-----------------------------------------------------------------------------
(* What a signature and a message make of each other.                      *)

LEMMA Positions ==
  ASSUME NEW e \in Endpoint
  PROVE  /\ DOMAIN e.sig \subseteq Nat \ {0}
         /\ IsFiniteSet(DOMAIN e.sig)
         /\ \A i \in DOMAIN e.sig : e.sig[i] \in Annotated \cup Injected
<1>1. e.sig \in Seq(Annotated \cup Injected)
  BY DEF Endpoint
<1>2. DOMAIN e.sig = 1..Len(e.sig) /\ Len(e.sig) \in Nat
  BY <1>1
<1>3. IsFiniteSet(DOMAIN e.sig)
  BY <1>2, FS_Interval
<1> QED
  BY <1>1, <1>2, <1>3

\* Where the call of the function fits, a required parameter is a field of the
\* dynamic model.
LEMMA RequiredIsField ==
  ASSUME NEW e \in Endpoint, NEW m, ~Misfit(e, m),
         NEW i \in DOMAIN e.sig, e.sig[i] = "required"
  PROVE  Shape(e) = "dynamic" /\ i \in Names(e, m) /\ i \in RequestArgs(e)
<1>1. i \in Having(e, Annotated \ {"optional"})
  BY DEF Having, Annotated
<1>2. i \notin Own(e)
  BY DEF Own, Plain, Contexts, DetailsField, Having
<1>3. i \in Given(e, m) /\ Given(e, m) \subseteq DOMAIN e.sig
  BY <1>1, <1>2 DEF Misfit
<1>4. i \notin Positional(e)
  BY DEF Positional, Incoming, Having
<1>5. Unknown \notin DOMAIN e.sig
  BY Positions DEF Unknown
<1>6. Shape(e) = "dynamic"
  BY <1>3, <1>4, <1>5 DEF Given
<1>7. i \in Names(e, m)
  BY <1>3, <1>6 DEF Given
<1>8. i \in RequestArgs(e)
  BY <1>6 DEF RequestArgs, Declared, Having
<1> QED
  BY <1>6, <1>7, <1>8

\* A message that passes the checks and fits: what the function is called with.
LEMMA CallFits ==
  ASSUME NEW e \in Endpoints, NEW m, Refusal(e, m) = "none", ~Misfit(e, m)
  PROVE  /\ e.restricted /\ m \in Messages => m.details = "allowed"
         /\ \A i \in DOMAIN e.sig :
              e.sig[i] # "required" \/ (i \in Names(e, m) /\ m.values # "unfit")
         /\ DetailsField(e) # {} => m.details # "absent"
         /\ \A i \in Given(e, m) :
              e.sig[i] \notin {IF e.procedure THEN "call_details" ELSE "event_details"}
<1>1. ~RoleUnknown(e, m) /\ ~NotAllowed(e, m) /\ ~NoDetails(e, m) /\ ~Unfit(e, m)
  BY NotRefused
<1>2. e \in Endpoint /\ (e.restricted => e.procedure)
  BY EndpointAssumption
<1>3. e.restricted /\ m \in Messages => m.details = "allowed"
  <2> SUFFICES ASSUME e.restricted, m \in Messages
               PROVE  m.details = "allowed"
    OBVIOUS
  <2>1. m.details \in {"absent", "roleless", "allowed", "other"}
    BY EndpointAssumption DEF Message
  <2>2. m.details \notin {"absent", "roleless"} /\ m.details # "other"
    BY <1>1, <1>2 DEF RoleUnknown, NotAllowed
  <2> QED
    BY <2>1, <2>2
<1>4. ASSUME NEW i \in DOMAIN e.sig, e.sig[i] = "required"
      PROVE  i \in Names(e, m) /\ m.values # "unfit"
  <2>1. Shape(e) = "dynamic" /\ i \in Names(e, m) /\ i \in RequestArgs(e)
    BY <1>2, <1>4, RequiredIsField
  <2>2. m.values # "unfit"
    BY <1>1, <2>1 DEF Unfit
  <2> QED
    BY <2>1, <2>2
<1>5. DetailsField(e) # {} => m.details # "absent"
  BY <1>1 DEF NoDetails
<1>6. ASSUME NEW i \in Given(e, m)
      PROVE  e.sig[i] \notin {IF e.procedure THEN "call_details" ELSE "event_details"}
  <2>1. i \in DOMAIN e.sig /\ i \notin DetailsField(e)
    BY <1>6 DEF Misfit, Own
  <2> QED
    BY <2>1 DEF DetailsField, Having
<1> QED
  BY <1>3, <1>4, <1>5, <1>6

\* What only a signature with a model or the whole message has is its one field.
LEMMA OneField ==
  ASSUME NEW e \in Endpoint, ~Rejected(e), Having(e, {"model", "invocation"}) # {},
         NEW i \in Hints(e), NEW j \in Hints(e)
  PROVE  i = j
<1>1. IsFiniteSet(Hints(e))
  <2>1. Hints(e) \in SUBSET DOMAIN e.sig
    BY DEF Hints
  <2> QED
    BY <2>1, Positions, FS_Subset
<1>2. Cardinality(Hints(e)) = 1
  BY DEF Rejected
<1>3. PICK x : Hints(e) = {x}
  BY <1>1, <1>2, FS_Singleton
<1> QED
  BY <1>3

\* The call of a function that is registered, with a message that passes the checks,
\* fits unless one of the two makes it odd.
LEMMA MisfitIsOdd ==
  ASSUME NEW e \in Endpoint, ~Rejected(e), NEW m, Refusal(e, m) = "none", ~Odd(e, m)
  PROVE  ~Misfit(e, m)
<1>1. ~Unfit(e, m)
  BY NotRefused
<1>2. /\ m.kwargs \subseteq RequestKwargs(e)
      /\ Having(e, IF e.procedure THEN {"event_details"}
                   ELSE {"call_details", "invocation"}) = {}
  BY DEF Odd
<1>3. /\ DOMAIN e.sig \subseteq Nat \ {0}
      /\ \A i \in DOMAIN e.sig : e.sig[i] \in Annotated \cup Injected
  BY Positions
<1>4. Having(e, {"invocation"}) # {} => e.procedure
  BY <1>2 DEF Having
<1>5. Shape(e) \in {"message", "model", "dynamic", "none"}
  BY DEF Shape
<1>6. Shape(e) \in {"message", "model"} =>
          /\ Given(e, m) = Positional(e) /\ Positional(e) # {}
          /\ Having(e, {"model", "invocation"}) # {}
  <2>1. Shape(e) = "message" => Having(e, {"invocation"}) # {} /\ e.procedure
    BY <1>4 DEF Shape
  <2>2. Shape(e) = "model" => Having(e, {"model"}) # {}
    BY DEF Shape
  <2>3. Having(e, {"invocation"}) \subseteq Having(e, {"model", "invocation"})
        /\ Having(e, {"model"}) \subseteq Having(e, {"model", "invocation"})
    BY DEF Having
  <2>4. Shape(e) \in {"message", "model"} => Positional(e) # {}
    BY <2>1, <2>2 DEF Positional, Incoming
  <2> QED
    BY <2>1, <2>2, <2>3, <2>4 DEF Given
<1>7. Shape(e) = "dynamic" =>
          /\ Given(e, m) = Names(e, m)
          /\ RequestArgs(e) = Declared(e) /\ RequestKwargs(e) = Having(e, {"optional"})
          /\ Declared(e) \subseteq Names(e, m)
          /\ Names(e, m) \subseteq Declared(e) \cup Having(e, {"optional"})
  <2> SUFFICES ASSUME Shape(e) = "dynamic"
               PROVE  /\ Given(e, m) = Names(e, m)
                      /\ RequestArgs(e) = Declared(e) /\ RequestKwargs(e) = Having(e, {"optional"})
                      /\ Declared(e) \subseteq Names(e, m)
                      /\ Names(e, m) \subseteq Declared(e) \cup Having(e, {"optional"})
    OBVIOUS
  <2>1. Given(e, m) = Names(e, m)
    BY DEF Given
  <2>2. RequestArgs(e) = Declared(e) /\ RequestKwargs(e) = Having(e, {"optional"})
    BY DEF RequestArgs, RequestKwargs
  <2>3. Declared(e) \subseteq Names(e, m)
    BY <1>1, <2>2 DEF Unfit
  <2>4. ByPosition(m.args, RequestArgs(e)) \subseteq RequestArgs(e)
    BY DEF ByPosition
  <2> QED
    BY <1>2, <2>1, <2>2, <2>3, <2>4 DEF Names
<1>8. Shape(e) = "none" => Given(e, m) = {} /\ Hints(e) = {}
  BY DEF Shape, Given
<1>9. Given(e, m) \subseteq DOMAIN e.sig
  BY <1>5, <1>6, <1>7, <1>8 DEF Positional, Incoming, Declared, Having
<1>10. Given(e, m) \cap Own(e) = {}
  BY <1>5, <1>6, <1>7, <1>8
  DEF Own, Plain, Contexts, DetailsField, Positional, Incoming, Declared, Having
<1>11. ASSUME NEW i \in Having(e, Annotated \ {"optional"})
       PROVE  i \in Given(e, m) \cup Own(e)
  <2>1. i \in DOMAIN e.sig /\ e.sig[i] \in Annotated \ {"optional"}
    BY DEF Having
  <2>2. e.sig[i] \notin {"untyped", "generic"}
    BY <2>1 DEF Rejected, Having
  <2>3. CASE e.sig[i] \in {"call_details", "event_details"}
    BY <1>2, <2>1, <2>3 DEF Own, DetailsField, Having
  <2>4. CASE e.sig[i] \in {"required", "event", "model", "invocation"}
    <3>1. i \in Hints(e)
      BY <2>1, <2>4 DEF Hints, Collected, DetailsField, Having
    <3>2. CASE Shape(e) \in {"message", "model"}
      <4>1. PICK j \in Having(e, {"model", "invocation"}) : TRUE
        BY <1>6, <3>2
      <4>2. j \in Hints(e)
        BY <4>1 DEF Hints, Collected, DetailsField, Having
      <4>3. i = j
        BY <1>6, <3>1, <3>2, <4>2, OneField
      <4>4. j \in Positional(e)
        BY <1>4, <4>1 DEF Positional, Incoming, Having
      <4> QED
        BY <1>6, <3>2, <4>3, <4>4
    <3>3. CASE Shape(e) = "dynamic"
      <4>1. Having(e, {"invocation"}) = {} /\ Having(e, {"model"}) = {}
        BY <3>3 DEF Shape
      <4>2. e.sig[i] \in {"required", "event"}
        BY <2>1, <2>4, <4>1 DEF Having
      <4> QED
        BY <1>7, <2>1, <3>3, <4>2 DEF Declared, Having
    <3>4. CASE Shape(e) = "none"
      BY <1>8, <3>1, <3>4
    <3> QED
      BY <1>5, <3>2, <3>3, <3>4
  <2> QED
    BY <2>1, <2>2, <2>3, <2>4 DEF Annotated
<1> QED
  BY <1>9, <1>10, <1>11 DEF Misfit

\* So does the clash of the details with a keyword of the model.
LEMMA ClashIsOdd ==
  ASSUME NEW e \in Endpoint, NEW m, ModelClash(e, m)
  PROVE  Odd(e, m)
<1>1. CASE e.clash \cap (Names(e, m) \cup DetailsField(e)) # {}
  BY <1>1 DEF Odd
<1>2. CASE e.clash \cap (Names(e, m) \cup DetailsField(e)) = {}
  <2>1. Shape(e) = "model" /\ DetailsField(e) \cap m.kwargs # {}
    BY <1>2 DEF ModelClash
  <2>2. PICK i \in DetailsField(e) : i \in m.kwargs
    BY <2>1
  <2>3. i \in Nat
    BY Positions DEF DetailsField, Having
  <2>4. RequestKwargs(e) = {ModelOptional}
    BY <2>1 DEF RequestKwargs
  <2> QED
    BY <2>2, <2>3, <2>4 DEF Odd, ModelOptional
<1> QED
  BY <1>1, <1>2

\* What the handler reports as a runtime error.
LEMMA OutcomeRuntime ==
  ASSUME NEW e, NEW r, Outcome(e, r) = "runtime_error"
  PROVE  \/ r.kind \in {"raised", "unyielded", "unbound"}
         \/ e.response # <<>> /\ ~r.fits
         \/ ~r.sendable
<1> SUFFICES ASSUME r.kind \notin {"raised", "unyielded", "unbound"}
             PROVE  (e.response # <<>> /\ ~r.fits) \/ ~r.sendable
  OBVIOUS
<1>1. ResultError(e, r) = "runtime_error"
  BY DEF Outcome
<1> DEFINE modelled == e.response # <<>>
           n == IF modelled THEN Head(e.response) ELSE 0
           checks == << <<modelled /\ r.kind = "none", "internal_error">>,
                        <<modelled /\ r.kind \in {"result", "tuple"} /\ r.count # n,
                          "internal_error">>,
                        <<modelled /\ r.kind = "primitive" /\ n # 1, "internal_error">>,
                        <<modelled /\ ~r.fits, "runtime_error">>,
                        <<r.kind # "none" /\ ~r.sendable, "runtime_error">>,
                        <<TRUE, "answered">> >>
<1>2. FirstError(checks) = "runtime_error"
  BY <1>1 DEF ResultError
<1>3. DOMAIN checks = 1..6
  OBVIOUS
<1>4. /\ checks[1] = <<modelled /\ r.kind = "none", "internal_error">>
      /\ checks[2] = <<modelled /\ r.kind \in {"result", "tuple"} /\ r.count # n,
                       "internal_error">>
      /\ checks[3] = <<modelled /\ r.kind = "primitive" /\ n # 1, "internal_error">>
      /\ checks[4] = <<modelled /\ ~r.fits, "runtime_error">>
      /\ checks[5] = <<r.kind # "none" /\ ~r.sendable, "runtime_error">>
      /\ checks[6] = <<TRUE, "answered">>
  OBVIOUS
<1> HIDE DEF n
<1>5. \A i \in 1..6 : checks[i][2] = "runtime_error" => i \in {4, 5}
  BY <1>4
<1>6. /\ checks[4][1] <=> modelled /\ ~r.fits
      /\ checks[5][1] <=> r.kind # "none" /\ ~r.sendable
  BY <1>4
<1> HIDE DEF checks
<1>7. PICK i \in DOMAIN checks : checks[i][1] /\ FirstError(checks) = checks[i][2]
  BY <1>2, FirstErrorHolds
<1>8. checks[4][1] \/ checks[5][1]
  BY <1>2, <1>3, <1>5, <1>7
<1> QED
  BY <1>6, <1>8

-----------------------------------------------------------------------------
(* The steps.                                                              *)

LEMMA InitIInv == Init => IInv
  BY EmptyIsSeq DEF Init, IInv, Stacks, Unwinding, Phases, Fresh, Undecided,
                    RefusedUntouched, Pending, Failure

\* The application fails, or there is nothing more to do: everything is still open.
LEMMA ToClosing ==
  ASSUME IInv, phase \in {"resolving", "running"}, phase' \in {"running", "closing"},
         UNCHANGED <<opened, closed, outcome>>
  PROVE  IInv'
  BY DEF IInv, Stacks, Unwinding, Phases, Fresh, Undecided, RefusedUntouched, IsSeq, ToSet

LEMMA ReceiveIInv ==
  ASSUME IInv, NEW m, Receive(m)
  PROVE  IInv'
  BY DEF Receive, IInv, Stacks, Unwinding, Phases, Fresh, Undecided,
         RefusedUntouched, IsSeq, ToSet

LEMMA RegisterIInv ==
  ASSUME IInv, Register
  PROVE  IInv'
  BY DEF Register, IInv, Stacks, Unwinding, Phases, Fresh, Undecided,
         RefusedUntouched, IsSeq, ToSet

LEMMA ResolveIInv ==
  ASSUME IInv, Resolve
  PROVE  IInv'
  BY DEF Resolve, IInv, Stacks, Unwinding, Phases, Fresh, Undecided,
         RefusedUntouched, IsSeq, ToSet

LEMMA EnterIInv ==
  ASSUME IInv, Enter
  PROVE  IInv'
<1>1. PICK x \in NextContext :
          /\ opened' = Append(opened, x)
          /\ phase = "resolving" /\ UNCHANGED <<closed, phase, outcome, resolved, result>>
  BY DEF Enter
<1>2. IsSeq(Append(opened, x)) /\ Len(opened) \in Nat
  BY AppendIsSeq DEF IInv, Stacks
<1>3. IsSeq(opened') /\ IsSeq(closed')
  BY <1>1, <1>2 DEF IInv, Stacks, IsSeq, ToSet
<1>4. closed = <<>> /\ Len(closed) = 0
  BY <1>1 DEF IInv, Phases
<1>5. Len(opened') \in Nat
  BY <1>1, <1>2, <1>3 DEF IsSeq
<1> QED
  BY <1>1, <1>3, <1>4, <1>5 DEF IInv, Stacks, Unwinding, Phases, Fresh, Undecided,
                                RefusedUntouched

\* One more context is left, the last one that is open.
LEMMA LeaveIInv ==
  ASSUME IInv, NEW kind, NEW fault, Leave(kind, fault)
  PROVE  IInv'
<1>1. /\ closed' = Append(closed, LastOpen)
      /\ phase = "closing" /\ Len(closed) < Len(opened)
      /\ UNCHANGED <<opened, phase, outcome, resolved>>
  BY DEF Leave
<1>2. /\ IsSeq(closed') /\ Len(closed) \in Nat /\ Len(closed') = Len(closed) + 1
      /\ \A i \in 1..Len(closed) : closed'[i] = closed[i]
      /\ closed'[Len(closed) + 1] = LastOpen
  <2>1. IsSeq(closed)
    BY DEF IInv, Stacks
  <2>2. /\ IsSeq(Append(closed, LastOpen)) /\ Len(closed) \in Nat
        /\ Len(Append(closed, LastOpen)) = Len(closed) + 1
        /\ \A i \in 1..Len(closed) : Append(closed, LastOpen)[i] = closed[i]
        /\ Append(closed, LastOpen)[Len(closed) + 1] = LastOpen
    BY <2>1, AppendIsSeq
  <2>3. IsSeq(closed')
    BY <1>1, <2>2 DEF IsSeq, ToSet
  <2> QED
    BY <1>1, <2>2, <2>3
<1>3. IsSeq(opened') /\ Len(opened) \in Nat
  BY <1>1 DEF IInv, Stacks, IsSeq, ToSet
<1>4. LastOpen = opened[Len(opened) - (Len(closed) + 1) + 1]
  BY <1>2, <1>3 DEF LastOpen
<1>5. Unwinding'
  <2>1. Len(closed') <= Len(opened')
    BY <1>1, <1>2, <1>3
  <2>2. ASSUME NEW i \in 1..Len(closed')
        PROVE  closed'[i] = opened'[Len(opened') - i + 1]
    <3>1. CASE i \in 1..Len(closed)
      BY <1>1, <1>2, <3>1 DEF IInv, Unwinding
    <3>2. CASE i = Len(closed) + 1
      BY <1>1, <1>2, <1>4, <3>2
    <3> QED
      BY <1>2, <3>1, <3>2
  <2> QED
    BY <2>1, <2>2 DEF Unwinding
<1> QED
  BY <1>1, <1>2, <1>3, <1>5 DEF IInv, Stacks, Phases, Fresh, Undecided, RefusedUntouched

LEMMA SettleIInv ==
  ASSUME IInv, Settle
  PROVE  IInv'
<1>1. outcome' \notin Refusals
  BY NoResultRefuses DEF Settle
<1> QED
  BY <1>1 DEF Settle, IInv, Stacks, Unwinding, Phases, Fresh, Undecided,
              RefusedUntouched, Refusals, IsSeq, ToSet

LEMMA NextIInv ==
  ASSUME IInv, [Next]_vars
  PROVE  IInv'
<1>1. CASE Register
  BY <1>1, RegisterIInv
<1>2. CASE \E m \in Messages : Receive(m)
  BY <1>2, ReceiveIInv
<1>3. CASE Resolve
  BY <1>3, ResolveIInv
<1>4. CASE Enter
  BY <1>4, EnterIInv
<1>5. CASE DependencyRaises \/ FunctionRaises \/ Cancel
  BY <1>5, ToClosing DEF DependencyRaises, FunctionRaises, Cancel, Fails
<1>6. CASE Call
  BY <1>6, ToClosing DEF Call
<1>7. CASE \E r \in Results : Return(r)
  BY <1>7, ToClosing DEF Return
<1>8. CASE Exit \/ ExitRaises \/ ExitSwallows
  BY <1>8, LeaveIInv DEF Exit, ExitRaises, ExitSwallows
<1>9. CASE Settle
  BY <1>9, SettleIInv
<1>10. CASE UNCHANGED vars
  BY <1>10 DEF vars, IInv, Stacks, Unwinding, Phases, Fresh, Undecided,
               RefusedUntouched, IsSeq, ToSet
<1> QED
  BY <1>1, <1>2, <1>3, <1>4, <1>5, <1>6, <1>7, <1>8, <1>9, <1>10 DEF Next

LEMMA Invariance == Spec => []IInv
<1>1. IInv /\ [Next]_vars => IInv'
  BY NextIInv
<1> QED
  BY InitIInv, <1>1, PTL DEF Spec

LEMMA InitRunInv == Init => RunInv
<1> SUFFICES ASSUME Init
             PROVE  Admitted /\ Taken /\ Passed /\ Explained /\ RuntimeErrorExplained
  BY DEF RunInv
<1>1. ToSet(<<>>) = {}
  BY DEF ToSet
<1> QED
  BY <1>1 DEF Init, Admitted, Taken, Passed, Explained, RuntimeErrorExplained, Pending, Failure

\* Something of the application is added to what has failed.
LEMMA StaysExplained ==
  ASSUME Explained, NEW fault, faults' = faults \cup fault, UNCHANGED <<endpoint, message>>,
         result' = result \/ fault \cap {"dependency", "function", "context", "swallowed"} # {}
         \/ result'.kind \notin {"raised", "unyielded", "unbound"}
  PROVE  Explained'
  BY DEF Explained, Odd

LEMMA ReceiveRunInv ==
  ASSUME IInv, RunInv, NEW m \in Messages, Receive(m)
  PROVE  RunInv'
<1>1. /\ status = "registered" /\ phase = "idle" /\ message' = m
      /\ outcome' = Refusal(endpoint, m)
      /\ phase' = IF outcome' = "none" THEN "resolving" ELSE "done"
      /\ UNCHANGED <<endpoint, status, resolved, opened, closed, result, faults>>
  BY DEF Receive
<1>2. Admitted'
  BY <1>1 DEF RunInv, Admitted
<1>3. Taken'
  BY <1>1 DEF RunInv, Taken
<1>4. Passed'
  BY <1>1 DEF Passed
<1>5. Explained'
  BY <1>1 DEF IInv, Fresh, Explained, Pending, Failure
<1>6. RuntimeErrorExplained'
  <2> SUFFICES ASSUME outcome' = "runtime_error"
               PROVE  RuntimeErrorExplained'
    BY DEF RuntimeErrorExplained
  <2>1. ModelClash(endpoint, m)
    BY <1>1, RefusedRuntime
  <2>2. endpoint \in Endpoint
    BY EndpointAssumption DEF RunInv, Admitted
  <2>3. Odd(endpoint, m)
    BY <2>1, <2>2, ClashIsOdd
  <2>4. Odd(endpoint', message')
    BY <1>1, <2>3
  <2> QED
    BY <2>4 DEF Odd, RuntimeErrorExplained
<1> QED
  BY <1>2, <1>3, <1>4, <1>5, <1>6 DEF RunInv

LEMMA DependencyRunInv ==
  ASSUME IInv, RunInv, Resolve \/ Enter
  PROVE  RunInv'
<1>1. /\ phase = "resolving"
      /\ UNCHANGED <<endpoint, status, message, phase, result, outcome, faults>>
  BY DEF Resolve, Enter
<1>2. Taken'
  <2>1. CASE Resolve
    BY <2>1 DEF Resolve, NextPlain, First, RunInv, Taken
  <2>2. CASE Enter
    <3>1. PICK i \in Contexts(endpoint) : opened' = Append(opened, i) /\ UNCHANGED resolved
      BY <2>2 DEF Enter, NextContext, First
    <3>2. IsSeq(opened)
      BY DEF IInv, Stacks
    <3>3. ToSet(opened') \subseteq ToSet(opened) \cup {i}
      <4>1. /\ IsSeq(Append(opened, i)) /\ Len(opened) \in Nat
            /\ Len(Append(opened, i)) = Len(opened) + 1
            /\ \A k \in 1..Len(opened) : Append(opened, i)[k] = opened[k]
            /\ Append(opened, i)[Len(opened) + 1] = i
        BY <3>2, AppendIsSeq
      <4>2. DOMAIN opened = 1..Len(opened) /\ DOMAIN opened' = 1..(Len(opened) + 1)
        BY <3>1, <3>2, <4>1 DEF IsSeq
      <4>3. ASSUME NEW k \in DOMAIN opened'
            PROVE  opened'[k] \in ToSet(opened) \cup {i}
        <5>1. CASE k = Len(opened) + 1
          BY <3>1, <4>1, <5>1
        <5>2. CASE k \in 1..Len(opened)
          BY <3>1, <4>1, <4>2, <5>2 DEF ToSet
        <5> QED
          BY <4>1, <4>2, <5>1, <5>2
      <4> QED
        BY <4>3 DEF ToSet
    <3> QED
      BY <1>1, <3>1, <3>3 DEF RunInv, Taken
  <2> QED
    BY <2>1, <2>2
<1> QED
  BY <1>1, <1>2 DEF RunInv, Admitted, Passed, Explained, RuntimeErrorExplained

LEMMA FailsRunInv ==
  ASSUME IInv, RunInv, NEW kind, NEW fault, phase \in {"resolving", "running"},
         Fails(kind, fault),
         fault \in {"dependency", "function"} \/ kind = Cancelled
  PROVE  RunInv'
<1>1. /\ phase' = "closing" /\ result' = kind /\ faults' = faults \cup {fault}
      /\ UNCHANGED <<endpoint, status, message, resolved, opened, closed, outcome>>
  BY DEF Fails
<1>2. Explained'
  <2>1. Explained
    BY DEF RunInv
  <2>2. \/ {fault} \cap {"dependency", "function", "context", "swallowed"} # {}
        \/ result'.kind \notin {"raised", "unyielded", "unbound"}
    <3>1. CASE fault \in {"dependency", "function"}
      <4>1. fault \in {fault} \cap {"dependency", "function", "context", "swallowed"}
        BY <3>1
      <4> QED
        BY <4>1, Zenon
    <3>2. CASE kind = Cancelled
      BY <1>1, <3>2 DEF Cancelled, Failure
    <3> QED
      BY <3>1, <3>2
  <2> QED
    BY <1>1, <2>1, <2>2, StaysExplained
<1>3. RuntimeErrorExplained'
  BY <1>1 DEF IInv, Undecided, RuntimeErrorExplained
<1>4. Admitted' /\ Taken' /\ Passed'
  BY <1>1 DEF RunInv, Admitted, Taken, Passed
<1> QED
  BY <1>2, <1>3, <1>4 DEF RunInv

LEMMA CallRunInv ==
  ASSUME IInv, RunInv, Call
  PROVE  RunInv'
<1>1. /\ phase = "resolving" /\ Ready
      /\ UNCHANGED <<endpoint, status, message, resolved, opened, closed, outcome, faults>>
      /\ \/ /\ Misfit(endpoint, message) /\ phase' = "closing" /\ result' = Raised
         \/ /\ ~Misfit(endpoint, message) /\ phase' = "running" /\ UNCHANGED result
  BY DEF Call
<1>2. Admitted' /\ Taken'
  BY <1>1 DEF RunInv, Admitted, Taken
<1>3. Passed'
  BY <1>1 DEF RunInv, Passed, Ready
<1>4. Misfit(endpoint, message) => Odd(endpoint, message)
  <2>1. endpoint \in Endpoint /\ ~Rejected(endpoint) /\ Refusal(endpoint, message) = "none"
    BY <1>1, EndpointAssumption DEF RunInv, Admitted, Passed
  <2> QED
    BY <2>1, MisfitIsOdd
<1>5. Explained'
  BY <1>1, <1>4 DEF RunInv, Explained, Odd
<1>6. RuntimeErrorExplained'
  BY <1>1 DEF IInv, Undecided, RuntimeErrorExplained
<1> QED
  BY <1>2, <1>3, <1>5, <1>6 DEF RunInv

LEMMA ReturnRunInv ==
  ASSUME IInv, RunInv, NEW r \in Results, Return(r)
  PROVE  RunInv'
<1>1. /\ phase = "running" /\ phase' = "closing" /\ result' = r
      /\ UNCHANGED <<endpoint, status, message, resolved, opened, closed, outcome, faults>>
  BY DEF Return
<1>2. r.kind \notin {"raised", "unyielded", "unbound"}
  BY EndpointAssumption DEF Result
<1> QED
  BY <1>1, <1>2 DEF IInv, Undecided, RunInv, Admitted, Taken, Passed, Explained, Odd,
                    RuntimeErrorExplained

LEMMA LeaveRunInv ==
  ASSUME IInv, RunInv, Exit \/ ExitRaises \/ ExitSwallows
  PROVE  RunInv'
<1>1. PICK fault :
        /\ faults' = faults \cup fault
        /\ result' = result \/ fault \cap {"dependency", "function", "context", "swallowed"} # {}
        /\ phase = "closing"
        /\ UNCHANGED <<endpoint, status, message, phase, resolved, opened, outcome>>
  BY DEF Exit, ExitRaises, ExitSwallows, Leave
<1>2. Explained'
  BY <1>1, StaysExplained DEF RunInv
<1>3. RuntimeErrorExplained'
  BY <1>1 DEF IInv, Undecided, RuntimeErrorExplained
<1> QED
  BY <1>1, <1>2, <1>3 DEF RunInv, Admitted, Taken, Passed

LEMMA SettleRunInv ==
  ASSUME IInv, RunInv, Settle
  PROVE  RunInv'
<1>1. /\ phase' = "done" /\ phase = "closing" /\ outcome' = Outcome(endpoint, result)
      /\ UNCHANGED <<endpoint, status, message, resolved, opened, closed, result, faults>>
  BY DEF Settle
<1>2. Admitted' /\ Taken' /\ Passed' /\ Explained'
  BY <1>1 DEF RunInv, Admitted, Taken, Passed, Explained, Odd
<1>3. RuntimeErrorExplained'
  <2> SUFFICES ASSUME outcome' = "runtime_error"
               PROVE  RuntimeErrorExplained'
    BY DEF RuntimeErrorExplained
  <2>1. \/ result.kind \in {"raised", "unyielded", "unbound"}
        \/ endpoint.response # <<>> /\ ~result.fits
        \/ ~result.sendable
    BY <1>1, OutcomeRuntime
  <2> QED
    BY <1>1, <2>1 DEF RunInv, Explained, Odd, RuntimeErrorExplained
<1> QED
  BY <1>2, <1>3 DEF RunInv

LEMMA NextRunInv ==
  ASSUME IInv, RunInv, [Next]_vars
  PROVE  RunInv'
<1> DEFINE T == RunInv'
<1> SUFFICES T
  OBVIOUS
<1>1. CASE Register
  BY <1>1 DEF Register, IInv, Undecided, RunInv, Admitted, Taken, Passed, Ready, Explained, Odd,
              RuntimeErrorExplained
<1>2. CASE \E m \in Messages : Receive(m)
  BY <1>2, ReceiveRunInv
<1>3. CASE Resolve \/ Enter
  BY <1>3, DependencyRunInv
<1>4. CASE DependencyRaises \/ FunctionRaises \/ Cancel
  BY <1>4, FailsRunInv DEF DependencyRaises, FunctionRaises, Cancel
<1>5. CASE Call
  BY <1>5, CallRunInv
<1>6. CASE \E r \in Results : Return(r)
  BY <1>6, ReturnRunInv
<1>7. CASE Exit \/ ExitRaises \/ ExitSwallows
  BY <1>7, LeaveRunInv
<1>8. CASE Settle
  BY <1>8, SettleRunInv
<1>9. CASE UNCHANGED vars
  BY <1>9 DEF vars, RunInv, Admitted, Taken, Passed, Ready, Explained, Odd, RuntimeErrorExplained
<1> HIDE DEF T
<1> QED
  BY <1>1, <1>2, <1>3, <1>4, <1>5, <1>6, <1>7, <1>8, <1>9 DEF Next

LEMMA Runs == Spec => [](IInv /\ RunInv)
<1>1. Init => IInv /\ RunInv
  BY InitIInv, InitRunInv
<1>2. IInv /\ RunInv /\ [Next]_vars => (IInv /\ RunInv)'
  BY NextIInv, NextRunInv
<1> QED
  BY <1>1, <1>2, PTL DEF Spec

-----------------------------------------------------------------------------
\* For all signatures, messages and results: whatever fails in between, every
\* context that was entered has been left when the message is settled, the last one
\* first (ExitStack in async_.py and sync.py).
THEOREM EndpointContextsClosed == Spec => []ContextsClosed
<1>1. IInv => ContextsClosed
  <2> SUFFICES ASSUME IInv, phase = "done"
               PROVE  closed = Reverse(opened)
    BY DEF ContextsClosed
  <2>1. /\ Len(closed) = Len(opened) /\ Len(opened) \in Nat
        /\ \A i \in 1..Len(opened) : closed[i] = opened[Len(opened) - i + 1]
    BY DEF IInv, Stacks, Unwinding, Phases, IsSeq
  <2>2. closed = [i \in 1..Len(opened) |-> closed[i]]
    BY <2>1 DEF IInv, Stacks, IsSeq
  <2> QED
    BY <2>1, <2>2 DEF Reverse
<1> QED
  BY <1>1, Invariance, PTL

\* For all signatures, messages and results: a message that is refused as such has
\* created no dependency and not reached the function, and what the function returns
\* is never reported as a mistake of its caller (helpers.py).
THEOREM EndpointRefusedUntouched == Spec => []RefusedUntouched
<1>1. IInv => RefusedUntouched
  BY DEF IInv
<1> QED
  BY <1>1, Invariance, PTL

\* For all signatures, messages and results: when the function runs, the checks that
\* came before the dependencies and the call still say that its caller is allowed,
\* its required fields are there with values that pydantic lets pass, its details are
\* the router's, and exactly its dependencies are there, all of them still open.
THEOREM EndpointRunsAsDeclared == Spec => []RunsAsDeclared
<1>1. IInv /\ RunInv => RunsAsDeclared
  <2> SUFFICES ASSUME IInv, RunInv, phase = "running"
               PROVE  RunsAsDeclared
    BY DEF RunsAsDeclared
  <2>1. /\ endpoint \in Endpoints /\ message \in Messages
        /\ Refusal(endpoint, message) = "none" /\ ~Misfit(endpoint, message) /\ Ready
    BY DEF RunInv, Admitted, Passed
  <2>2. closed = <<>>
    BY DEF IInv, Phases
  <2>3. resolved \cup ToSet(opened) = Plain(endpoint) \cup Contexts(endpoint)
    BY <2>1 DEF RunInv, Taken, Ready
  <2>4. Plain(endpoint) \cup Contexts(endpoint)
          = Having(endpoint, IF endpoint.async THEN {"coroutine", "async_generator"}
                             ELSE {"function", "generator"})
    BY DEF Plain, Contexts, Having
  <2> QED
    BY <2>1, <2>2, <2>3, <2>4, CallFits DEF RunsAsDeclared
<1> QED
  BY <1>1, Runs, PTL

\* For all signatures, messages and results: a runtime error has one of the causes
\* that the property lists.  A caller that sends only keywords the function declares
\* hears of one only for what the application did or named.
THEOREM EndpointRuntimeErrorExplained == Spec => []RuntimeErrorExplained
<1>1. RunInv => RuntimeErrorExplained
  BY DEF RunInv
<1> QED
  BY <1>1, Runs, PTL
=============================================================================
