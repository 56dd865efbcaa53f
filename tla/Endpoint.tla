------------------------------ MODULE Endpoint ------------------------------
(***************************************************************************)
(* A function that the runner registers for a procedure or a topic         *)
(* (xconn/_client/helpers.py, async_.py, sync.py).  When it is registered  *)
(* its signature is inspected; every message it then receives is checked   *)
(* against the signature, the dependencies of the function are resolved,   *)
(* the function runs, and the dependencies that are context managers are   *)
(* left again, whatever has happened.  What the function returns is put    *)
(* through the response model.                                             *)
(*                                                                         *)
(* A parameter is known by its position and the kind of its annotation or  *)
(* of its default; a message by how many arguments it has, by its          *)
(* keywords, and by how its values suit the types the signature asks for.  *)
(* Each message is handled by a coroutine or thread of its own with no     *)
(* state shared between them, so one message at a time is all there is to  *)
(* see.                                                                    *)
(***************************************************************************)
EXTENDS Integers, Sequences, FiniteSets, SequencesExt

CONSTANTS Endpoints,   \* the functions that are declared: a set of records
          Messages,    \* the messages that may come
          Results      \* what a function may return

VARIABLES endpoint,    \* the function, as it was declared
          status,      \* "declared", then "registered" or "refused"
          message,     \* the message in work
          phase,       \* how far the message is
          resolved,    \* positions of the plain dependencies that have a value
          opened,      \* the contexts in the order they were entered
          closed,      \* the contexts in the order they were left
          result,      \* what became of the function
          outcome,     \* what the session is told: a result or an error
          faults       \* which code of the application has failed

vars == <<endpoint, status, message, phase, resolved, opened, closed, result,
          outcome, faults>>

\* A plain class, with and without a default; an annotation that is not a class
\* (list[str], int | None); no annotation; a pydantic model; the message and
\* the details of the one and of the other side.
Annotated == {"required", "optional", "generic", "untyped", "model",
              "invocation", "event", "call_details", "event_details"}

\* Depends(f), f being a function, a generator, a coroutine function, an
\* asynchronous generator, another callable, or one that has parameters.
Injected == {"function", "generator", "coroutine", "async_generator",
             "callable", "parameterised"}

Endpoint == [sig : Seq(Annotated \cup Injected),
             procedure : BOOLEAN,      \* or a topic
             async : BOOLEAN,          \* registered by async_.py or sync.py
             coroutine : BOOLEAN,      \* declared with `async def'
             restricted : BOOLEAN,     \* it has allowed_roles
             response : Seq(Nat),      \* <<>>, or <<required fields of the model>>
             clash : SUBSET Int]       \* the keyword that is called `model', if any

\* Keyword names: the position of a parameter, a field of the pydantic model,
\* or a name nobody knows.
Unknown == 0
ModelRequired == -1
ModelOptional == -2

\* pydantic validates laxly: a value of another type that it can convert passes,
\* '40' for an int.
Message == [args : Nat, kwargs : SUBSET Int,
            values : {"exact", "convertible", "unfit"},
            details : {"absent", "roleless", "allowed", "other"}]
NoMessage == [args |-> 0, kwargs |-> {}, values |-> "exact", details |-> "absent"]

\* Whether it fits the response model, and whether the serializer takes it.
Result == [kind : {"none", "result", "primitive", "tuple", "list", "object"},
           count : Nat, fits : BOOLEAN, sendable : BOOLEAN]
Failure(kind) == [kind |-> kind, count |-> 0, fits |-> TRUE, sendable |-> TRUE]
Pending == Failure("pending")
Raised == Failure("raised")
Refused == Failure("application_error")
Cancelled == Failure("cancelled")
Unbound == Failure("unbound")
Unyielded == Failure("unyielded")

\* A topic has no roles and no response model (EventMetadata).
ASSUME EndpointAssumption ==
  /\ Endpoints \subseteq Endpoint
  /\ \A e \in Endpoints : e.procedure \/ (~e.restricted /\ e.response = <<>>)
  /\ Messages \subseteq Message
  /\ Results \subseteq Result

-----------------------------------------------------------------------------
(***************************************************************************)
(* The signature, as _assemble_base_metadata takes it apart.               *)
(***************************************************************************)
Having(e, kinds) == {i \in DOMAIN e.sig : e.sig[i] \in kinds}

\* The dictionaries and lists have the order of the signature.
First(S) == {i \in S : \A j \in S : i <= j}
ByPosition(n, S) == {i \in S : Cardinality({j \in S : j < i}) < n}

\* The four dictionaries of dependencies take their parameters out of `hints'.
\* A callable object is in none of them and stays.
Collected == {"function", "generator", "coroutine", "async_generator"}
DetailsField(e) ==
  Having(e, {IF e.procedure THEN "call_details" ELSE "event_details"})
Hints(e) == DOMAIN e.sig \ (Having(e, Collected) \cup DetailsField(e))
Incoming(e) == Having(e, {IF e.procedure THEN "invocation" ELSE "event"})

\* The conditions under which registering raises.
Rejected(e) ==
  \/ e.coroutine # e.async
  \/ Having(e, {"untyped", "parameterised", "generic"}) # {}
  \/ Cardinality(DetailsField(e)) > 1
  \/ Cardinality(Incoming(e)) > 1
  \/ /\ Having(e, {"model", "invocation"}) # {}
     /\ Cardinality(Hints(e)) # 1

\* Which of the four branches of the handler serves the endpoint.  The test for
\* "message" asks for Invocation in topics, too.
Shape(e) == IF Having(e, {"invocation"}) # {} THEN "message"
            ELSE IF Having(e, {"model"}) # {} THEN "model"
            ELSE IF Hints(e) = {} THEN "none" ELSE "dynamic"

\* positional_field_name; a topic that takes an Invocation has none.
Positional(e) == Having(e, {"model"}) \cup Incoming(e)

\* request_args, and request_kwargs: an Event that a topic takes is a
\* required field of the dynamic model.
Declared(e) == Having(e, {"required", "event"})
RequestArgs(e) == CASE Shape(e) = "model" -> {ModelRequired}
                    [] Shape(e) = "dynamic" -> Declared(e)
                    [] OTHER -> {}
RequestKwargs(e) == CASE Shape(e) = "model" -> {ModelOptional}
                      [] Shape(e) = "dynamic" -> Having(e, {"optional"})
                      [] OTHER -> {}

\* resolve_dependencies of either runner looks at its own two dictionaries.
Plain(e) == Having(e, {IF e.async THEN "coroutine" ELSE "function"})
Contexts(e) == Having(e, {IF e.async THEN "async_generator" ELSE "generator"})

-----------------------------------------------------------------------------
(***************************************************************************)
(* The checks a message passes, in the order of the handlers.              *)
(***************************************************************************)
\* The first of a sequence of <<condition, error>> whose condition holds.
FirstError(checks) ==
  LET first(i) == checks[i][1] /\ \A j \in 1..(i - 1) : ~checks[j][1]
  IN  IF \E i \in DOMAIN checks : first(i)
      THEN checks[CHOOSE i \in DOMAIN checks : first(i)][2]
      ELSE "none"

\* _sanitize_incoming_data: a keyword replaces an argument of the same name.
Names(e, m) == ByPosition(m.args, RequestArgs(e)) \cup m.kwargs

\* Faulty: only the values that are there are looked at.
UnfitTypesOnly(e, m) == Shape(e) \in {"model", "dynamic"} /\ m.values = "unfit"

\* handle_model_validation: keywords that are no fields are ignored.
Unfit(e, m) ==
  /\ Shape(e) \in {"model", "dynamic"}
  /\ \/ ~(RequestArgs(e) \subseteq Names(e, m))
     \/ /\ m.values = "unfit"
        /\ Names(e, m) \cap (RequestArgs(e) \cup RequestKwargs(e)) # {}

NoDetails(e, m) == DetailsField(e) # {} /\ m.details = "absent"

\* validate_invocation_parameters, validate_event_parameters
Surplus(e, m) == \/ m.args > Cardinality(RequestArgs(e))
                 \/ Cardinality(m.kwargs) > Cardinality(RequestKwargs(e))

\* ensure_caller_allowed
RoleUnknown(e, m) == /\ e.procedure /\ e.restricted
                     /\ m.details \in {"absent", "roleless"}
\* Faulty: nobody looks at which role it is.
NotAllowedNever(e, m) == FALSE

NotAllowed(e, m) == e.procedure /\ e.restricted /\ m.details = "other"

\* handle_model_validation(model, **kwargs) raises TypeError for a keyword that is
\* called like its own parameter.  register_async passes it the details of a pydantic
\* model, too, where a keyword of the same name is one too many.
ModelClash(e, m) ==
  LET details == IF e.procedure /\ e.async /\ Shape(e) = "model"
                 THEN DetailsField(e) ELSE {}
  IN  /\ Shape(e) \in {"model", "dynamic"}
      /\ \/ details \cap m.kwargs # {}
         \/ e.clash \cap (Names(e, m) \cup details) # {}

Refusal(e, m) ==
  FirstError(<< <<RoleUnknown(e, m), "internal_error">>,
                <<NotAllowed(e, m), "not_authorized">>,
                <<~e.procedure /\ NoDetails(e, m), "internal_error">>,
                <<Surplus(e, m), "invalid_arguments">>,
                <<NoDetails(e, m), "internal_error">>,
                <<ModelClash(e, m), "runtime_error">>,
                <<Unfit(e, m), "invalid_argument">> >>)

\* What the function is called with: func(**kwargs, **deps, **details).  Where the
\* model was made from the signature it only checks: the function is given the values
\* as they came.
Given(e, m) == CASE Shape(e) = "dynamic" -> Names(e, m)
                 [] Shape(e) = "none" -> {}
                 [] OTHER -> IF Positional(e) = {} THEN {Unknown}
                             ELSE Positional(e)
Own(e) == Plain(e) \cup Contexts(e) \cup DetailsField(e)

\* That call raises TypeError: a name that is no parameter (None, for a topic
\* that takes an Invocation), one that is given twice, or a parameter without a
\* default that is given no value.
Misfit(e, m) ==
  \/ ~(Given(e, m) \subseteq DOMAIN e.sig)
  \/ Given(e, m) \cap Own(e) # {}
  \/ ~(Having(e, Annotated \ {"optional"}) \subseteq Given(e, m) \cup Own(e))

\* Faulty: a result that does not fit is reported like a bad argument.
ResultErrorBlamesCaller(e, r) ==
  IF e.response # <<>> /\ ~r.fits THEN "invalid_argument" ELSE "answered"

\* _handle_result, and what the session makes of an exception, one of the serializer
\* for the YIELD included; a topic's result is dropped.
ResultError(e, r) ==
  LET modelled == e.response # <<>>
      n == IF modelled THEN Head(e.response) ELSE 0
  IN  FirstError(<< <<modelled /\ r.kind = "none", "internal_error">>,
                    <<modelled /\ r.kind \in {"result", "tuple"} /\ r.count # n,
                      "internal_error">>,
                    <<modelled /\ r.kind = "primitive" /\ n # 1, "internal_error">>,
                    <<modelled /\ ~r.fits, "runtime_error">>,
                    <<r.kind # "none" /\ ~r.sendable, "runtime_error">>,
                    <<TRUE, "answered">> >>)

Outcome(e, r) == CASE r.kind \in {"raised", "unyielded"} -> "runtime_error"
                   [] r.kind \in {"application_error", "cancelled"} -> r.kind
                   [] r.kind = "unbound" ->
                        IF e.procedure THEN "runtime_error" ELSE "answered"
                   [] OTHER -> IF e.procedure THEN ResultError(e, r) ELSE "answered"

-----------------------------------------------------------------------------
Init == /\ endpoint \in Endpoints
        /\ status = "declared"
        /\ message = NoMessage
        /\ phase = "idle"
        /\ resolved = {} /\ opened = <<>> /\ closed = <<>>
        /\ result = Pending
        /\ outcome = "none"
        /\ faults = {}

\* register_async, subscribe_async, register_sync, subscribe_sync: the function
\* is inspected; when that raises, the runner's set-up fails.
Register ==
  /\ status = "declared"
  /\ status' = IF Rejected(endpoint) THEN "refused" ELSE "registered"
  /\ UNCHANGED <<endpoint, message, phase, resolved, opened, closed, result,
                 outcome, faults>>

Receive(m) ==
  /\ status = "registered" /\ phase = "idle"
  /\ message' = m
  /\ outcome' = Refusal(endpoint, m)
  /\ phase' = IF outcome' = "none" THEN "resolving" ELSE "done"
  /\ UNCHANGED <<endpoint, status, resolved, opened, closed, result, faults>>

\* The dependencies: plain ones first, then the contexts; the exit stack exists
\* from the first context on.
NextPlain == First(Plain(endpoint) \ resolved)
NextContext == First(Contexts(endpoint) \ ToSet(opened))
Ready == Plain(endpoint) \subseteq resolved /\ Contexts(endpoint) \subseteq ToSet(opened)

Resolve ==
  /\ phase = "resolving"
  /\ \E i \in NextPlain : resolved' = resolved \cup {i}
  /\ UNCHANGED <<endpoint, status, message, phase, opened, closed, result,
                 outcome, faults>>

Enter ==
  /\ phase = "resolving" /\ Plain(endpoint) \subseteq resolved
  /\ \E i \in NextContext : opened' = Append(opened, i)
  /\ UNCHANGED <<endpoint, status, message, phase, resolved, closed, result,
                 outcome, faults>>

\* The application's code fails: the contexts that are open are left.
Fails(kind, fault) ==
  /\ phase' = "closing"
  /\ result' = kind
  /\ faults' = faults \cup {fault}
  /\ UNCHANGED <<endpoint, status, message, resolved, opened, closed, outcome>>

\* Faulty: the contexts before the one that fails are not on a stack.
DependencyRaisesOpen ==
  /\ phase = "resolving" /\ ~Ready
  /\ phase' = "done" /\ outcome' = "runtime_error"
  /\ result' = Raised
  /\ faults' = faults \cup {"dependency"}
  /\ UNCHANGED <<endpoint, status, message, resolved, opened, closed>>

\* An ApplicationError of a dependency is sent as it is, like one of the function.
DependencyRaises ==
  \E kind \in {Raised, Refused} :
    phase = "resolving" /\ ~Ready /\ Fails(kind, "dependency")

FunctionRaises ==
  \E kind \in {Raised, Refused} : phase = "running" /\ Fails(kind, "function")

\* asyncio.run() cancels the tasks that are left when main has ended.
Cancel ==
  /\ endpoint.async
  /\ phase = "running" \/ (phase = "resolving" /\ ~Ready)
  /\ Fails(Cancelled, "cancelled")

Call ==
  /\ phase = "resolving" /\ Ready
  /\ IF Misfit(endpoint, message)
     THEN phase' = "closing" /\ result' = Raised
     ELSE phase' = "running" /\ UNCHANGED result
  /\ UNCHANGED <<endpoint, status, message, resolved, opened, closed, outcome,
                 faults>>

Return(r) ==
  /\ phase = "running"
  /\ phase' = "closing"
  /\ result' = r
  /\ UNCHANGED <<endpoint, status, message, resolved, opened, closed, outcome,
                 faults>>

\* The exit stack leaves the contexts, the last one first.  A generator may
\* raise at its end, and it may end without raising again what was raised in it:
\* then the handler goes on behind its `with', where `result' has no value, or,
\* when the contexts were still being entered, resolve_dependencies ends without
\* a yield.
LastOpen == opened[Len(opened) - Len(closed)]
Leave(kind, fault) ==
  /\ phase = "closing" /\ Len(closed) < Len(opened)
  /\ closed' = Append(closed, LastOpen)
  /\ result' = kind
  /\ faults' = faults \cup fault
  /\ UNCHANGED <<endpoint, status, message, phase, resolved, opened, outcome>>

Exit == Leave(result, {})
ExitRaises == \E kind \in {Raised, Refused} : Leave(kind, {"context"})
ExitSwallows ==
  /\ result \in {Raised, Refused, Cancelled}
  /\ Leave(IF Ready THEN Unbound ELSE Unyielded, {"swallowed"})

\* The handler returns to the session.
Settle ==
  /\ phase = "closing" /\ Len(closed) = Len(opened)
  /\ phase' = "done"
  /\ outcome' = Outcome(endpoint, result)
  /\ UNCHANGED <<endpoint, status, message, resolved, opened, closed, result,
                 faults>>

Next == \/ Register
        \/ \E m \in Messages : Receive(m)
        \/ Resolve \/ Enter \/ DependencyRaises
        \/ Call \/ (\E r \in Results : Return(r)) \/ FunctionRaises \/ Cancel
        \/ Exit \/ ExitRaises \/ ExitSwallows
        \/ Settle

Spec == Init /\ [][Next]_vars

-----------------------------------------------------------------------------
(***************************************************************************)
(* Properties.                                                             *)
(***************************************************************************)
\* When the function runs, its caller is allowed, every required field of its
\* signature has a value that pydantic lets pass (it need not have the declared type:
\* the function is given '40' for an int as a str), its details come from the router and not
\* from a keyword, and all dependencies of its own flavour are there and still
\* open: whatever was checked before the dependencies were
\* resolved, and in which order (async_.py 120-154, sync.py 123-155).
RunsAsDeclared ==
  phase = "running" =>
    /\ endpoint.restricted => message.details = "allowed"
    /\ \A i \in DOMAIN endpoint.sig :
         \/ endpoint.sig[i] # "required"
         \/ i \in Names(endpoint, message) /\ message.values # "unfit"
    /\ DetailsField(endpoint) # {} => message.details # "absent"
    /\ \A i \in Given(endpoint, message) :
         endpoint.sig[i] \notin {IF endpoint.procedure THEN "call_details"
                                ELSE "event_details"}
    /\ resolved \cup ToSet(opened) =
         Having(endpoint, IF endpoint.async
                          THEN {"coroutine", "async_generator"}
                          ELSE {"function", "generator"})
    /\ closed = <<>>

\* A message that the caller is told to correct, or that the caller may not send,
\* has touched nothing: no dependency was created for it and the function has
\* not run.
RefusedUntouched ==
  outcome \in {"not_authorized", "invalid_arguments", "invalid_argument"} =>
    /\ resolved = {} /\ opened = <<>>
    /\ result = Pending

\* When a message is settled, every context that was entered has been left, the
\* last one first, whatever failed in between: a dependency, the function, a
\* context, or the task that was cancelled (ExitStack, async_.py 107, sync.py 110).
ContextsClosed == phase = "done" => closed = Reverse(opened)

\* The caller hears "runtime error" only for what the application did, for a
\* result that the response model or the serializer does not take, for keywords the
\* signature does not have, for a field that is called `model' like the parameter of
\* handle_model_validation (helpers.py 523), and for a function whose parameters name
\* a class of the other side (Invocation in a topic, the details of the other kind),
\* which never runs.
RuntimeErrorExplained ==
  outcome = "runtime_error" =>
    \/ faults \cap {"dependency", "function", "context", "swallowed"} # {}
    \/ endpoint.response # <<>> /\ ~result.fits
    \/ ~result.sendable
    \/ endpoint.clash \cap (Names(endpoint, message) \cup DetailsField(endpoint)) # {}
    \/ ~(message.kwargs \subseteq RequestKwargs(endpoint))
    \/ Having(endpoint, IF endpoint.procedure THEN {"event_details"}
                        ELSE {"call_details", "invocation"}) # {}

\* A function that takes the whole message, an Invocation for a procedure or an
\* Event for a topic, is given every message its caller may send, whatever its
\* arguments: `def echo(invocation: Invocation) -> Result: return
\* Result(args=invocation.args, kwargs=invocation.kwargs)' (docs/index.md).
TakesMessage ==
  /\ phase = "done"
  /\ Len(endpoint.sig) = 1 /\ Incoming(endpoint) # {}
  /\ ~endpoint.restricted /\ faults = {}
  => outcome = "answered"
=============================================================================
