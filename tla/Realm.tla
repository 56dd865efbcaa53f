-------------------------------- MODULE Realm --------------------------------
(***************************************************************************)
(* The router: Realm and Router (xconn/realm.py, router.py) and one        *)
(* handler per connection (Server._websocket_handler, xconn/server.py).    *)
(*                                                                         *)
(* The handlers run on one event loop; a step is what a handler, or one of *)
(* the tasks it gathers, does between two suspensions.  A write happens in *)
(* the step that calls send_message, except the EVENTs of a publication:   *)
(* gather() makes a task of each, and these run later, one by one.         *)
(*                                                                         *)
(* The dealer and the broker are wampproto's: external.  There is one      *)
(* procedure and one topic, since different names do not interact.  A      *)
(* request is identified by its client and the client's message count; a   *)
(* registration by the REGISTER, an invocation by the CALL it stands for.  *)
(***************************************************************************)
EXTENDS Naturals, Sequences, FiniteSets, SequencesExt

CONSTANTS
    Clients,
    Scenarios, \* what may happen: one of these, chosen at the start
    NoId

MessageTypes == {"CALL", "YIELD", "REGISTER", "UNREGISTER", "SUBSCRIBE", "UNSUBSCRIBE",
                 "PUBLISH", "GOODBYE",
                 "MALFORMED"} \* the serializer, the dealer or the broker raises on it

\* Which clients send which messages, how many each, and how many of them may be
\* under way; how many connections may break; whether the realm may be removed.
ASSUME RealmAssumption ==
    /\ Scenarios \subseteq [clients : SUBSET Clients, uses : SUBSET MessageTypes,
                            sends : Nat, inFlight : Nat, losses : Nat,
                            removable : BOOLEAN]
    /\ NoId \notin Clients \X Nat

VARIABLES
    scenario,     \* the one of Scenarios
    realm,        \* "open" (Realm.stop changes nothing) or "removed"
    clients,      \* Realm.clients
    registration, \* dealer: [owner, id] of the procedure, or NoRegistration
    calls,        \* dealer: the calls that wait for their YIELD
    subscribers,  \* broker: the sessions subscribed to the topic
    handler,      \* where each connection's handler stands
    conn,         \* each connection: "open" or "closed"
    inbox,        \* messages from each client, not yet received
    outbox,       \* messages written to each client, oldest first
    events,       \* of each publisher: the EVENT tasks that have not run
    ack,          \* of each publisher: the publication to acknowledge, or NoId
    sent,         \* how many messages each client sent
    yielded       \* the invocations clients have answered

dealerVars == <<registration, calls>>
gatherVars == <<events, ack>>
clientVars == <<sent, yielded>>
vars == <<scenario, realm, clients, dealerVars, subscribers, handler, conn, inbox,
          outbox, gatherVars, clientVars>>

Ids == Clients \X (1..scenario.sends)
NoRegistration == [owner |-> NoId, id |-> NoId]
Message(type, id, ref) == [type |-> type, id |-> id, ref |-> ref]

Init ==
    /\ scenario \in Scenarios
    /\ realm = "open"
    /\ clients = {}
    /\ registration = NoRegistration
    /\ calls = {}
    /\ subscribers = {}
    /\ handler = [c \in Clients |-> "new"]
    /\ conn = [c \in Clients |-> "open"]
    /\ inbox = [c \in Clients |-> <<>>]
    /\ outbox = [c \in Clients |-> <<>>]
    /\ events = [c \in Clients |-> {}]
    /\ ack = [c \in Clients |-> NoId]
    /\ sent = [c \in Clients |-> 0]
    /\ yielded = {}

-----------------------------------------------------------------------------
(* The clients and the network: external.                                  *)

Got(c, type) == {m \in ToSet(outbox[c]) : m.type = type}

\* What a client refers to: a registration or an invocation it was sent.
References(c, type) ==
    CASE type = "YIELD"       -> {m.id : m \in Got(c, "INVOCATION")} \ yielded
      [] type = "UNREGISTER"  -> {m.id : m \in Got(c, "REGISTERED")}
      [] type = "UNSUBSCRIBE" -> {m.id : m \in Got(c, "SUBSCRIBED")}
      [] OTHER -> {NoId}

ClientSend(c, type) ==
    /\ conn[c] = "open"
    /\ handler[c] # "new"
    /\ sent[c] < scenario.sends
    /\ Len(inbox[c]) < scenario.inFlight
    /\ sent' = [sent EXCEPT ![c] = @ + 1]
    /\ \E ref \in References(c, type) :
          /\ inbox' = [inbox EXCEPT ![c] = Append(@, Message(type, <<c, sent[c] + 1>>, ref))]
          /\ yielded' = IF type = "YIELD" THEN yielded \cup {ref} ELSE yielded
    /\ UNCHANGED <<scenario, realm, clients, dealerVars, subscribers, handler, conn, outbox,
                   gatherVars>>

\* The client or the network drops the connection, without a GOODBYE (Join models
\* the loss of a connection that is not attached yet).
Disconnect(c) ==
    /\ conn[c] = "open"
    /\ handler[c] # "new"
    /\ Cardinality({d \in Clients : conn[d] = "closed"}) < scenario.losses
    /\ conn' = [conn EXCEPT ![c] = "closed"]
    /\ UNCHANGED <<scenario, realm, clients, dealerVars, subscribers, handler, inbox, outbox,
                   gatherVars, clientVars>>

-----------------------------------------------------------------------------
(* Server._websocket_handler                                               *)

\* add_session makes the session known to the dealer and the broker; what they
\* keep of it starts empty.
AttachClient(c) == clients' = clients \cup {c}

\* accept() and attach_client(); a failure of either closes the connection.
Attach(c) ==
    /\ handler[c] = "new"
    /\ conn[c] = "open"
    /\ IF realm = "open"
       THEN /\ AttachClient(c)
            /\ handler' = [handler EXCEPT ![c] = "loop"]
            /\ UNCHANGED conn
       ELSE /\ handler' = [handler EXCEPT ![c] = "done"]
            /\ conn' = [conn EXCEPT ![c] = "closed"]
            /\ UNCHANGED clients
    /\ UNCHANGED <<scenario, realm, dealerVars, subscribers, inbox, outbox, gatherVars, clientVars>>

\* The loop ends with the connection.  Nothing detaches the client.
HandlerEnds(c) ==
    /\ handler[c] = "loop"
    /\ conn[c] = "closed"
    /\ handler' = [handler EXCEPT ![c] = "done"]
    /\ UNCHANGED <<scenario, realm, clients, dealerVars, subscribers, conn, inbox, outbox,
                   gatherVars, clientVars>>

\* An exception leaves the loop of the handler uncaught, and ends its connection.
Crash(c) ==
    /\ handler' = [handler EXCEPT ![c] = "crashed"]
    /\ conn' = [conn EXCEPT ![c] = "closed"]

\* The handler of c writes m to r: self.clients[r] must be there, and sending on
\* a closed connection raises.
Write(c, r, m) ==
    IF r \in clients /\ conn[r] = "open"
    THEN /\ outbox' = [outbox EXCEPT ![r] = Append(@, m)]
         /\ handler' = [handler EXCEPT ![c] = "loop"]
         /\ UNCHANGED conn
    ELSE Crash(c) /\ UNCHANGED outbox

Receive(c, type) ==
    /\ handler[c] = "loop"
    /\ inbox[c] # <<>>
    /\ Head(inbox[c]).type = type
    /\ inbox' = [inbox EXCEPT ![c] = Tail(@)]
    /\ UNCHANGED <<scenario, realm, clientVars>>

\* Router.receive_message: the realm is gone.
NoRealm(c) ==
    /\ realm = "removed"
    /\ \E type \in scenario.uses : Receive(c, type)
    /\ Crash(c)
    /\ UNCHANGED <<clients, dealerVars, subscribers, outbox, gatherVars>>

\* deserialize() raises, or the dealer or the broker that is handed the message.
Malformed(c) ==
    /\ Receive(c, "MALFORMED")
    /\ Crash(c)
    /\ UNCHANGED <<clients, dealerVars, subscribers, outbox, gatherVars>>

-----------------------------------------------------------------------------
(* Realm.receive_message                                                   *)

Handle(c, type) == realm = "open" /\ Receive(c, type)

Request(c) == Head(inbox[c])

Answer(c, type) == Message(type, Request(c).id, Request(c).ref)

HandleCall(c) ==
    /\ Handle(c, "CALL")
    /\ IF registration = NoRegistration
       THEN /\ Write(c, c, Answer(c, "ERROR"))
            /\ UNCHANGED calls
       ELSE /\ calls' = calls \cup {Request(c).id}
            /\ Write(c, registration.owner,
                     Message("INVOCATION", Request(c).id, registration.id))
    /\ UNCHANGED <<clients, registration, subscribers, gatherVars>>

\* Faulty: the result goes back to the callee.
HandleYieldToCallee(c) ==
    /\ Handle(c, "YIELD")
    /\ calls' = calls \ {Request(c).ref}
    /\ Write(c, c, Message("RESULT", Request(c).ref, NoId))
    /\ UNCHANGED <<clients, registration, subscribers, gatherVars>>

\* YIELD, and the ERROR of an invocation: the dealer names the caller.
HandleYield(c) ==
    /\ Handle(c, "YIELD")
    /\ calls' = calls \ {Request(c).ref}
    /\ Write(c, Request(c).ref[1], Message("RESULT", Request(c).ref, NoId))
    /\ UNCHANGED <<clients, registration, subscribers, gatherVars>>

HandleRegister(c) ==
    /\ Handle(c, "REGISTER")
    /\ IF registration = NoRegistration
       THEN /\ registration' = [owner |-> c, id |-> Request(c).id]
            /\ Write(c, c, Answer(c, "REGISTERED"))
       ELSE /\ Write(c, c, Answer(c, "ERROR"))
            /\ UNCHANGED registration
    /\ UNCHANGED <<clients, calls, subscribers, gatherVars>>

\* Faulty: the registration stays.
HandleUnregisterKeeps(c) ==
    /\ Handle(c, "UNREGISTER")
    /\ Write(c, c, Answer(c, IF registration.id = Request(c).ref
                             THEN "UNREGISTERED" ELSE "ERROR"))
    /\ UNCHANGED <<clients, dealerVars, subscribers, gatherVars>>

HandleUnregister(c) ==
    /\ Handle(c, "UNREGISTER")
    /\ IF registration.id = Request(c).ref
       THEN /\ registration' = NoRegistration
            /\ Write(c, c, Answer(c, "UNREGISTERED"))
       ELSE /\ Write(c, c, Answer(c, "ERROR"))
            /\ UNCHANGED registration
    /\ UNCHANGED <<clients, calls, subscribers, gatherVars>>

HandleSubscribe(c) ==
    /\ Handle(c, "SUBSCRIBE")
    /\ subscribers' = subscribers \cup {c}
    /\ Write(c, c, Answer(c, "SUBSCRIBED"))
    /\ UNCHANGED <<clients, dealerVars, gatherVars>>

HandleUnsubscribe(c) ==
    /\ Handle(c, "UNSUBSCRIBE")
    /\ subscribers' = subscribers \ {c}
    /\ Write(c, c, Answer(c, IF c \in subscribers THEN "UNSUBSCRIBED" ELSE "ERROR"))
    /\ UNCHANGED <<clients, dealerVars, gatherVars>>

\* Faulty: clients that are not attached, or not subscribed, are recipients.
RecipientsEveryone(c) == Clients \ {c}

\* The recipients are fixed here; the publisher is not one of them.
Recipients(c) == subscribers \ {c}

\* Faulty: the handler does not wait for the tasks.
HandlePublishNotAwaited(c) ==
    /\ Handle(c, "PUBLISH")
    /\ events' = [events EXCEPT ![c] =
                     @ \cup {[to |-> r, id |-> Request(c).id] : r \in Recipients(c)}]
    /\ UNCHANGED <<clients, dealerVars, subscribers, handler, conn, outbox, ack>>

\* The message says whether an acknowledgement is asked for.
HandlePublish(c) ==
    /\ Handle(c, "PUBLISH")
    /\ IF Recipients(c) \subseteq clients
       THEN /\ handler' = [handler EXCEPT ![c] = "gather"]
            /\ events' = [events EXCEPT ![c] =
                             {[to |-> r, id |-> Request(c).id] : r \in Recipients(c)}]
            /\ \E a \in {NoId, Request(c).id} : ack' = [ack EXCEPT ![c] = a]
            /\ UNCHANGED conn
       ELSE Crash(c) /\ UNCHANGED gatherVars
    /\ UNCHANGED <<clients, dealerVars, subscribers, outbox>>

\* One of the gathered tasks writes its EVENT.  The first that fails ends the
\* handler; the others run on.
WriteEvent(c) ==
    \E e \in events[c] :
        /\ events' = [events EXCEPT ![c] = @ \ {e}]
        /\ IF conn[e.to] = "open"
           THEN /\ outbox' = [outbox EXCEPT ![e.to] = Append(@, Message("EVENT", e.id, NoId))]
                /\ UNCHANGED <<handler, conn>>
           ELSE Crash(c) /\ UNCHANGED outbox
        /\ UNCHANGED <<scenario, realm, clients, dealerVars, subscribers, inbox, ack, clientVars>>

\* Faulty: the tasks are started and not awaited.
GatheredNothing(c) == TRUE

Gathered(c) == events[c] = {}

\* gather() returns; then the acknowledgement, if one was asked for.
Acknowledge(c) ==
    /\ handler[c] = "gather"
    /\ Gathered(c)
    /\ IF ack[c] # NoId
       THEN Write(c, c, Message("PUBLISHED", ack[c], NoId))
       ELSE /\ handler' = [handler EXCEPT ![c] = "loop"]
            /\ UNCHANGED <<outbox, conn>>
    /\ ack' = [ack EXCEPT ![c] = NoId]
    /\ UNCHANGED <<scenario, realm, clients, dealerVars, subscribers, inbox, events, clientVars>>

\* Faulty: the dealer and the broker are not told.
ForgetNothing(c) == UNCHANGED <<registration, subscribers>>

\* remove_session of the dealer and of the broker
Forget(c) ==
    /\ registration' = IF registration.owner = c THEN NoRegistration ELSE registration
    /\ subscribers' = subscribers \ {c}

\* Forget the session, say GOODBYE and close, which ends the handler's loop.
HandleGoodbye(c) ==
    /\ Handle(c, "GOODBYE")
    /\ Forget(c)
    /\ clients' = clients \ {c}
    /\ IF conn[c] = "open"
       THEN /\ outbox' = [outbox EXCEPT ![c] = Append(@, Answer(c, "GOODBYE"))]
            /\ conn' = [conn EXCEPT ![c] = "closed"]
            /\ handler' = [handler EXCEPT ![c] = "done"]
       ELSE Crash(c) /\ UNCHANGED outbox
    /\ UNCHANGED <<calls, gatherVars>>

-----------------------------------------------------------------------------

\* Router.remove_realm
RemoveRealm ==
    /\ scenario.removable
    /\ realm = "open"
    /\ realm' = "removed"
    /\ UNCHANGED <<scenario, clients, dealerVars, subscribers, handler, conn, inbox, outbox,
                   gatherVars, clientVars>>

HandlerStep(c) ==
    \/ Attach(c) \/ HandlerEnds(c) \/ NoRealm(c) \/ Malformed(c)
    \/ HandleCall(c) \/ HandleYield(c) \/ HandleRegister(c) \/ HandleUnregister(c)
    \/ HandleSubscribe(c) \/ HandleUnsubscribe(c) \/ HandlePublish(c)
    \/ Acknowledge(c) \/ HandleGoodbye(c)

Next ==
    \/ \E c \in scenario.clients :
          \/ \E type \in scenario.uses : ClientSend(c, type)
          \/ Disconnect(c)
          \/ HandlerStep(c)
          \/ WriteEvent(c)
    \/ RemoveRealm

Spec == Init /\ [][Next]_vars

-----------------------------------------------------------------------------
(* Properties                                                              *)

Answers == {"RESULT", "ERROR", "REGISTERED", "UNREGISTERED", "SUBSCRIBED",
            "UNSUBSCRIBED", "PUBLISHED", "GOODBYE"}

\* Every variable keeps its type.
TypeOK ==
    /\ scenario \in Scenarios
    /\ realm \in {"open", "removed"}
    /\ clients \subseteq Clients
    /\ registration \in [owner : Clients, id : Ids] \cup {NoRegistration}
    /\ calls \subseteq Ids
    /\ subscribers \subseteq Clients
    /\ handler \in [Clients -> {"new", "loop", "gather", "done", "crashed"}]
    /\ conn \in [Clients -> {"open", "closed"}]
    /\ inbox \in [Clients -> Seq([type : MessageTypes, id : Ids, ref : Ids \cup {NoId}])]
    /\ outbox \in [Clients -> Seq([type : Answers \cup {"INVOCATION", "EVENT"}, id : Ids,
                                   ref : Ids \cup {NoId}])]
    /\ events \in [Clients -> SUBSET [to : Clients, id : Ids]]
    /\ ack \in [Clients -> Ids \cup {NoId}]
    /\ sent \in [Clients -> 0..scenario.sends]
    /\ yielded \subseteq Ids

Sent(c, type, id) == \E m \in ToSet(outbox[c]) : m.type = type /\ m.id = id

\* Whoever may have to be written to, the realm can look up: the sender of a request,
\* the subscribers, the callee (a GOODBYE removes a session from realm, dealer and
\* broker together, realm.py:43, 52, 57, 63), and the caller of a call that waits,
\* with one exception: a caller whose connection is closed.  When it left by GOODBYE,
\* the YIELD of its call looks it up in vain, which ends the callee's handler.
RecipientsKnown ==
    /\ \A c \in Clients : handler[c] \in {"loop", "gather"} => c \in clients
    /\ subscribers \subseteq clients
    /\ registration # NoRegistration => registration.owner \in clients
    /\ \A id \in calls : id[1] \in clients \/ conn[id[1]] = "closed"

\* A PUBLISHED is written only when the EVENT of that publication has been written
\* to every recipient (realm.py: gather, then the acknowledgement).
AckAfterEvents ==
    \A c \in Clients : \A id \in Ids :
        Sent(c, "PUBLISHED", id) =>
            \A p \in Clients : \A e \in events[p] : e.id # id

\* A subscriber gets each publication at most once, and those of one publisher in
\* the order in which they were published, though tasks write them.
EventsInOrder ==
    \A c \in Clients : \A i, j \in DOMAIN outbox[c] :
        /\ i < j
        /\ outbox[c][i].type = "EVENT" /\ outbox[c][j].type = "EVENT"
        /\ outbox[c][i].id[1] = outbox[c][j].id[1]
        => outbox[c][i].id[2] < outbox[c][j].id[2]

\* A callee gets no INVOCATION for a registration after its UNREGISTERED, nor
\* before its REGISTERED; so a session that processes its messages in order always
\* has the handler.
InvocationWhileRegistered ==
    \A c \in Clients : \A i \in DOMAIN outbox[c] :
        outbox[c][i].type = "INVOCATION" =>
            /\ \E j \in 1..(i - 1) :
                  outbox[c][j].type = "REGISTERED" /\ outbox[c][j].id = outbox[c][i].ref
            /\ ~\E j \in 1..(i - 1) :
                  outbox[c][j].type = "UNREGISTERED" /\ outbox[c][j].ref = outbox[c][i].ref

\* No request is answered twice, and nobody but its sender gets the answer.
OneAnswer ==
    \A c \in Clients : \A i \in DOMAIN outbox[c] :
        outbox[c][i].type \in Answers =>
            /\ outbox[c][i].id[1] = c
            /\ \A j \in DOMAIN outbox[c] :
                  outbox[c][j].type \in Answers /\ outbox[c][j].id = outbox[c][i].id => j = i

\* While every connection is up and the realm is there, a handler fails only on a
\* malformed message of its own client, never on what others sent.  What else crashes
\* one is a client that is gone (its own, one that was never detached, a caller that
\* left before its YIELD, a subscriber that left before its EVENT) or the loss of the
\* realm.
CrashNeedsLoss ==
    [][\A c \in Clients :
          handler[c] # "crashed" /\ handler'[c] = "crashed" =>
              \/ realm = "removed"
              \/ \E d \in Clients : conn[d] = "closed"
              \/ inbox[c] # <<>> /\ Request(c).type = "MALFORMED"]_vars
=============================================================================
