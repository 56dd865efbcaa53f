---------------------------- MODULE RealmProofs ----------------------------
(***************************************************************************)
(* For any number of clients and messages: what the router writes to whom, *)
(* and in which order, under every interleaving of the handlers and of the *)
(* tasks they gather.                                                      *)
(***************************************************************************)
EXTENDS Realm, SequenceTheorems, TLAPS

InMessages == [type : MessageTypes, id : Ids, ref : Ids \cup {NoId}]
OutMessages == [type : Answers \cup {"INVOCATION", "EVENT"}, id : Ids, ref : Ids \cup {NoId}]

\* The handler of its client has received the request id.
Handled(id) == id[2] + Len(inbox[id[1]]) <= sent[id[1]]

\* The requests that wait are the last that their client sent, in order.
InboxIds ==
    \A c \in Clients :
        /\ Len(inbox[c]) <= sent[c]
        /\ \A i \in DOMAIN inbox[c] :
              inbox[c][i].id[1] = c /\ inbox[c][i].id[2] + Len(inbox[c]) = sent[c] + i

\* Whatever names a request names one that was received; the acknowledgement and
\* the EVENTs of a handler are of its client's.
HandledIds ==
    /\ \A c \in Clients : \A i \in DOMAIN outbox[c] : Handled(outbox[c][i].id)
    /\ \A p \in Clients : \A e \in events[p] : e.id[1] = p /\ Handled(e.id)
    /\ \A c \in Clients : ack[c] # NoId => ack[c][1] = c /\ Handled(ack[c])

\* A message that waits refers to something its client was sent, a YIELD to an
\* invocation that no other YIELD refers to.
RefsKnown ==
    \A c \in Clients : \A i \in DOMAIN inbox[c] :
        /\ inbox[c][i].type = "UNREGISTER" => inbox[c][i].ref # NoId
        /\ inbox[c][i].type = "YIELD" =>
              /\ inbox[c][i].ref \in yielded
              /\ Sent(c, "INVOCATION", inbox[c][i].ref)
              /\ \A d \in Clients : \A j \in DOMAIN inbox[d] :
                    inbox[d][j].type = "YIELD" /\ inbox[d][j].ref = inbox[c][i].ref =>
                        d = c /\ j = i

IdInv == InboxIds /\ HandledIds /\ RefsKnown

\* Only an attached client sends, and it is one of the realm's until its
\* connection is closed.
Attached ==
    \A c \in Clients :
        /\ sent[c] > 0 => handler[c] # "new"
        /\ handler[c] \in {"loop", "gather"} => c \in clients
        /\ handler[c] \in {"done", "crashed"} => conn[c] = "closed"

\* Those whom the dealer and the broker name are among the realm's clients, except the
\* caller of a call that waits, who may be gone.
NoneUnknown ==
    /\ subscribers \subseteq clients
    /\ registration # NoRegistration => registration.owner \in clients
Waiting == \A id \in calls : id[1] \in clients \/ conn[id[1]] = "closed"

\* A request that is still to be answered has not been: an invocation without its
\* YIELD, one whose YIELD waits, and a publication that waits for its EVENTs.
Answered(id) == \E c \in Clients : \E type \in Answers : Sent(c, type, id)
Unanswered ==
    \A id \in Ids : \A c \in Clients :
        /\ Sent(c, "INVOCATION", id) /\ id \notin yielded => ~Answered(id)
        /\ \A i \in DOMAIN inbox[c] :
              inbox[c][i].type = "YIELD" /\ inbox[c][i].ref = id => ~Answered(id)
        /\ ack[c] = id => ~Answered(id) /\ \A d \in Clients : ~Sent(d, "INVOCATION", id)

\* The owner of the registration has been told so, and not told the contrary.
Registered ==
    /\ registration # NoRegistration =>
          registration.id[1] = registration.owner /\ Handled(registration.id)
    /\ registration # NoRegistration /\ conn[registration.owner] = "open" =>
          Sent(registration.owner, "REGISTERED", registration.id)
    /\ \A c \in Clients : \A i \in DOMAIN outbox[c] :
          outbox[c][i].type = "UNREGISTERED" =>
              /\ outbox[c][i].ref # NoId
              /\ Handled(outbox[c][i].ref)
              /\ outbox[c][i].ref # registration.id

\* The EVENTs to write are of one publication, later than all that were written.
EventsLast ==
    \A p \in Clients : \A e \in events[p] :
        /\ \A f \in events[p] : f.id = e.id
        /\ \A i \in DOMAIN outbox[e.to] :
              outbox[e.to][i].type = "EVENT" /\ outbox[e.to][i].id[1] = p =>
                  outbox[e.to][i].id[2] < e.id[2]

IInv ==
    /\ TypeOK /\ IdInv /\ Attached /\ Unanswered /\ Registered /\ EventsLast
    /\ NoneUnknown /\ Waiting /\ AckAfterEvents /\ EventsInOrder
    /\ InvocationWhileRegistered /\ OneAnswer

-----------------------------------------------------------------------------
(* What the steps do                                                       *)

Put(r, m) == outbox' = [outbox EXCEPT ![r] = Append(@, m)]

Take(c) == inbox[c] # <<>> /\ inbox' = [inbox EXCEPT ![c] = Tail(@)]

\* A handler receives a request and writes at most one message.
TakeStep(c) ==
    /\ Take(c)
    /\ UNCHANGED <<scenario, sent, yielded, events, ack>>
    /\ \/ UNCHANGED outbox
       \/ \E r \in Clients : \E m \in OutMessages :
             /\ Put(r, m)
             /\ \/ r = c /\ m.type \in Answers /\ m.id = Request(c).id
                \/ m.type = "INVOCATION" /\ m.id = Request(c).id
                \/ /\ Request(c).type = "YIELD"
                   /\ m.type = "RESULT" /\ m.id = Request(c).ref /\ r = m.id[1]

\* The handler of a publisher starts the tasks.
PublishStep(c) ==
    /\ Take(c)
    /\ UNCHANGED <<scenario, sent, yielded, outbox>>
    /\ \E R \in SUBSET Clients :
          events' = [events EXCEPT ![c] = {[to |-> r, id |-> Request(c).id] : r \in R}]
    /\ \E a \in {NoId, Request(c).id} : ack' = [ack EXCEPT ![c] = a]

\* A task runs.
EventStep(p) ==
    /\ UNCHANGED <<scenario, inbox, sent, yielded, ack>>
    /\ \E e \in events[p] :
          /\ events' = [events EXCEPT ![p] = @ \ {e}]
          /\ UNCHANGED outbox \/ Put(e.to, Message("EVENT", e.id, NoId))

\* The tasks have run.
AckStep(c) ==
    /\ UNCHANGED <<scenario, inbox, sent, yielded, events>>
    /\ ack' = [ack EXCEPT ![c] = NoId]
    /\ \/ UNCHANGED outbox
       \/ ack[c] # NoId /\ events[c] = {} /\ Put(c, Message("PUBLISHED", ack[c], NoId))

SendStep(c) == \E type \in MessageTypes : ClientSend(c, type)

\* Nothing is sent, received, written or to be written.
QuietStep == UNCHANGED <<scenario, inbox, sent, yielded, outbox, events, ack>>

LEMMA NoIdNotId == NoId \notin Ids
BY RealmAssumption DEF Ids

\* The sets of ids and messages are of the scenario, which stays.
LEMMA SameIds ==
    ASSUME UNCHANGED scenario
    PROVE  Ids' = Ids /\ InMessages' = InMessages /\ OutMessages' = OutMessages
BY DEF Ids, InMessages, OutMessages

\* The scenario's clients and messages are the model's.
LEMMA ScenarioType ==
    ASSUME scenario \in Scenarios
    PROVE  /\ scenario.clients \subseteq Clients /\ scenario.uses \subseteq MessageTypes
           /\ scenario.sends \in Nat
BY RealmAssumption

LEMMA RequestType ==
    ASSUME TypeOK, NEW c \in Clients, Take(c)
    PROVE  Request(c) \in InMessages /\ inbox' \in [Clients -> Seq(InMessages)]
<1>1. inbox[c] \in Seq(InMessages) /\ inbox[c] # <<>>
  BY DEF TypeOK, InMessages, Take
<1>2. Head(inbox[c]) \in InMessages /\ Tail(inbox[c]) \in Seq(InMessages)
  BY <1>1, HeadTailProperties
<1> QED
  BY <1>2 DEF Request, Take, TypeOK, InMessages

\* A message put into an outbox is the last there, and all that is new.
LEMMA PutEffect ==
    ASSUME NEW S, outbox \in [Clients -> Seq(S)], NEW r \in Clients, NEW m \in S, Put(r, m)
    PROVE  /\ outbox' \in [Clients -> Seq(S)]
           /\ \A c \in Clients : \A i \in DOMAIN outbox'[c] :
                 \/ i \in DOMAIN outbox[c] /\ outbox'[c][i] = outbox[c][i]
                 \/ c = r /\ i = Len(outbox[c]) + 1 /\ outbox'[c][i] = m
           /\ \A c \in Clients : \A i \in DOMAIN outbox[c] :
                 i \in DOMAIN outbox'[c] /\ outbox'[c][i] = outbox[c][i]
           /\ Len(outbox[r]) + 1 \in DOMAIN outbox'[r] /\ outbox'[r][Len(outbox[r]) + 1] = m
<1>1. outbox[r] \in Seq(S)
  OBVIOUS
<1>2. /\ Append(outbox[r], m) \in Seq(S)
      /\ DOMAIN Append(outbox[r], m) = 1..(Len(outbox[r]) + 1)
      /\ \A i \in 1..Len(outbox[r]) : Append(outbox[r], m)[i] = outbox[r][i]
      /\ Append(outbox[r], m)[Len(outbox[r]) + 1] = m
  BY <1>1, AppendProperties
<1>3. DOMAIN outbox[r] = 1..Len(outbox[r]) /\ Len(outbox[r]) \in Nat
  BY <1>1
<1>4. \A c \in Clients : outbox'[c] = IF c = r THEN Append(outbox[r], m) ELSE outbox[c]
  BY DEF Put
<1>5. outbox' \in [Clients -> Seq(S)]
  BY <1>2 DEF Put
<1>6. ASSUME NEW c \in Clients, NEW i \in DOMAIN outbox'[c]
      PROVE  \/ i \in DOMAIN outbox[c] /\ outbox'[c][i] = outbox[c][i]
             \/ c = r /\ i = Len(outbox[c]) + 1 /\ outbox'[c][i] = m
  <2>1. CASE c = r
    <3>1. i \in 1..(Len(outbox[r]) + 1)
      BY <1>2, <1>4, <2>1
    <3>2. i \in 1..Len(outbox[r]) \/ i = Len(outbox[r]) + 1
      BY <1>3, <3>1
    <3> QED
      BY <1>2, <1>3, <1>4, <2>1, <3>2
  <2> QED
    BY <1>4, <2>1
<1>7. ASSUME NEW c \in Clients, NEW i \in DOMAIN outbox[c]
      PROVE  i \in DOMAIN outbox'[c] /\ outbox'[c][i] = outbox[c][i]
  <2>1. CASE c = r
    <3>1. i \in 1..Len(outbox[r]) /\ i \in 1..(Len(outbox[r]) + 1)
      BY <1>3, <2>1
    <3> QED
      BY <1>2, <1>4, <2>1, <3>1
  <2> QED
    BY <1>4, <2>1
<1>8. Len(outbox[r]) + 1 \in DOMAIN outbox'[r] /\ outbox'[r][Len(outbox[r]) + 1] = m
  <2>1. outbox'[r] = Append(outbox[r], m)
    BY <1>4
  <2>2. Len(outbox[r]) + 1 \in 1..(Len(outbox[r]) + 1)
    BY <1>3
  <2> QED
    BY <1>2, <2>1, <2>2
<1> QED
  BY <1>5, <1>6, <1>7, <1>8

\* A message taken from an inbox was its first.
LEMMA TakeEffect ==
    ASSUME NEW S, inbox \in [Clients -> Seq(S)], NEW c \in Clients, Take(c)
    PROVE  /\ Len(inbox[c]) \in Nat \ {0} /\ Request(c) = inbox[c][1]
           /\ Len(inbox'[c]) = Len(inbox[c]) - 1
           /\ \A i \in DOMAIN inbox'[c] :
                 i \in Nat /\ i + 1 \in DOMAIN inbox[c] /\ inbox'[c][i] = inbox[c][i + 1]
           /\ \A d \in Clients : d # c => inbox'[d] = inbox[d]
<1>1. inbox[c] \in Seq(S) /\ inbox[c] # <<>>
  BY DEF Take
<1>2. /\ Len(inbox[c]) \in Nat \ {0}
      /\ Tail(inbox[c]) \in Seq(S)
      /\ Len(Tail(inbox[c])) = Len(inbox[c]) - 1
      /\ \A i \in 1..Len(Tail(inbox[c])) : Tail(inbox[c])[i] = inbox[c][i + 1]
      /\ Head(inbox[c]) = inbox[c][1]
  BY <1>1, HeadTailProperties
<1>3. inbox'[c] = Tail(inbox[c])
  BY DEF Take
<1>4. DOMAIN inbox'[c] = 1..(Len(inbox[c]) - 1) /\ DOMAIN inbox[c] = 1..Len(inbox[c])
  BY <1>1, <1>2, <1>3
<1> QED
  BY <1>2, <1>3, <1>4 DEF Take, Request

\* What Write does, to a recipient that need not be known.
LEMMA WriteEffect ==
    ASSUME TypeOK, NEW c \in Clients, NEW r, NEW m \in OutMessages, Write(c, r, m)
    PROVE  /\ outbox' \in [Clients -> Seq(OutMessages)]
           /\ UNCHANGED outbox \/ (r \in Clients /\ Put(r, m))
           /\ \/ conn' = conn /\ handler' = [handler EXCEPT ![c] = "loop"]
              \/ conn' = [conn EXCEPT ![c] = "closed"] /\ handler' = [handler EXCEPT ![c] = "crashed"]
<1>1. outbox \in [Clients -> Seq(OutMessages)]
  BY DEF TypeOK, OutMessages
<1>2. CASE r \in clients /\ conn[r] = "open"
  <2>1. r \in Clients /\ Put(r, m)
    BY <1>2 DEF TypeOK, Write, Put
  <2> QED
    BY <1>1, <1>2, <2>1, PutEffect DEF Write
<1>3. CASE ~(r \in clients /\ conn[r] = "open")
  BY <1>1, <1>3 DEF Write, Crash
<1> QED
  BY <1>2, <1>3

\* The answer to a request is a message.
LEMMA AnswerType ==
    ASSUME TypeOK, NEW c \in Clients, Take(c), NEW type \in Answers
    PROVE  Answer(c, type) \in OutMessages /\ Answer(c, type).id = Request(c).id
                                          /\ Answer(c, type).type = type
<1>1. Request(c) \in InMessages
  BY RequestType
<1> QED
  BY <1>1 DEF Answer, Message, InMessages, OutMessages

\* A YIELD that waits refers to an invocation.
LEMMA YieldRef ==
    ASSUME TypeOK, RefsKnown, NEW c \in Clients, Take(c), Request(c).type = "YIELD"
    PROVE  Request(c).ref \in Ids /\ Message("RESULT", Request(c).ref, NoId) \in OutMessages
<1>1. Request(c) = inbox[c][1] /\ 1 \in DOMAIN inbox[c]
  BY TakeEffect DEF TypeOK
<1>2. Sent(c, "INVOCATION", Request(c).ref)
  BY <1>1 DEF RefsKnown
<1>3. PICK i \in DOMAIN outbox[c] : outbox[c][i].id = Request(c).ref
  BY <1>2 DEF Sent, ToSet
<1>4. outbox[c] \in Seq(OutMessages)
  BY DEF TypeOK, OutMessages
<1>5. Request(c).ref \in Ids
  <2>1. outbox[c][i] \in OutMessages
    BY <1>4
  <2> QED
    BY <1>3, <2>1 DEF OutMessages
<1> QED
  BY <1>5 DEF Message, OutMessages, Answers

\* Every step is of one of these kinds.
LEMMA StepKinds ==
    ASSUME TypeOK, RefsKnown, [Next]_vars
    PROVE  \/ \E c \in Clients : TakeStep(c) \/ PublishStep(c) \/ EventStep(c) \/ AckStep(c)
                                 \/ SendStep(c)
           \/ QuietStep
<1> USE ScenarioType DEF gatherVars, clientVars, dealerVars, Receive, Handle, Take
<1> DEFINE Kinds == \/ \E c \in Clients : \/ TakeStep(c) \/ PublishStep(c) \/ EventStep(c)
                                         \/ AckStep(c) \/ SendStep(c)
                    \/ QuietStep
<1> SUFFICES Kinds
  OBVIOUS
<1>a. scenario \in Scenarios
  BY DEF TypeOK
<1>1. ASSUME NEW c \in Clients, NEW type \in scenario.uses, ClientSend(c, type)
      PROVE  Kinds
  BY <1>a, <1>1 DEF SendStep
<1>2. ASSUME NEW c \in Clients, Disconnect(c) \/ Attach(c) \/ HandlerEnds(c)
      PROVE  Kinds
  BY <1>2 DEF Disconnect, Attach, HandlerEnds, QuietStep
<1>3. ASSUME NEW c \in Clients, NoRealm(c) \/ Malformed(c)
      PROVE  Kinds
  BY <1>3 DEF NoRealm, Malformed, TakeStep
<1>4. ASSUME NEW c \in Clients, HandleCall(c)
      PROVE  Kinds
  <2>1. Take(c)
    BY <1>4 DEF HandleCall
  <2>2. CASE registration = NoRegistration
    <3>1. Write(c, c, Answer(c, "ERROR")) /\ Answer(c, "ERROR") \in OutMessages
      BY <1>4, <2>1, <2>2, AnswerType DEF HandleCall, Answers
    <3>2. UNCHANGED outbox \/ Put(c, Answer(c, "ERROR"))
      BY <3>1, WriteEffect
    <3> QED
      BY <1>4, <2>1, <3>1, <3>2, AnswerType DEF HandleCall, TakeStep, Answers
  <2>3. CASE registration # NoRegistration
    <3> DEFINE m == Message("INVOCATION", Request(c).id, registration.id)
    <3>1. m \in OutMessages /\ m.type = "INVOCATION" /\ m.id = Request(c).id
      BY <2>1, <2>3, RequestType DEF TypeOK, Message, OutMessages, InMessages
    <3>2. UNCHANGED outbox \/ (registration.owner \in Clients /\ Put(registration.owner, m))
      BY <1>4, <2>3, <3>1, WriteEffect DEF HandleCall
    <3> HIDE DEF m
    <3> QED
      BY <1>4, <2>1, <3>1, <3>2 DEF HandleCall, TakeStep
  <2> QED
    BY <2>2, <2>3
<1>5. ASSUME NEW c \in Clients, HandleYield(c)
      PROVE  Kinds
  <2> DEFINE m == Message("RESULT", Request(c).ref, NoId)
  <2>1. Take(c) /\ Request(c).type = "YIELD"
    BY <1>5 DEF HandleYield, Request
  <2>2. m \in OutMessages /\ m.type = "RESULT" /\ m.id = Request(c).ref
    BY <2>1, YieldRef DEF Message
  <2>3. UNCHANGED outbox \/ (m.id[1] \in Clients /\ Put(m.id[1], m))
    BY <1>5, <2>2, WriteEffect DEF HandleYield
  <2> HIDE DEF m
  <2> QED
    BY <1>5, <2>1, <2>2, <2>3 DEF HandleYield, TakeStep
<1>6. ASSUME NEW c \in Clients,
             \/ HandleRegister(c) \/ HandleUnregister(c) \/ HandleSubscribe(c)
             \/ HandleUnsubscribe(c)
      PROVE  Kinds
  <2>1. Take(c) /\ UNCHANGED <<scenario, sent, yielded, events, ack>>
    BY <1>6 DEF HandleRegister, HandleUnregister, HandleSubscribe, HandleUnsubscribe
  <2>2. PICK type \in Answers : Write(c, c, Answer(c, type))
    BY <1>6 DEF HandleRegister, HandleUnregister, HandleSubscribe, HandleUnsubscribe, Answers
  <2>3. UNCHANGED outbox \/ Put(c, Answer(c, type))
    BY <2>1, <2>2, AnswerType, WriteEffect
  <2> DEFINE m == Answer(c, type)
  <2>4. m \in OutMessages /\ m.type \in Answers /\ m.id = Request(c).id
    BY <2>1, AnswerType
  <2>5. UNCHANGED outbox \/ Put(c, m)
    BY <2>3
  <2> HIDE DEF m
  <2> QED
    BY <2>1, <2>4, <2>5 DEF TakeStep
<1>7. ASSUME NEW c \in Clients, HandleGoodbye(c)
      PROVE  Kinds
  <2>1. Take(c) /\ UNCHANGED <<scenario, sent, yielded, events, ack>>
    BY <1>7 DEF HandleGoodbye
  <2>2. UNCHANGED outbox \/ Put(c, Answer(c, "GOODBYE"))
    BY <1>7 DEF HandleGoodbye, Put
  <2> QED
    BY <2>1, <2>2, AnswerType DEF TakeStep, Answers
<1>8. ASSUME NEW c \in Clients, HandlePublish(c)
      PROVE  Kinds
  <2>1. CASE Recipients(c) \subseteq clients
    <3>1. Recipients(c) \in SUBSET Clients
      BY DEF TypeOK, Recipients
    <3> QED
      BY <1>8, <2>1, <3>1 DEF HandlePublish, PublishStep
  <2>2. CASE ~(Recipients(c) \subseteq clients)
    BY <1>8, <2>2 DEF HandlePublish, TakeStep
  <2> QED
    BY <2>1, <2>2
<1>9. ASSUME NEW c \in Clients, WriteEvent(c)
      PROVE  Kinds
  BY <1>9 DEF WriteEvent, EventStep, Put
<1>10. ASSUME NEW c \in Clients, Acknowledge(c)
       PROVE  Kinds
  <2>1. CASE ack[c] # NoId
    <3>1. Message("PUBLISHED", ack[c], NoId) \in OutMessages
      BY <2>1 DEF TypeOK, Message, OutMessages, Answers
    <3>2. UNCHANGED outbox \/ Put(c, Message("PUBLISHED", ack[c], NoId))
      BY <1>10, <2>1, <3>1, WriteEffect DEF Acknowledge
    <3> QED
      BY <1>10, <2>1, <3>2 DEF Acknowledge, AckStep, Gathered
  <2>2. CASE ack[c] = NoId
    BY <1>10, <2>2 DEF Acknowledge, AckStep
  <2> QED
    BY <2>1, <2>2
<1>11. CASE RemoveRealm
  BY <1>11 DEF RemoveRealm, QuietStep
<1>12. CASE UNCHANGED vars
  BY <1>12 DEF vars, QuietStep
<1> HIDE DEF Kinds
<1>13. ASSUME NEW c \in Clients, HandlerStep(c)
       PROVE  Kinds
  BY <1>2, <1>3, <1>4, <1>5, <1>6, <1>7, <1>8, <1>10, <1>13 DEF HandlerStep
<1>14. scenario.clients \subseteq Clients
  BY <1>a
<1>15. ASSUME NEW c \in scenario.clients,
              \/ \E type \in scenario.uses : ClientSend(c, type)
              \/ Disconnect(c) \/ HandlerStep(c) \/ WriteEvent(c)
       PROVE  Kinds
  BY <1>1, <1>2, <1>9, <1>13, <1>14, <1>15
<1>16. CASE Next
  BY <1>11, <1>15, <1>16 DEF Next
<1> QED
  BY <1>12, <1>16

-----------------------------------------------------------------------------
(* Types                                                                   *)

\* A client refers to what it was sent.
LEMMA ReferencesType ==
    ASSUME TypeOK, NEW c \in Clients, NEW type \in MessageTypes, NEW ref \in References(c, type)
    PROVE  /\ ref \in Ids \cup {NoId}
           /\ type \in {"YIELD", "UNREGISTER"} => ref \in Ids
           /\ type = "YIELD" => Sent(c, "INVOCATION", ref) /\ ref \notin yielded
<1>1. ASSUME NEW t, NEW m \in Got(c, t)
      PROVE  m.id \in Ids /\ Sent(c, t, m.id)
  <2>1. PICK i \in DOMAIN outbox[c] : m = outbox[c][i]
    BY DEF Got, ToSet
  <2>2. outbox[c] \in Seq(OutMessages)
    BY DEF TypeOK, OutMessages
  <2>3. outbox[c][i] \in OutMessages
    BY <2>2
  <2>4. m.id \in Ids
    BY <2>1, <2>3 DEF OutMessages
  <2>5. Sent(c, t, m.id)
    BY DEF Got, Sent
  <2> QED
    BY <2>4, <2>5
<1>2. CASE type = "YIELD"
  <2>1. References(c, type) = {m.id : m \in Got(c, "INVOCATION")} \ yielded
    BY <1>2 DEF References
  <2>2. PICK m \in Got(c, "INVOCATION") : ref = m.id
    BY <2>1
  <2>3. ref \in Ids /\ Sent(c, "INVOCATION", ref)
    BY <1>1, <2>2
  <2> QED
    BY <1>2, <2>1, <2>3
<1>3. CASE type = "UNREGISTER"
  <2>1. References(c, type) = {m.id : m \in Got(c, "REGISTERED")}
    BY <1>3 DEF References
  <2>2. PICK m \in Got(c, "REGISTERED") : ref = m.id
    BY <2>1
  <2>3. ref \in Ids /\ Sent(c, "REGISTERED", ref)
    BY <1>1, <2>2
  <2> QED
    BY <1>3, <2>1, <2>3
<1>4. CASE type = "UNSUBSCRIBE"
  <2>1. References(c, type) = {m.id : m \in Got(c, "SUBSCRIBED")}
    BY <1>4 DEF References
  <2>2. PICK m \in Got(c, "SUBSCRIBED") : ref = m.id
    BY <2>1
  <2>3. ref \in Ids /\ Sent(c, "SUBSCRIBED", ref)
    BY <1>1, <2>2
  <2> QED
    BY <1>4, <2>1, <2>3
<1>5. CASE type \notin {"YIELD", "UNREGISTER", "UNSUBSCRIBE"}
  <2>1. References(c, type) = {NoId}
    BY <1>5 DEF References
  <2> QED
    BY <1>5, <2>1
<1> QED
  BY <1>2, <1>3, <1>4, <1>5

\* What ClientSend does.
LEMMA SendEffect ==
    ASSUME TypeOK, NEW c \in Clients, NEW type \in MessageTypes, ClientSend(c, type)
    PROVE  /\ sent' = [sent EXCEPT ![c] = @ + 1] /\ <<c, sent[c] + 1>> \in Ids
           /\ \E ref \in References(c, type) :
                 /\ Message(type, <<c, sent[c] + 1>>, ref) \in InMessages
                 /\ inbox' = [inbox EXCEPT ![c] =
                                 Append(@, Message(type, <<c, sent[c] + 1>>, ref))]
                 /\ yielded' = IF type = "YIELD" THEN yielded \cup {ref} ELSE yielded
           /\ UNCHANGED <<scenario, outbox, events, ack>>
<1>1. scenario.sends \in Nat /\ sent[c] \in 0..scenario.sends /\ sent[c] < scenario.sends
  BY ScenarioType DEF TypeOK, ClientSend
<1>2. <<c, sent[c] + 1>> \in Ids
  BY <1>1 DEF Ids
<1>3. \A ref \in References(c, type) : Message(type, <<c, sent[c] + 1>>, ref) \in InMessages
  BY <1>2, ReferencesType DEF Message, InMessages
<1> QED
  BY <1>2, <1>3 DEF ClientSend, gatherVars

\* The queues, and what is to be written, keep their types.
LEMMA QueueType ==
    ASSUME TypeOK, RefsKnown, [Next]_vars
    PROVE  /\ scenario' = scenario
           /\ inbox' \in [Clients -> Seq(InMessages)]
           /\ outbox' \in [Clients -> Seq(OutMessages)]
           /\ events' \in [Clients -> SUBSET [to : Clients, id : Ids]]
           /\ ack' \in [Clients -> Ids \cup {NoId}]
           /\ sent' \in [Clients -> 0..scenario.sends]
           /\ yielded' \subseteq Ids
<1> DEFINE T == /\ scenario' = scenario
                /\ inbox' \in [Clients -> Seq(InMessages)]
                /\ outbox' \in [Clients -> Seq(OutMessages)]
                /\ events' \in [Clients -> SUBSET [to : Clients, id : Ids]]
                /\ ack' \in [Clients -> Ids \cup {NoId}]
                /\ sent' \in [Clients -> 0..scenario.sends]
                /\ yielded' \subseteq Ids
<1> SUFFICES T
  OBVIOUS
<1>a. /\ inbox \in [Clients -> Seq(InMessages)]
      /\ outbox \in [Clients -> Seq(OutMessages)]
      /\ events \in [Clients -> SUBSET [to : Clients, id : Ids]]
      /\ ack \in [Clients -> Ids \cup {NoId}]
      /\ sent \in [Clients -> 0..scenario.sends]
      /\ yielded \subseteq Ids
  BY DEF TypeOK, InMessages, OutMessages
<1>1. ASSUME NEW c \in Clients, TakeStep(c)
      PROVE  T
  <2>1. inbox' \in [Clients -> Seq(InMessages)]
    BY <1>1, RequestType DEF TakeStep
  <2>2. outbox' \in [Clients -> Seq(OutMessages)]
    BY <1>1, <1>a, PutEffect DEF TakeStep
  <2> QED
    BY <1>1, <1>a, <2>1, <2>2 DEF TakeStep
<1>2. ASSUME NEW c \in Clients, PublishStep(c)
      PROVE  T
  <2>1. inbox' \in [Clients -> Seq(InMessages)] /\ Request(c) \in InMessages
    BY <1>2, RequestType DEF PublishStep
  <2>2. Request(c).id \in Ids
    BY <2>1 DEF InMessages
  <2>3. PICK R \in SUBSET Clients :
            events' = [events EXCEPT ![c] = {[to |-> r, id |-> Request(c).id] : r \in R}]
    BY <1>2 DEF PublishStep
  <2>4. {[to |-> r, id |-> Request(c).id] : r \in R} \in SUBSET [to : Clients, id : Ids]
    BY <2>2
  <2>5. events' \in [Clients -> SUBSET [to : Clients, id : Ids]]
    BY <1>a, <2>3, <2>4
  <2>6. ack' \in [Clients -> Ids \cup {NoId}]
    BY <1>2, <1>a, <2>2 DEF PublishStep
  <2> QED
    BY <1>2, <1>a, <2>1, <2>5, <2>6 DEF PublishStep
<1>3. ASSUME NEW p \in Clients, EventStep(p)
      PROVE  T
  <2>1. PICK e \in events[p] :
            /\ events' = [events EXCEPT ![p] = @ \ {e}]
            /\ UNCHANGED outbox \/ Put(e.to, Message("EVENT", e.id, NoId))
    BY <1>3 DEF EventStep
  <2>2. e.to \in Clients /\ e.id \in Ids
    BY <1>a
  <2>3. Message("EVENT", e.id, NoId) \in OutMessages
    BY <2>2 DEF Message, OutMessages
  <2>4. outbox' \in [Clients -> Seq(OutMessages)]
    BY <1>a, <2>1, <2>2, <2>3, PutEffect
  <2>5. events' \in [Clients -> SUBSET [to : Clients, id : Ids]]
    BY <1>a, <2>1
  <2> QED
    BY <1>3, <1>a, <2>4, <2>5 DEF EventStep
<1>4. ASSUME NEW c \in Clients, AckStep(c)
      PROVE  T
  <2>1. ack[c] # NoId => Message("PUBLISHED", ack[c], NoId) \in OutMessages
    BY <1>a DEF Message, OutMessages, Answers
  <2>2. outbox' \in [Clients -> Seq(OutMessages)]
    BY <1>4, <1>a, <2>1, PutEffect DEF AckStep
  <2> QED
    BY <1>4, <1>a, <2>2 DEF AckStep
<1>5. ASSUME NEW c \in Clients, SendStep(c)
      PROVE  T
  <2>1. PICK type \in MessageTypes : ClientSend(c, type)
    BY <1>5 DEF SendStep
  <2>2. PICK ref \in References(c, type) :
            /\ Message(type, <<c, sent[c] + 1>>, ref) \in InMessages
            /\ inbox' = [inbox EXCEPT ![c] = Append(@, Message(type, <<c, sent[c] + 1>>, ref))]
            /\ yielded' = IF type = "YIELD" THEN yielded \cup {ref} ELSE yielded
    BY <2>1, SendEffect
  <2>3. Append(inbox[c], Message(type, <<c, sent[c] + 1>>, ref)) \in Seq(InMessages)
    BY <1>a, <2>2, AppendProperties
  <2>4. inbox' \in [Clients -> Seq(InMessages)]
    BY <1>a, <2>2, <2>3
  <2>5. yielded' \subseteq Ids
    BY <1>a, <2>2, ReferencesType
  <2>6. sent' \in [Clients -> 0..scenario.sends]
    <3>1. scenario.sends \in Nat /\ sent \in [Clients -> 0..scenario.sends]
      BY ScenarioType DEF TypeOK
    <3>2. sent[c] < scenario.sends
      BY <2>1 DEF ClientSend
    <3>3. sent[c] + 1 \in 0..scenario.sends
      BY <3>1, <3>2
    <3>4. sent' = [sent EXCEPT ![c] = sent[c] + 1]
      BY <2>1, SendEffect
    <3> QED
      BY <3>1, <3>3, <3>4
  <2> QED
    BY <1>a, <2>1, <2>4, <2>5, <2>6, SendEffect
<1>6. CASE QuietStep
  BY <1>6, <1>a DEF QuietStep
<1> HIDE DEF T
<1> QED
  BY <1>1, <1>2, <1>3, <1>4, <1>5, <1>6, StepKinds

\* So does what the realm, the dealer, the broker and the handlers keep.
LEMMA StateType ==
    ASSUME TypeOK, RefsKnown, [Next]_vars
    PROVE  /\ realm' \in {"open", "removed"}
           /\ clients' \subseteq Clients
           /\ registration' \in [owner : Clients, id : Ids] \cup {NoRegistration}
           /\ calls' \subseteq Ids
           /\ subscribers' \subseteq Clients
           /\ handler' \in [Clients -> {"new", "loop", "gather", "done", "crashed"}]
           /\ conn' \in [Clients -> {"open", "closed"}]
<1> DEFINE T == /\ realm' \in {"open", "removed"}
                /\ clients' \subseteq Clients
                /\ registration' \in [owner : Clients, id : Ids] \cup {NoRegistration}
                /\ calls' \subseteq Ids
                /\ subscribers' \subseteq Clients
                /\ handler' \in [Clients -> {"new", "loop", "gather", "done", "crashed"}]
                /\ conn' \in [Clients -> {"open", "closed"}]
<1> SUFFICES T
  OBVIOUS
<1>a. /\ realm \in {"open", "removed"}
      /\ clients \subseteq Clients
      /\ registration \in [owner : Clients, id : Ids] \cup {NoRegistration}
      /\ calls \subseteq Ids
      /\ subscribers \subseteq Clients
      /\ handler \in [Clients -> {"new", "loop", "gather", "done", "crashed"}]
      /\ conn \in [Clients -> {"open", "closed"}]
      /\ scenario.clients \subseteq Clients
  BY ScenarioType DEF TypeOK
<1>b. ASSUME NEW c \in Clients, NEW type, Receive(c, type)
      PROVE  /\ Take(c) /\ Request(c).id \in Ids /\ Request(c).type = type
             /\ UNCHANGED realm
  BY <1>b, RequestType DEF Receive, Take, Request, InMessages
<1>c. ASSUME NEW c \in Clients, NEW r, NEW m \in OutMessages, Write(c, r, m)
      PROVE  /\ handler' \in [Clients -> {"new", "loop", "gather", "done", "crashed"}]
             /\ conn' \in [Clients -> {"open", "closed"}]
  BY <1>a, <1>c, WriteEffect
<1> USE DEF dealerVars, Handle
<1>1. ASSUME NEW c \in Clients, NEW type \in scenario.uses, ClientSend(c, type)
      PROVE  T
  BY <1>a, <1>1 DEF ClientSend
<1>2. ASSUME NEW c \in Clients, Disconnect(c) \/ HandlerEnds(c)
      PROVE  T
  BY <1>a, <1>2 DEF Disconnect, HandlerEnds
<1>3. ASSUME NEW c \in Clients, Attach(c)
      PROVE  T
  BY <1>a, <1>3 DEF Attach, AttachClient
<1>4. ASSUME NEW c \in Clients, NoRealm(c) \/ Malformed(c)
      PROVE  T
  BY <1>a, <1>b, <1>4 DEF NoRealm, Malformed, Crash
<1>5. ASSUME NEW c \in Clients, HandleCall(c)
      PROVE  T
  <2>1. Take(c) /\ Request(c).id \in Ids /\ UNCHANGED realm
    BY <1>b, <1>5 DEF HandleCall
  <2>2. calls' \subseteq Ids
    BY <1>5, <1>a, <2>1 DEF HandleCall
  <2>3. registration # NoRegistration =>
            Message("INVOCATION", Request(c).id, registration.id) \in OutMessages
    BY <1>a, <2>1 DEF Message, OutMessages
  <2>4. \E r : \E m \in OutMessages : Write(c, r, m)
    BY <1>5, <2>1, <2>3, AnswerType DEF HandleCall, Answers
  <2> QED
    BY <1>5, <1>a, <1>c, <2>1, <2>2, <2>4 DEF HandleCall
<1>6. ASSUME NEW c \in Clients, HandleYield(c)
      PROVE  T
  <2>1. Take(c) /\ Request(c).type = "YIELD" /\ UNCHANGED realm
    BY <1>b, <1>6 DEF HandleYield
  <2>2. \E r : \E m \in OutMessages : Write(c, r, m)
    BY <1>6, <2>1, YieldRef DEF HandleYield
  <2> QED
    BY <1>6, <1>a, <1>c, <2>1, <2>2 DEF HandleYield
<1>7. ASSUME NEW c \in Clients,
             \/ HandleRegister(c) \/ HandleUnregister(c) \/ HandleSubscribe(c)
             \/ HandleUnsubscribe(c)
      PROVE  T
  <2>1. Take(c) /\ Request(c).id \in Ids /\ UNCHANGED <<realm, clients, calls>>
    BY <1>b, <1>7 DEF HandleRegister, HandleUnregister, HandleSubscribe, HandleUnsubscribe
  <2>2. \E m \in OutMessages : Write(c, c, m)
    BY <1>7, <2>1, AnswerType
    DEF HandleRegister, HandleUnregister, HandleSubscribe, HandleUnsubscribe, Answers
  <2>3. registration' \in [owner : Clients, id : Ids] \cup {NoRegistration}
    BY <1>7, <1>a, <2>1
    DEF HandleRegister, HandleUnregister, HandleSubscribe, HandleUnsubscribe
  <2>4. subscribers' \subseteq Clients
    BY <1>7, <1>a
    DEF HandleRegister, HandleUnregister, HandleSubscribe, HandleUnsubscribe
  <2> QED
    BY <1>a, <1>c, <2>1, <2>2, <2>3, <2>4
<1>8. ASSUME NEW c \in Clients, HandleGoodbye(c)
      PROVE  T
  BY <1>a, <1>b, <1>8 DEF HandleGoodbye, Forget, Crash
<1>9. ASSUME NEW c \in Clients, HandlePublish(c)
      PROVE  T
  BY <1>a, <1>b, <1>9 DEF HandlePublish, Crash
<1>10. ASSUME NEW c \in Clients, WriteEvent(c)
       PROVE  T
  BY <1>a, <1>10 DEF WriteEvent, Crash
<1>11. ASSUME NEW c \in Clients, Acknowledge(c)
       PROVE  T
  <2>1. CASE ack[c] # NoId
    <3>1. Message("PUBLISHED", ack[c], NoId) \in OutMessages
      BY <2>1 DEF TypeOK, Message, OutMessages, Answers
    <3> QED
      BY <1>a, <1>c, <1>11, <2>1, <3>1 DEF Acknowledge
  <2>2. CASE ack[c] = NoId
    BY <1>a, <1>11, <2>2 DEF Acknowledge
  <2> QED
    BY <2>1, <2>2
<1>12. CASE RemoveRealm
  BY <1>a, <1>12 DEF RemoveRealm
<1>13. CASE UNCHANGED vars
  BY <1>a, <1>13 DEF vars
<1> HIDE DEF T
<1>14. ASSUME NEW c \in Clients, HandlerStep(c)
       PROVE  T
  BY <1>2, <1>3, <1>4, <1>5, <1>6, <1>7, <1>8, <1>9, <1>11, <1>14 DEF HandlerStep
<1>15. ASSUME NEW c \in scenario.clients,
              \/ \E type \in scenario.uses : ClientSend(c, type)
              \/ Disconnect(c) \/ HandlerStep(c) \/ WriteEvent(c)
       PROVE  T
  BY <1>1, <1>2, <1>10, <1>14, <1>15, <1>a
<1>16. CASE Next
  BY <1>12, <1>15, <1>16 DEF Next
<1> QED
  BY <1>13, <1>16

LEMMA NextType ==
    ASSUME TypeOK, RefsKnown, [Next]_vars
    PROVE  TypeOK'
<1>1. /\ scenario' = scenario /\ scenario \in Scenarios
      /\ Ids' = Ids /\ InMessages' = InMessages /\ OutMessages' = OutMessages
  BY QueueType, SameIds DEF TypeOK
<1>2. /\ inbox' \in [Clients -> Seq(InMessages')]
      /\ outbox' \in [Clients -> Seq(OutMessages')]
      /\ events' \in [Clients -> SUBSET [to : Clients, id : Ids']]
      /\ ack' \in [Clients -> Ids' \cup {NoId}]
      /\ sent' \in [Clients -> 0..scenario'.sends]
      /\ yielded' \subseteq Ids'
  BY <1>1, QueueType
<1>3. /\ realm' \in {"open", "removed"}
      /\ clients' \subseteq Clients
      /\ registration' \in [owner : Clients, id : Ids'] \cup {NoRegistration}
      /\ calls' \subseteq Ids'
      /\ subscribers' \subseteq Clients
      /\ handler' \in [Clients -> {"new", "loop", "gather", "done", "crashed"}]
      /\ conn' \in [Clients -> {"open", "closed"}]
  BY <1>1, StateType
<1> QED
  BY <1>1, <1>2, <1>3 DEF TypeOK, InMessages, OutMessages

-----------------------------------------------------------------------------
(* Requests and the messages that name them                                *)

LEMMA QueueTypes ==
    ASSUME TypeOK
    PROVE  /\ scenario.sends \in Nat
           /\ inbox \in [Clients -> Seq(InMessages)]
           /\ outbox \in [Clients -> Seq(OutMessages)]
           /\ events \in [Clients -> SUBSET [to : Clients, id : Ids]]
           /\ ack \in [Clients -> Ids \cup {NoId}]
           /\ sent \in [Clients -> Nat] /\ \A c \in Clients : sent[c] \in 0..scenario.sends
           /\ \A c \in Clients : Len(inbox[c]) \in Nat /\ DOMAIN inbox[c] = 1..Len(inbox[c])
           /\ \A c \in Clients : \A i \in DOMAIN inbox[c] : inbox[c][i] \in InMessages
           /\ \A c \in Clients : Len(outbox[c]) \in Nat /\ DOMAIN outbox[c] = 1..Len(outbox[c])
           /\ \A c \in Clients : \A i \in DOMAIN outbox[c] : outbox[c][i] \in OutMessages
<1>1. /\ inbox \in [Clients -> Seq(InMessages)]
      /\ outbox \in [Clients -> Seq(OutMessages)]
  BY DEF TypeOK, InMessages, OutMessages
<1>2. scenario.sends \in Nat /\ sent \in [Clients -> 0..scenario.sends]
  BY ScenarioType DEF TypeOK
<1>3. /\ events \in [Clients -> SUBSET [to : Clients, id : Ids]]
      /\ ack \in [Clients -> Ids \cup {NoId}]
  BY DEF TypeOK
<1>4. sent \in [Clients -> Nat]
  BY <1>2
<1> QED
  BY <1>1, <1>2, <1>3, <1>4

LEMMA PutNew ==
    ASSUME TypeOK, NEW r \in Clients, NEW m \in OutMessages, Put(r, m)
    PROVE  /\ \A c \in Clients : \A i \in DOMAIN outbox'[c] :
                 \/ i \in DOMAIN outbox[c] /\ outbox'[c][i] = outbox[c][i]
                 \/ c = r /\ i = Len(outbox[c]) + 1 /\ outbox'[c][i] = m
           /\ \A c \in Clients : \A i \in DOMAIN outbox[c] :
                 i \in DOMAIN outbox'[c] /\ outbox'[c][i] = outbox[c][i]
           /\ Len(outbox[r]) + 1 \in DOMAIN outbox'[r] /\ outbox'[r][Len(outbox[r]) + 1] = m
<1>1. outbox \in [Clients -> Seq(OutMessages)]
  BY QueueTypes
<1> QED
  BY <1>1, PutEffect

LEMMA IdParts ==
    ASSUME TypeOK, NEW id \in Ids
    PROVE  id[1] \in Clients /\ id[2] \in Nat /\ id[2] >= 1 /\ id = <<id[1], id[2]>>
BY QueueTypes DEF Ids

\* The request that is taken is the next of its client's.
LEMMA TakenId ==
    ASSUME TypeOK, InboxIds, NEW c \in Clients, Take(c)
    PROVE  /\ Request(c) = inbox[c][1] /\ 1 \in DOMAIN inbox[c]
           /\ Request(c).id \in Ids /\ Request(c).id[1] = c
           /\ ~Handled(Request(c).id)
           /\ \A id \in Ids : id = Request(c).id /\ UNCHANGED sent => Handled(id)'
<1> DEFINE id == Request(c).id
<1>1. /\ Len(inbox[c]) \in Nat \ {0} /\ Request(c) = inbox[c][1]
      /\ Len(inbox'[c]) = Len(inbox[c]) - 1
  BY QueueTypes, TakeEffect
<1>2. 1 \in DOMAIN inbox[c]
  BY <1>1, QueueTypes
<1>3. id \in Ids
  BY RequestType DEF InMessages
<1>4. id[1] = c /\ id[2] + Len(inbox[c]) = sent[c] + 1 /\ id[2] \in Nat /\ sent[c] \in Nat
  BY <1>1, <1>2, <1>3, IdParts, QueueTypes DEF InboxIds
<1>5. ~Handled(id)
  BY <1>1, <1>4 DEF Handled
<1>6. ASSUME NEW i \in Ids, i = id, UNCHANGED sent
      PROVE  Handled(i)'
  <2>1. i[1] = c /\ i[2] + Len(inbox[c]) = sent[c] + 1 /\ i[2] \in Nat
    BY <1>4, <1>6
  <2>2. i[2] + Len(inbox'[c]) <= sent'[c]
    BY <1>1, <1>4, <1>6, <2>1
  <2> HIDE DEF id
  <2> QED
    BY <2>1, <2>2 DEF Handled
<1> QED
  BY <1>1, <1>2, <1>3, <1>4, <1>5, <1>6

\* What was received stays received.
LEMMA HandledStays ==
    ASSUME TypeOK, RefsKnown, [Next]_vars, NEW id \in Ids, Handled(id)
    PROVE  Handled(id)'
<1> DEFINE d == id[1]
<1>a. /\ d \in Clients /\ id[2] \in Nat
      /\ Len(inbox[d]) \in Nat /\ sent[d] \in Nat /\ id[2] + Len(inbox[d]) <= sent[d]
      /\ inbox \in [Clients -> Seq(InMessages)] /\ sent \in [Clients -> Nat]
  BY IdParts, QueueTypes DEF Handled
<1> SUFFICES id[2] + Len(inbox'[d]) <= sent'[d]
  BY DEF Handled
<1> HIDE DEF d
<1>2. ASSUME NEW c \in Clients, Take(c), UNCHANGED sent
      PROVE  id[2] + Len(inbox'[d]) <= sent'[d]
  <2>1. /\ Len(inbox'[c]) = Len(inbox[c]) - 1
        /\ \A e \in Clients : e # c => inbox'[e] = inbox[e]
    BY <1>a, <1>2, TakeEffect
  <2>2. Len(inbox'[d]) = Len(inbox[d]) - 1 \/ inbox'[d] = inbox[d]
    BY <1>a, <2>1
  <2> QED
    BY <1>a, <1>2, <2>2
<1>3. ASSUME NEW c \in Clients, SendStep(c)
      PROVE  id[2] + Len(inbox'[d]) <= sent'[d]
  <2>1. PICK m \in InMessages :
            /\ sent' = [sent EXCEPT ![c] = @ + 1]
            /\ inbox' = [inbox EXCEPT ![c] = Append(@, m)]
    BY <1>3, SendEffect DEF SendStep
  <2>2. Len(Append(inbox[c], m)) = Len(inbox[c]) + 1
    BY <1>a, <2>1, AppendProperties
  <2>3. CASE d = c
    BY <1>a, <2>1, <2>2, <2>3
  <2>4. CASE d # c
    BY <1>a, <2>1, <2>4
  <2> QED
    BY <2>3, <2>4
<1>4. ASSUME UNCHANGED <<inbox, sent>>
      PROVE  id[2] + Len(inbox'[d]) <= sent'[d]
  BY <1>a, <1>4
<1> QED
  BY <1>2, <1>3, <1>4, StepKinds DEF TakeStep, PublishStep, EventStep, AckStep, QuietStep

LEMMA NextInboxIds ==
    ASSUME TypeOK, RefsKnown, InboxIds, [Next]_vars
    PROVE  InboxIds'
<1> DEFINE P(d) == /\ Len(inbox'[d]) <= sent'[d]
                   /\ \A i \in DOMAIN inbox'[d] :
                        /\ inbox'[d][i].id[1] = d
                        /\ inbox'[d][i].id[2] + Len(inbox'[d]) = sent'[d] + i
<1> SUFFICES ASSUME NEW d \in Clients
             PROVE  P(d)
  BY DEF InboxIds
<1>a. /\ Len(inbox[d]) <= sent[d] /\ Len(inbox[d]) \in Nat /\ sent[d] \in Nat
      /\ DOMAIN inbox[d] = 1..Len(inbox[d])
      /\ inbox \in [Clients -> Seq(InMessages)]
      /\ \A i \in DOMAIN inbox[d] :
            /\ inbox[d][i].id[1] = d
            /\ inbox[d][i].id[2] + Len(inbox[d]) = sent[d] + i
            /\ inbox[d][i].id[2] \in Nat
  BY QueueTypes, IdParts DEF InboxIds, InMessages
<1>b. Len(inbox[d]) <= sent[d] /\ Len(inbox[d]) \in Nat /\ sent[d] \in Nat
  BY <1>a
<1>1. ASSUME inbox'[d] = inbox[d], sent'[d] = sent[d]
      PROVE  P(d)
  BY <1>a, <1>1
<1>2. ASSUME NEW c \in Clients, Take(c), UNCHANGED sent
      PROVE  P(d)
  <2>1. CASE d = c
    <3>1. /\ Len(inbox'[d]) = Len(inbox[d]) - 1 /\ Len(inbox[d]) >= 1
          /\ \A i \in DOMAIN inbox'[d] :
                i \in Nat /\ i + 1 \in DOMAIN inbox[d] /\ inbox'[d][i] = inbox[d][i + 1]
      <4>1. Take(d)
        BY <1>2, <2>1
      <4>2. /\ Len(inbox[d]) \in Nat \ {0} /\ Len(inbox'[d]) = Len(inbox[d]) - 1
            /\ \A i \in DOMAIN inbox'[d] :
                  i \in Nat /\ i + 1 \in DOMAIN inbox[d] /\ inbox'[d][i] = inbox[d][i + 1]
        BY <1>a, <4>1, TakeEffect
      <4> QED
        BY <4>2
    <3>2. ASSUME NEW i \in DOMAIN inbox'[d]
          PROVE  inbox'[d][i].id[1] = d /\ inbox'[d][i].id[2] + Len(inbox'[d]) = sent'[d] + i
      <4>1. i \in Nat /\ i + 1 \in DOMAIN inbox[d] /\ inbox'[d][i] = inbox[d][i + 1]
        BY <3>1
      <4>2. PICK k \in DOMAIN inbox[d] : k = i + 1
        BY <4>1
      <4>3. /\ inbox[d][k].id[1] = d
            /\ inbox[d][k].id[2] + Len(inbox[d]) = sent[d] + k
            /\ inbox[d][k].id[2] \in Nat
        BY <1>a
      <4>4. inbox'[d][i] = inbox[d][k] /\ sent'[d] = sent[d]
        BY <1>2, <4>1, <4>2
      <4>5. inbox[d][k].id[2] + Len(inbox'[d]) = sent[d] + i
        <5>1. i \in Nat /\ k = i + 1 /\ Len(inbox'[d]) = Len(inbox[d]) - 1
          BY <3>1, <4>1, <4>2
        <5>2. PICK n \in Nat : n = inbox[d][k].id[2]
          BY <4>3
        <5>3. PICK l \in Nat : l = Len(inbox[d])
          BY <1>b
        <5>4. n + l = sent[d] + k
          BY <4>3, <5>2, <5>3
        <5>5. n + (l - 1) = sent[d] + i
          BY <1>b, <5>1, <5>4
        <5> QED
          BY <5>1, <5>2, <5>3, <5>5
      <4> QED
        BY <4>3, <4>4, <4>5
    <3>3. Len(inbox'[d]) <= sent'[d]
      BY <1>b, <1>2, <3>1
    <3> QED
      BY <3>2, <3>3
  <2>2. CASE d # c
    BY <1>1, <1>2, <2>2, TakeEffect, QueueTypes
  <2> QED
    BY <2>1, <2>2
<1>3. ASSUME NEW c \in Clients, SendStep(c)
      PROVE  P(d)
  <2>1. PICK m \in InMessages :
            /\ m.id = <<c, sent[c] + 1>>
            /\ sent' = [sent EXCEPT ![c] = @ + 1]
            /\ inbox' = [inbox EXCEPT ![c] = Append(@, m)]
    BY <1>3, SendEffect DEF SendStep, Message
  <2>2. CASE d = c
    <3>1. inbox'[d] = Append(inbox[d], m) /\ sent'[d] = sent[d] + 1 /\ m.id = <<d, sent[d] + 1>>
      BY <2>1, <2>2, QueueTypes
    <3>2. /\ Len(inbox'[d]) = Len(inbox[d]) + 1
          /\ DOMAIN inbox'[d] = 1..(Len(inbox[d]) + 1)
          /\ \A i \in 1..Len(inbox[d]) : inbox'[d][i] = inbox[d][i]
          /\ inbox'[d][Len(inbox[d]) + 1] = m
      BY <3>1, QueueTypes, AppendProperties
    <3>3. ASSUME NEW i \in DOMAIN inbox'[d]
          PROVE  inbox'[d][i].id[1] = d /\ inbox'[d][i].id[2] + Len(inbox'[d]) = sent'[d] + i
      <4>1. i \in 1..Len(inbox[d]) \/ i = Len(inbox[d]) + 1
        BY <1>a, <3>2
      <4>2. CASE i \in 1..Len(inbox[d])
        <5>1. inbox'[d][i] = inbox[d][i] /\ i \in DOMAIN inbox[d]
          BY <1>a, <3>2, <4>2
        <5>2. /\ inbox[d][i].id[1] = d /\ inbox[d][i].id[2] \in Nat
              /\ inbox[d][i].id[2] + Len(inbox[d]) = sent[d] + i
          BY <1>a, <5>1
        <5>3. inbox[d][i].id[2] + Len(inbox'[d]) = sent'[d] + i
          <6>1. i \in Nat /\ Len(inbox'[d]) = Len(inbox[d]) + 1 /\ sent'[d] = sent[d] + 1
            BY <3>1, <3>2, <4>2
          <6>2. PICK n \in Nat : n = inbox[d][i].id[2]
            BY <5>2
          <6>3. PICK l \in Nat : l = Len(inbox[d])
            BY <1>b
          <6>4. n + l = sent[d] + i
            BY <5>2, <6>2, <6>3
          <6>5. n + (l + 1) = (sent[d] + 1) + i
            BY <1>b, <6>1, <6>4
          <6> QED
            BY <6>1, <6>2, <6>3, <6>5
        <5> QED
          BY <5>1, <5>2, <5>3
      <4>3. CASE i = Len(inbox[d]) + 1
        BY <1>a, <3>1, <3>2, <4>3
      <4> QED
        BY <4>1, <4>2, <4>3
    <3> QED
      BY <1>a, <3>1, <3>2, <3>3
  <2>3. CASE d # c
    BY <1>1, <2>1, <2>3, QueueTypes
  <2> QED
    BY <2>2, <2>3
<1> HIDE DEF P
<1> QED
  BY <1>1, <1>2, <1>3, StepKinds DEF TakeStep, PublishStep, EventStep, AckStep, QuietStep

\* Whatever names a request after a step names one that was received.
LEMMA NextHandledIds ==
    ASSUME TypeOK, IdInv, [Next]_vars
    PROVE  HandledIds'
<1> DEFINE H(id) == id[2] + Len(inbox'[id[1]]) <= sent'[id[1]]
           Out == \A c \in Clients : \A i \in DOMAIN outbox'[c] : H(outbox'[c][i].id)
           Events == \A p \in Clients : \A e \in events'[p] : e.id[1] = p /\ H(e.id)
           Ack == \A c \in Clients : ack'[c] # NoId => ack'[c][1] = c /\ H(ack'[c])
           T == Out /\ Events /\ Ack
<1> SUFFICES T
  BY DEF HandledIds, Handled
<1> USE DEF IdInv
<1>a. /\ \A id \in Ids : Handled(id) => H(id)
      /\ \A c \in Clients : Take(c) /\ UNCHANGED sent =>
            /\ Request(c).id \in Ids /\ Request(c).id[1] = c /\ H(Request(c).id)
      /\ \A c \in Clients : Take(c) => Request(c) = inbox[c][1] /\ 1 \in DOMAIN inbox[c]
  BY HandledStays, TakenId DEF Handled
<1>b. /\ \A c \in Clients : \A i \in DOMAIN outbox[c] : H(outbox[c][i].id)
      /\ \A p \in Clients : \A e \in events[p] : e.id[1] = p /\ H(e.id) /\ e.to \in Clients
      /\ \A c \in Clients : ack[c] # NoId => ack[c][1] = c /\ H(ack[c])
  BY <1>a, QueueTypes DEF HandledIds, OutMessages
<1> HIDE DEF H
<1>c. ASSUME UNCHANGED outbox
      PROVE  Out
  BY <1>b, <1>c
<1>d. ASSUME NEW r \in Clients, NEW m \in OutMessages, Put(r, m), H(m.id)
      PROVE  Out
  <2>1. \A c \in Clients : \A i \in DOMAIN outbox'[c] :
            \/ i \in DOMAIN outbox[c] /\ outbox'[c][i] = outbox[c][i]
            \/ outbox'[c][i] = m
    BY <1>d, PutNew
  <2> QED
    BY <1>b, <1>d, <2>1
<1>1. ASSUME NEW c \in Clients, TakeStep(c)
      PROVE  T
  <2>1. Events /\ Ack
    BY <1>1, <1>b DEF TakeStep
  <2>2. CASE UNCHANGED outbox
    BY <1>c, <2>1, <2>2
  <2>3. CASE ~UNCHANGED outbox
    <3>1. PICK r \in Clients, m \in OutMessages :
              /\ Put(r, m)
              /\ \/ m.id = Request(c).id
                 \/ Request(c).type = "YIELD" /\ m.id = Request(c).ref
      BY <1>1, <2>3 DEF TakeStep
    <3>2. CASE m.id = Request(c).id
      <4>1. H(m.id)
        BY <1>1, <1>a, <3>2 DEF TakeStep
      <4> QED
        BY <1>d, <2>1, <3>1, <4>1
    <3>3. CASE Request(c).type = "YIELD" /\ m.id = Request(c).ref
      <4>1. Sent(c, "INVOCATION", m.id)
        BY <1>1, <1>a, <3>3 DEF TakeStep, RefsKnown
      <4>2. PICK i \in DOMAIN outbox[c] : outbox[c][i].id = m.id
        BY <4>1 DEF Sent, ToSet
      <4>3. H(m.id)
        BY <1>b, <4>2
      <4> QED
        BY <1>d, <2>1, <3>1, <4>3
    <3> QED
      BY <3>1, <3>2, <3>3
  <2> QED
    BY <2>2, <2>3
<1>2. ASSUME NEW c \in Clients, PublishStep(c)
      PROVE  T
  <2>1. Out
    BY <1>2, <1>c DEF PublishStep
  <2>2. /\ Request(c).id \in Ids /\ Request(c).id[1] = c /\ H(Request(c).id)
    BY <1>2, <1>a DEF PublishStep
  <2>3. Events
    <3>1. PICK R \in SUBSET Clients :
              events' = [events EXCEPT ![c] = {[to |-> r, id |-> Request(c).id] : r \in R}]
      BY <1>2 DEF PublishStep
    <3>2. \A p \in Clients : \A e \in events'[p] : e \in events[p] \/ (p = c /\ e.id = Request(c).id)
      BY <3>1, QueueTypes
    <3> QED
      BY <1>b, <2>2, <3>2
  <2>4. Ack
    <3>1. \A d \in Clients : ack'[d] \in {NoId, ack[d]} \/ (d = c /\ ack'[d] = Request(c).id)
      BY <1>2, QueueTypes DEF PublishStep
    <3> QED
      BY <1>b, <2>2, <3>1
  <2> QED
    BY <2>1, <2>3, <2>4
<1>3. ASSUME NEW p \in Clients, EventStep(p)
      PROVE  T
  <2>1. PICK e \in events[p] :
            /\ events' = [events EXCEPT ![p] = @ \ {e}]
            /\ UNCHANGED outbox \/ Put(e.to, Message("EVENT", e.id, NoId))
    BY <1>3 DEF EventStep
  <2> DEFINE m == Message("EVENT", e.id, NoId)
  <2>2. m \in OutMessages /\ H(m.id) /\ e.to \in Clients
    BY <1>b, QueueTypes DEF Message, OutMessages
  <2> HIDE DEF m
  <2>3. Out
    BY <1>c, <1>d, <2>1, <2>2 DEF m
  <2>4. Events
    BY <1>b, <2>1, QueueTypes
  <2>5. Ack
    BY <1>b, <1>3 DEF EventStep
  <2> QED
    BY <2>3, <2>4, <2>5
<1>4. ASSUME NEW c \in Clients, AckStep(c)
      PROVE  T
  <2> DEFINE m == Message("PUBLISHED", ack[c], NoId)
  <2>1. ack[c] # NoId => m \in OutMessages /\ H(m.id)
    BY <1>b, QueueTypes DEF Message, OutMessages, Answers
  <2>2. UNCHANGED outbox \/ (ack[c] # NoId /\ Put(c, m))
    BY <1>4 DEF AckStep
  <2> HIDE DEF m
  <2>3. Out
    BY <1>c, <1>d, <2>1, <2>2
  <2>4. Events /\ Ack
    BY <1>b, <1>4, QueueTypes DEF AckStep
  <2> QED
    BY <2>3, <2>4
<1>5. ASSUME UNCHANGED <<outbox, events, ack>>
      PROVE  T
  BY <1>b, <1>5
<1>6. (\E c \in Clients : SendStep(c)) \/ QuietStep => UNCHANGED <<outbox, events, ack>>
  BY SendEffect DEF SendStep, QuietStep
<1> HIDE DEF T
<1> QED
  BY <1>1, <1>2, <1>3, <1>4, <1>5, <1>6, StepKinds

\* A put message has been sent, and nothing else is new.
LEMMA SentPut ==
    ASSUME TypeOK, NEW r \in Clients, NEW m \in OutMessages, Put(r, m),
           NEW c \in Clients, NEW type, NEW id
    PROVE  Sent(c, type, id)' <=> Sent(c, type, id) \/ (c = r /\ m.type = type /\ m.id = id)
<1>1. Sent(c, type, id)' <=> \E i \in DOMAIN outbox'[c] : outbox'[c][i].type = type /\ outbox'[c][i].id = id
  BY DEF Sent, ToSet
<1>2. Sent(c, type, id) <=> \E i \in DOMAIN outbox[c] : outbox[c][i].type = type /\ outbox[c][i].id = id
  BY DEF Sent, ToSet
<1> QED
  BY <1>1, <1>2, PutNew

\* At most one message is put into the outboxes.
LEMMA PutAtMost ==
    ASSUME TypeOK, RefsKnown, [Next]_vars
    PROVE  UNCHANGED outbox \/ \E r \in Clients : \E m \in OutMessages : Put(r, m)
<1>1. ASSUME NEW p \in Clients, EventStep(p)
      PROVE  UNCHANGED outbox \/ \E r \in Clients : \E m \in OutMessages : Put(r, m)
  <2>1. PICK e \in events[p] : UNCHANGED outbox \/ Put(e.to, Message("EVENT", e.id, NoId))
    BY <1>1 DEF EventStep
  <2>2. e.to \in Clients /\ Message("EVENT", e.id, NoId) \in OutMessages
    BY QueueTypes DEF Message, OutMessages
  <2> QED
    BY <2>1, <2>2
<1>2. ASSUME NEW c \in Clients, AckStep(c)
      PROVE  UNCHANGED outbox \/ \E r \in Clients : \E m \in OutMessages : Put(r, m)
  <2>1. ack[c] # NoId => Message("PUBLISHED", ack[c], NoId) \in OutMessages
    BY QueueTypes DEF Message, OutMessages, Answers
  <2> QED
    BY <1>2, <2>1 DEF AckStep
<1> QED
  BY <1>1, <1>2, StepKinds, SendEffect DEF TakeStep, PublishStep, SendStep, QuietStep

\* What was sent stays sent.
LEMMA SentStays ==
    ASSUME TypeOK, RefsKnown, [Next]_vars, NEW c \in Clients, NEW type, NEW id, Sent(c, type, id)
    PROVE  Sent(c, type, id)'
<1>1. CASE UNCHANGED outbox
  BY <1>1 DEF Sent
<1>2. ASSUME NEW r \in Clients, NEW m \in OutMessages, Put(r, m)
      PROVE  Sent(c, type, id)'
  BY <1>2, SentPut
<1> QED
  BY <1>1, <1>2, PutAtMost

\* A message that waits after another was taken waited before.
LEMMA TakeOld ==
    ASSUME TypeOK, NEW c \in Clients, Take(c)
    PROVE  \A d \in Clients : \A i \in DOMAIN inbox'[d] :
               LET k == IF d = c THEN i + 1 ELSE i
               IN i \in Nat /\ k \in DOMAIN inbox[d] /\ inbox'[d][i] = inbox[d][k]
<1>1. inbox \in [Clients -> Seq(InMessages)]
  BY QueueTypes
<1>2. /\ \A i \in DOMAIN inbox'[c] :
            i \in Nat /\ i + 1 \in DOMAIN inbox[c] /\ inbox'[c][i] = inbox[c][i + 1]
      /\ \A d \in Clients : d # c => inbox'[d] = inbox[d]
  BY <1>1, TakeEffect
<1>3. \A d \in Clients : \A i \in DOMAIN inbox[d] : i \in Nat
  BY QueueTypes
<1> QED
  BY <1>2, <1>3

\* A message that is sent waits last.
LEMMA InboxAppend ==
    ASSUME TypeOK, NEW t \in Clients, NEW m \in InMessages,
           inbox' = [inbox EXCEPT ![t] = Append(@, m)]
    PROVE  \A d \in Clients : \A j \in DOMAIN inbox'[d] :
               \/ j \in DOMAIN inbox[d] /\ inbox'[d][j] = inbox[d][j]
               \/ d = t /\ j = Len(inbox[t]) + 1 /\ inbox'[d][j] = m
<1>1. inbox[t] \in Seq(InMessages) /\ DOMAIN inbox[t] = 1..Len(inbox[t]) /\ Len(inbox[t]) \in Nat
  BY QueueTypes
<1>2. /\ DOMAIN Append(inbox[t], m) = 1..(Len(inbox[t]) + 1)
      /\ \A j \in 1..Len(inbox[t]) : Append(inbox[t], m)[j] = inbox[t][j]
      /\ Append(inbox[t], m)[Len(inbox[t]) + 1] = m
  BY <1>1, AppendProperties
<1>3. \A j \in 1..(Len(inbox[t]) + 1) : j \in 1..Len(inbox[t]) \/ j = Len(inbox[t]) + 1
  BY <1>1
<1>4. \A d \in Clients : inbox'[d] = IF d = t THEN Append(inbox[t], m) ELSE inbox[d]
  BY QueueTypes
<1> QED
  BY <1>1, <1>2, <1>3, <1>4

LEMMA NextRefsKnown ==
    ASSUME TypeOK, IdInv, [Next]_vars
    PROVE  RefsKnown'
<1> USE DEF IdInv
<1> DEFINE S(c, id) == \E m \in ToSet(outbox'[c]) : m.type = "INVOCATION" /\ m.id = id
           P(c, i) ==
               /\ inbox'[c][i].type = "UNREGISTER" => inbox'[c][i].ref # NoId
               /\ inbox'[c][i].type = "YIELD" =>
                     /\ inbox'[c][i].ref \in yielded'
                     /\ Sent(c, "INVOCATION", inbox[c][i].ref)'
                     /\ \A d \in Clients : \A j \in DOMAIN inbox'[d] :
                           inbox'[d][j].type = "YIELD" /\ inbox'[d][j].ref = inbox'[c][i].ref =>
                               d = c /\ j = i
<1> SUFFICES ASSUME NEW c \in Clients, NEW i \in DOMAIN inbox'[c]
             PROVE  P(c, i)
  BY DEF RefsKnown
<1>a. \A d \in Clients : \A id : Sent(d, "INVOCATION", id) => S(d, id)
  BY SentStays DEF Sent
<1>b. ASSUME NEW ref, S(c, ref), ref = inbox'[c][i].ref
      PROVE  Sent(c, "INVOCATION", inbox[c][i].ref)'
  BY <1>b DEF Sent
<1> HIDE DEF S
<1>c. \A d \in Clients : \A j \in DOMAIN inbox[d] :
          /\ inbox[d][j].type = "UNREGISTER" => inbox[d][j].ref # NoId
          /\ inbox[d][j].type = "YIELD" =>
                inbox[d][j].ref \in yielded /\ S(d, inbox[d][j].ref)
  BY <1>a DEF RefsKnown
<1>1. ASSUME UNCHANGED <<inbox, yielded>>
      PROVE  P(c, i)
  BY <1>b, <1>c, <1>1 DEF RefsKnown
<1>2. ASSUME NEW t \in Clients, Take(t), UNCHANGED yielded
      PROVE  P(c, i)
  <2> DEFINE K(d, j) == IF d = t THEN j + 1 ELSE j
  <2>1. \A d \in Clients : \A j \in DOMAIN inbox'[d] :
            j \in Nat /\ K(d, j) \in DOMAIN inbox[d] /\ inbox'[d][j] = inbox[d][K(d, j)]
    BY <1>2, TakeOld
  <2>2. ASSUME NEW d \in Clients, NEW j \in DOMAIN inbox'[d],
               inbox'[c][i].type = "YIELD",
               inbox'[d][j].type = "YIELD", inbox'[d][j].ref = inbox'[c][i].ref
        PROVE  d = c /\ j = i
    <3>1. d = c /\ K(d, j) = K(c, i)
      BY <2>1, <2>2 DEF RefsKnown
    <3> QED
      BY <2>1, <3>1
  <2>3. /\ inbox'[c][i].type = "UNREGISTER" => inbox'[c][i].ref # NoId
        /\ inbox'[c][i].type = "YIELD" =>
              inbox'[c][i].ref \in yielded' /\ S(c, inbox'[c][i].ref)
    BY <1>2, <1>c, <2>1
  <2> QED
    BY <1>b, <2>2, <2>3
<1>3. ASSUME NEW t \in Clients, SendStep(t)
      PROVE  P(c, i)
  <2>1. PICK type \in MessageTypes : ClientSend(t, type)
    BY <1>3 DEF SendStep
  <2>2. PICK ref \in References(t, type) :
            /\ Message(type, <<t, sent[t] + 1>>, ref) \in InMessages
            /\ inbox' = [inbox EXCEPT ![t] = Append(@, Message(type, <<t, sent[t] + 1>>, ref))]
            /\ yielded' = IF type = "YIELD" THEN yielded \cup {ref} ELSE yielded
    BY <2>1, SendEffect
  <2> DEFINE m == Message(type, <<t, sent[t] + 1>>, ref)
  <2>3. m \in InMessages /\ m.type = type /\ m.ref = ref /\ inbox' = [inbox EXCEPT ![t] = Append(@, m)]
    BY <2>2 DEF Message
  <2> HIDE DEF m
  <2>4. /\ type = "UNREGISTER" => ref # NoId
        /\ type = "YIELD" => S(t, ref) /\ ref \notin yielded
    BY <2>1, <1>a, ReferencesType, NoIdNotId
  <2>5. \A d \in Clients : \A j \in DOMAIN inbox'[d] :
            \/ j \in DOMAIN inbox[d] /\ inbox'[d][j] = inbox[d][j]
            \/ d = t /\ j = Len(inbox[t]) + 1 /\ inbox'[d][j] = m
    BY <2>3, InboxAppend
  <2>6. /\ inbox'[c][i].type = "UNREGISTER" => inbox'[c][i].ref # NoId
        /\ inbox'[c][i].type = "YIELD" =>
              inbox'[c][i].ref \in yielded' /\ S(c, inbox'[c][i].ref)
    BY <1>c, <2>2, <2>3, <2>4, <2>5
  <2>7. ASSUME NEW d \in Clients, NEW j \in DOMAIN inbox'[d],
               inbox'[c][i].type = "YIELD",
               inbox'[d][j].type = "YIELD", inbox'[d][j].ref = inbox'[c][i].ref
        PROVE  d = c /\ j = i
    <3>1. CASE i \in DOMAIN inbox[c] /\ inbox'[c][i] = inbox[c][i]
      BY <1>c, <2>3, <2>4, <2>5, <2>7, <3>1 DEF RefsKnown
    <3>2. CASE c = t /\ i = Len(inbox[t]) + 1 /\ inbox'[c][i] = m
      BY <1>c, <2>3, <2>4, <2>5, <2>7, <3>2
    <3> QED
      BY <2>5, <3>1, <3>2
  <2> QED
    BY <1>b, <2>6, <2>7
<1> HIDE DEF P
<1> QED
  BY <1>1, <1>2, <1>3, StepKinds DEF TakeStep, PublishStep, EventStep, AckStep, QuietStep

-----------------------------------------------------------------------------
(* Who is attached                                                         *)

LEMMA NextAttached ==
    ASSUME TypeOK, RefsKnown, Attached, NoneUnknown, [Next]_vars
    PROVE  Attached' /\ NoneUnknown'
<1> DEFINE T == Attached' /\ NoneUnknown'
<1> SUFFICES T
  OBVIOUS
<1>a. /\ clients \subseteq Clients
      /\ registration \in [owner : Clients, id : Ids] \cup {NoRegistration}
      /\ subscribers \subseteq Clients
      /\ handler \in [Clients -> {"new", "loop", "gather", "done", "crashed"}]
      /\ conn \in [Clients -> {"open", "closed"}]
      /\ sent \in [Clients -> Nat]
      /\ scenario.clients \subseteq Clients
  BY ScenarioType, QueueTypes DEF TypeOK
<1> USE <1>a DEF Attached, NoneUnknown, dealerVars, gatherVars, clientVars, Handle, Receive
\* A handler that was in its loop, or waited for its tasks, writes or crashes.
<1>b. ASSUME NEW c \in Clients, handler[c] \in {"loop", "gather"}, UNCHANGED sent,
             \/ conn' = conn /\ handler' = [handler EXCEPT ![c] = "loop"]
             \/ conn' = [conn EXCEPT ![c] = "closed"] /\ handler' = [handler EXCEPT ![c] = "crashed"],
             UNCHANGED clients
      PROVE  Attached'
  BY <1>b
<1>c. ASSUME NEW c \in Clients, NEW type, Receive(c, type)
      PROVE  Take(c) /\ Request(c).type = type
  BY <1>c DEF Take, Request
<1>1. ASSUME NEW c \in Clients, NEW type \in scenario.uses, ClientSend(c, type)
      PROVE  T
  BY <1>1 DEF ClientSend
<1>2. ASSUME NEW c \in Clients, Disconnect(c) \/ HandlerEnds(c) \/ Attach(c)
      PROVE  T
  BY <1>2 DEF Disconnect, HandlerEnds, Attach, AttachClient
<1>3. ASSUME NEW c \in Clients, NoRealm(c) \/ Malformed(c)
      PROVE  T
  BY <1>3 DEF NoRealm, Malformed, Crash
<1>4. ASSUME NEW c \in Clients, HandleCall(c)
      PROVE  T
  <2>1. Take(c) /\ handler[c] = "loop" /\ UNCHANGED <<sent, clients, registration, subscribers>>
    BY <1>c, <1>4 DEF HandleCall
  <2>2. registration # NoRegistration =>
            Message("INVOCATION", Request(c).id, registration.id) \in OutMessages
    BY <2>1, RequestType DEF Message, OutMessages, InMessages
  <2>3. \E r : \E m \in OutMessages : Write(c, r, m)
    BY <1>4, <2>1, <2>2, AnswerType DEF HandleCall, Answers
  <2> QED
    BY <1>b, <2>1, <2>3, WriteEffect
<1>5. ASSUME NEW c \in Clients, HandleYield(c)
      PROVE  T
  <2>1. Take(c) /\ Request(c).type = "YIELD" /\ handler[c] = "loop"
    BY <1>c, <1>5 DEF HandleYield
  <2>2. \E r : \E m \in OutMessages : Write(c, r, m)
    BY <1>5, <2>1, YieldRef DEF HandleYield
  <2>3. UNCHANGED <<sent, clients, registration, subscribers>>
    BY <1>5 DEF HandleYield
  <2> QED
    BY <1>b, <2>1, <2>2, <2>3, WriteEffect
<1>6. ASSUME NEW c \in Clients,
             \/ HandleRegister(c) \/ HandleUnregister(c) \/ HandleSubscribe(c)
             \/ HandleUnsubscribe(c)
      PROVE  T
  <2>1. Take(c) /\ handler[c] = "loop" /\ UNCHANGED <<sent, clients>>
    BY <1>c, <1>6 DEF HandleRegister, HandleUnregister, HandleSubscribe, HandleUnsubscribe
  <2>2. \E m \in OutMessages : Write(c, c, m)
    BY <1>6, <2>1, AnswerType
    DEF HandleRegister, HandleUnregister, HandleSubscribe, HandleUnsubscribe, Answers
  <2>3. registration' \in {registration, NoRegistration} \/ registration'.owner = c
    BY <1>6 DEF HandleRegister, HandleUnregister, HandleSubscribe, HandleUnsubscribe
  <2>4. subscribers' \subseteq subscribers \cup {c}
    BY <1>6 DEF HandleRegister, HandleUnregister, HandleSubscribe, HandleUnsubscribe
  <2>5. NoneUnknown'
    BY <2>1, <2>3, <2>4
  <2> QED
    BY <1>b, <2>1, <2>2, <2>5, WriteEffect
<1>7. ASSUME NEW c \in Clients, HandleGoodbye(c)
      PROVE  T
  <2>1. Attached'
    BY <1>7 DEF HandleGoodbye, Crash
  <2>2. NoneUnknown'
    BY <1>7 DEF HandleGoodbye, Forget
  <2> QED
    BY <2>1, <2>2
<1>8. ASSUME NEW c \in Clients, HandlePublish(c)
      PROVE  T
  BY <1>8 DEF HandlePublish, Crash
<1>9. ASSUME NEW c \in Clients, WriteEvent(c)
      PROVE  T
  BY <1>9 DEF WriteEvent, Crash
<1>10. ASSUME NEW c \in Clients, Acknowledge(c)
       PROVE  T
  <2>1. handler[c] = "gather" /\ UNCHANGED <<sent, clients, registration, subscribers>>
    BY <1>10 DEF Acknowledge
  <2>2. ack[c] # NoId => Message("PUBLISHED", ack[c], NoId) \in OutMessages
    BY DEF TypeOK, Message, OutMessages, Answers
  <2>3. \/ conn' = conn /\ handler' = [handler EXCEPT ![c] = "loop"]
        \/ conn' = [conn EXCEPT ![c] = "closed"] /\ handler' = [handler EXCEPT ![c] = "crashed"]
    BY <1>10, <2>2, WriteEffect DEF Acknowledge
  <2> QED
    BY <1>b, <2>1, <2>3
<1>11. CASE RemoveRealm
  BY <1>11 DEF RemoveRealm
<1>12. CASE UNCHANGED vars
  BY <1>12 DEF vars
<1> HIDE DEF T
<1>13. ASSUME NEW c \in Clients, HandlerStep(c)
       PROVE  T
  BY <1>2, <1>3, <1>4, <1>5, <1>6, <1>7, <1>8, <1>10, <1>13 DEF HandlerStep
<1>14. ASSUME NEW c \in scenario.clients,
              \/ \E type \in scenario.uses : ClientSend(c, type)
              \/ Disconnect(c) \/ HandlerStep(c) \/ WriteEvent(c)
       PROVE  T
  BY <1>1, <1>2, <1>9, <1>13, <1>14
<1>15. CASE Next
  BY <1>11, <1>14, <1>15 DEF Next
<1> QED
  BY <1>12, <1>15

\* Who leaves the realm has its connection closed, and nobody opens one again.
LEMMA NextWaiting ==
    ASSUME TypeOK, IdInv, Attached, Waiting, [Next]_vars
    PROVE  Waiting'
<1>a. /\ calls \subseteq Ids /\ \A id \in Ids : id[1] \in Clients
      /\ conn \in [Clients -> {"open", "closed"}]
      /\ scenario.clients \subseteq Clients
  BY ScenarioType, IdParts DEF TypeOK
<1>b. ASSUME NEW c \in Clients, NEW r, NEW m, Write(c, r, m)
      PROVE  conn' = conn \/ conn' = [conn EXCEPT ![c] = "closed"]
  BY <1>b DEF Write, Crash
<1>c. ASSUME NEW c \in Clients, conn' = conn \/ conn' = [conn EXCEPT ![c] = "closed"],
             clients \subseteq clients' \/ (conn'[c] = "closed" /\ clients' = clients \ {c}),
             \A id \in calls' : id \in calls \/ (id[1] \in clients /\ UNCHANGED clients)
      PROVE  Waiting'
  BY <1>a, <1>c DEF Waiting
<1> USE DEF Handle, Receive, dealerVars, gatherVars, clientVars
<1>1. ASSUME NEW c \in Clients, HandleCall(c)
      PROVE  Waiting'
  <2>1. Take(c) /\ handler[c] = "loop"
    BY <1>1 DEF HandleCall, Take
  <2>2. Request(c).id[1] = c /\ c \in clients
    BY <2>1, TakenId DEF IdInv, Attached
  <2>3. \E r : \E m : Write(c, r, m)
    BY <1>1 DEF HandleCall
  <2>4. UNCHANGED clients /\ calls' \subseteq calls \cup {Request(c).id}
    BY <1>1 DEF HandleCall
  <2> QED
    BY <1>b, <1>c, <2>2, <2>3, <2>4
<1>2. ASSUME NEW c \in Clients,
             \/ HandleYield(c) \/ HandleRegister(c) \/ HandleUnregister(c)
             \/ HandleSubscribe(c) \/ HandleUnsubscribe(c)
      PROVE  Waiting'
  <2>1. \E r : \E m : Write(c, r, m)
    BY <1>2 DEF HandleYield, HandleRegister, HandleUnregister, HandleSubscribe,
                HandleUnsubscribe
  <2>2. UNCHANGED clients /\ calls' \subseteq calls
    BY <1>2 DEF HandleYield, HandleRegister, HandleUnregister, HandleSubscribe,
                HandleUnsubscribe
  <2> QED
    BY <1>b, <1>c, <2>1, <2>2
<1>3. ASSUME NEW c \in Clients, HandleGoodbye(c)
      PROVE  Waiting'
  <2>1. /\ clients' = clients \ {c} /\ UNCHANGED calls
        /\ conn' = [conn EXCEPT ![c] = "closed"]
    BY <1>3 DEF HandleGoodbye, Crash
  <2>2. conn'[c] = "closed"
    BY <1>a, <2>1
  <2> QED
    BY <1>c, <2>1, <2>2
<1>4. ASSUME NEW c \in Clients, Acknowledge(c)
      PROVE  Waiting'
  <2>1. UNCHANGED <<clients, calls>> /\ ((\E m : Write(c, c, m)) \/ UNCHANGED conn)
    BY <1>4 DEF Acknowledge
  <2> QED
    BY <1>b, <1>c, <2>1
<1>5. ASSUME NEW c \in Clients,
             \/ \E type \in scenario.uses : ClientSend(c, type)
             \/ Disconnect(c) \/ Attach(c) \/ HandlerEnds(c) \/ NoRealm(c) \/ Malformed(c)
             \/ HandlePublish(c) \/ WriteEvent(c)
      PROVE  Waiting'
  <2>1. clients \subseteq clients' /\ UNCHANGED calls
    BY <1>5 DEF ClientSend, Disconnect, Attach, AttachClient, HandlerEnds, NoRealm, Malformed,
                HandlePublish, WriteEvent
  <2>2. conn' = conn \/ conn' = [conn EXCEPT ![c] = "closed"]
    BY <1>5 DEF ClientSend, Disconnect, Attach, HandlerEnds, NoRealm, Malformed,
                HandlePublish, WriteEvent, Crash
  <2> QED
    BY <1>c, <2>1, <2>2
<1>6. CASE RemoveRealm \/ UNCHANGED vars
  <2>1. UNCHANGED <<clients, calls, conn>>
    BY <1>6 DEF RemoveRealm, vars
  <2> QED
    BY <2>1 DEF Waiting
<1>7. ASSUME NEW c \in scenario.clients,
             \/ \E type \in scenario.uses : ClientSend(c, type)
             \/ Disconnect(c) \/ HandlerStep(c) \/ WriteEvent(c)
      PROVE  Waiting'
  BY <1>a, <1>1, <1>2, <1>3, <1>4, <1>5, <1>7 DEF HandlerStep
<1> QED
  BY <1>6, <1>7 DEF Next

\* As long as every connection is open, whoever has been attached is known, and
\* whoever a handler writes to has been attached.
LEMMA NextCrash ==
    ASSUME TypeOK, IdInv, Attached, NoneUnknown, [Next]_vars,
           NEW c \in Clients, handler[c] # "crashed", handler'[c] = "crashed"
    PROVE  \/ realm = "removed"
           \/ \E d \in Clients : conn[d] = "closed"
           \/ inbox[c] # <<>> /\ Request(c).type = "MALFORMED"
<1> SUFFICES ASSUME realm # "removed", \A d \in Clients : conn[d] # "closed",
                    ~(inbox[c] # <<>> /\ Request(c).type = "MALFORMED")
             PROVE  FALSE
  OBVIOUS
<1>a. /\ registration \in [owner : Clients, id : Ids] \cup {NoRegistration}
      /\ handler \in [Clients -> {"new", "loop", "gather", "done", "crashed"}]
      /\ conn \in [Clients -> {"open", "closed"}]
      /\ events \in [Clients -> SUBSET [to : Clients, id : Ids]]
      /\ scenario.clients \subseteq Clients
  BY ScenarioType, QueueTypes DEF TypeOK
<1>b. \A d \in Clients : handler[d] # "new" => d \in clients
  BY <1>a DEF Attached
<1>c. ASSUME NEW d \in Clients, NEW r \in clients, NEW m, Write(d, r, m)
      PROVE  handler' = [handler EXCEPT ![d] = "loop"]
  BY <1>a, <1>c DEF Write, TypeOK
<1>d. ASSUME NEW d \in Clients, handler' = [handler EXCEPT ![d] = "loop"]
      PROVE  FALSE
  BY <1>a, <1>d
<1> USE DEF Handle, Receive
<1>1. ASSUME NEW d \in Clients, NEW type \in scenario.uses, ClientSend(d, type)
      PROVE  FALSE
  BY <1>1 DEF ClientSend
<1>2. ASSUME NEW d \in Clients, Disconnect(d) \/ HandlerEnds(d) \/ Attach(d) \/ NoRealm(d)
      PROVE  FALSE
  BY <1>2, <1>a DEF Disconnect, HandlerEnds, Attach, NoRealm
<1>0. ASSUME NEW d \in Clients, Malformed(d)
      PROVE  FALSE
  <2>1. d = c
    BY <1>0, <1>a DEF Malformed, Crash
  <2> QED
    BY <1>0, <2>1 DEF Malformed, Request
<1>3. ASSUME NEW d \in Clients, HandleCall(d)
      PROVE  FALSE
  <2>1. \E r \in clients : \E m : Write(d, r, m)
    BY <1>3, <1>b DEF HandleCall, NoneUnknown
  <2> QED
    BY <1>c, <1>d, <2>1
<1>4. ASSUME NEW d \in Clients, HandleYield(d)
      PROVE  FALSE
  <2> DEFINE ref == Request(d).ref
  <2>1. Take(d) /\ Request(d).type = "YIELD"
    BY <1>4 DEF HandleYield, Take, Request
  <2>2. ref \in Ids /\ Sent(d, "INVOCATION", ref)
    BY <2>1, YieldRef, TakenId DEF IdInv, RefsKnown
  <2>3. PICK i \in DOMAIN outbox[d] : outbox[d][i].id = ref
    BY <2>2 DEF Sent, ToSet
  <2>4. Handled(ref)
    BY <2>3 DEF IdInv, HandledIds
  <2>5. ref[1] \in Clients /\ ref[2] \in Nat /\ ref[2] >= 1
    BY <2>2, IdParts
  <2>6. sent[ref[1]] > 0
    <3>1. PICK n \in Nat, l \in Nat, k \in Nat :
              n = sent[ref[1]] /\ l = Len(inbox[ref[1]]) /\ k = ref[2]
      BY <2>5, QueueTypes
    <3>2. k + l <= n /\ k >= 1
      BY <2>4, <2>5, <3>1 DEF Handled
    <3> QED
      BY <3>1, <3>2
  <2>7. ref[1] \in clients
    BY <1>b, <2>5, <2>6 DEF Attached
  <2>8. Write(d, ref[1], Message("RESULT", ref, NoId))
    BY <1>4 DEF HandleYield
  <2> QED
    BY <1>c, <1>d, <2>7, <2>8
<1>5. ASSUME NEW d \in Clients,
             \/ HandleRegister(d) \/ HandleUnregister(d) \/ HandleSubscribe(d)
             \/ HandleUnsubscribe(d)
      PROVE  FALSE
  <2>1. d \in clients /\ \E m : Write(d, d, m)
    BY <1>5, <1>b DEF HandleRegister, HandleUnregister, HandleSubscribe, HandleUnsubscribe
  <2> QED
    BY <1>c, <1>d, <2>1
<1>6. ASSUME NEW d \in Clients, HandleGoodbye(d)
      PROVE  FALSE
  BY <1>6, <1>a DEF HandleGoodbye
<1>7. ASSUME NEW d \in Clients, HandlePublish(d)
      PROVE  FALSE
  <2>1. Recipients(d) \subseteq clients
    BY DEF Recipients, NoneUnknown
  <2> QED
    BY <1>7, <1>a, <2>1 DEF HandlePublish
<1>8. ASSUME NEW d \in Clients, WriteEvent(d)
      PROVE  FALSE
  <2>1. PICK e \in events[d] : conn[e.to] = "open" => UNCHANGED handler
    BY <1>8 DEF WriteEvent
  <2>2. conn[e.to] = "open"
    BY <1>a
  <2> QED
    BY <2>1, <2>2
<1>9. ASSUME NEW d \in Clients, Acknowledge(d)
      PROVE  FALSE
  <2>1. d \in clients
    BY <1>9, <1>b DEF Acknowledge
  <2>2. handler' = [handler EXCEPT ![d] = "loop"]
    BY <1>9, <1>c, <2>1 DEF Acknowledge
  <2> QED
    BY <1>d, <2>2
<1>10. RemoveRealm \/ UNCHANGED vars => UNCHANGED handler
  BY DEF RemoveRealm, vars
<1>11. ASSUME NEW d \in Clients, HandlerStep(d)
       PROVE  FALSE
  BY <1>0, <1>2, <1>3, <1>4, <1>5, <1>6, <1>7, <1>9, <1>11 DEF HandlerStep
<1>12. ASSUME NEW d \in scenario.clients,
              \/ \E type \in scenario.uses : ClientSend(d, type)
              \/ Disconnect(d) \/ HandlerStep(d) \/ WriteEvent(d)
       PROVE  FALSE
  BY <1>a, <1>1, <1>2, <1>8, <1>11, <1>12
<1> QED
  BY <1>10, <1>12 DEF Next

-----------------------------------------------------------------------------
(* The registration                                                        *)

\* A message more leaves the INVOCATIONs as they should be, unless it is one that
\* comes too early or too late.
LEMMA InvocationsKept ==
    ASSUME TypeOK, InvocationWhileRegistered,
           \/ UNCHANGED outbox
           \/ \E r \in Clients : \E m \in OutMessages :
                 /\ Put(r, m)
                 /\ m.type = "INVOCATION" =>
                       /\ Sent(r, "REGISTERED", m.ref)
                       /\ \A j \in DOMAIN outbox[r] :
                             outbox[r][j].type = "UNREGISTERED" => outbox[r][j].ref # m.ref
    PROVE  InvocationWhileRegistered'
<1>a. \A c \in Clients : Len(outbox[c]) \in Nat /\ DOMAIN outbox[c] = 1..Len(outbox[c])
  BY QueueTypes
<1>1. CASE UNCHANGED outbox
  BY <1>1 DEF InvocationWhileRegistered
<1>2. ASSUME NEW r \in Clients, NEW m \in OutMessages, Put(r, m),
             m.type = "INVOCATION" =>
                 /\ Sent(r, "REGISTERED", m.ref)
                 /\ \A j \in DOMAIN outbox[r] :
                       outbox[r][j].type = "UNREGISTERED" => outbox[r][j].ref # m.ref
      PROVE  InvocationWhileRegistered'
  <2> SUFFICES ASSUME NEW c \in Clients, NEW i \in DOMAIN outbox'[c],
                      outbox'[c][i].type = "INVOCATION"
               PROVE  /\ \E j \in 1..(i - 1) :
                            /\ outbox'[c][j].type = "REGISTERED"
                            /\ outbox'[c][j].id = outbox'[c][i].ref
                      /\ ~\E j \in 1..(i - 1) :
                            /\ outbox'[c][j].type = "UNREGISTERED"
                            /\ outbox'[c][j].ref = outbox'[c][i].ref
    BY DEF InvocationWhileRegistered
  <2>1. /\ \/ i \in DOMAIN outbox[c] /\ outbox'[c][i] = outbox[c][i]
           \/ c = r /\ i = Len(outbox[c]) + 1 /\ outbox'[c][i] = m
        /\ \A j \in DOMAIN outbox[c] : outbox'[c][j] = outbox[c][j]
    BY <1>2, PutNew
  <2>2. \A j \in 1..(i - 1) : j \in DOMAIN outbox[c] /\ outbox'[c][j] = outbox[c][j]
    BY <1>a, <2>1
  <2>3. CASE i \in DOMAIN outbox[c] /\ outbox'[c][i] = outbox[c][i]
    BY <2>2, <2>3 DEF InvocationWhileRegistered
  <2>4. CASE c = r /\ i = Len(outbox[c]) + 1 /\ outbox'[c][i] = m
    <3>1. PICK j \in DOMAIN outbox[c] :
              outbox[c][j].type = "REGISTERED" /\ outbox[c][j].id = m.ref
      BY <1>2, <2>4 DEF Sent, ToSet
    <3>2. j \in 1..(i - 1)
      BY <1>a, <2>4
    <3> QED
      BY <1>2, <2>2, <2>4, <3>1, <3>2
  <2> QED
    BY <2>1, <2>3, <2>4
<1> QED
  BY <1>1, <1>2

\* What a step leaves of the registration, or gives up, is as it should be.
LEMMA RegistrationKept ==
    ASSUME TypeOK, IdInv, Registered, [Next]_vars,
           registration' \in {registration, NoRegistration},
           \A c \in Clients : conn'[c] = "open" => conn[c] = "open",
           \/ UNCHANGED outbox
           \/ \E r \in Clients : \E m \in OutMessages :
                 Put(r, m) /\ (m.type = "UNREGISTERED" =>
                                  /\ m.ref \in Ids /\ Handled(m.ref)
                                  /\ registration' = NoRegistration)
    PROVE  Registered'
<1> DEFINE H(id) == id[2] + Len(inbox'[id[1]]) <= sent'[id[1]]
           S(c, type, id) == \E i \in DOMAIN outbox'[c] :
                                  outbox'[c][i].type = type /\ outbox'[c][i].id = id
<1>a. /\ \A id \in Ids : Handled(id) => H(id)
      /\ \A c \in Clients : \A type : \A id : Sent(c, type, id) => S(c, type, id)
  BY HandledStays, SentStays DEF IdInv, Handled, Sent, ToSet
<1>b. registration \in [owner : Clients, id : Ids] \cup {NoRegistration}
  BY DEF TypeOK
<1>1. registration' # NoRegistration =>
          registration'.id[1] = registration'.owner /\ Handled(registration.id)'
  BY <1>a, <1>b DEF Registered, Handled
<1>2. registration' # NoRegistration /\ conn'[registration'.owner] = "open" =>
          Sent(registration.owner, "REGISTERED", registration.id)'
  <2> HIDE DEF H
  <2>1. ASSUME registration' = registration, registration # NoRegistration,
               conn[registration.owner] = "open"
        PROVE  S(registration.owner, "REGISTERED", registration.id)
    BY <1>a, <1>b, <2>1 DEF Registered
  <2> QED
    BY <1>b, <2>1 DEF Sent, ToSet
<1>3. ASSUME NEW c \in Clients, NEW i \in DOMAIN outbox'[c], outbox'[c][i].type = "UNREGISTERED"
      PROVE  /\ outbox'[c][i].ref # NoId
             /\ Handled(outbox[c][i].ref)'
             /\ outbox'[c][i].ref # registration'.id
  <2>1. PICK ref \in Ids : /\ ref = outbox'[c][i].ref /\ Handled(ref)
                           /\ registration' = NoRegistration \/ ref # registration.id
    <3>1. CASE i \in DOMAIN outbox[c] /\ outbox'[c][i] = outbox[c][i]
      BY <1>3, <3>1, QueueTypes DEF Registered, OutMessages
    <3>2. CASE ~(i \in DOMAIN outbox[c] /\ outbox'[c][i] = outbox[c][i])
      BY <1>3, <3>2, PutNew
    <3> QED
      BY <3>1, <3>2
  <2>2. H(ref)
    BY <1>a, <2>1
  <2>3. Handled(outbox[c][i].ref)'
    BY <2>1, <2>2 DEF Handled
  <2>4. ref # registration'.id
    BY <1>b, <2>1, NoIdNotId DEF NoRegistration
  <2> QED
    BY <2>1, <2>3, <2>4, NoIdNotId
<1> HIDE DEF H, S
<1> QED
  BY <1>1, <1>2, <1>3 DEF Registered

LEMMA NextRegistered ==
    ASSUME TypeOK, IdInv, Registered, InvocationWhileRegistered, [Next]_vars
    PROVE  Registered' /\ InvocationWhileRegistered'
<1> DEFINE T == Registered' /\ InvocationWhileRegistered'
<1> SUFFICES T
  OBVIOUS
<1>a. /\ registration \in [owner : Clients, id : Ids] \cup {NoRegistration}
      /\ handler \in [Clients -> {"new", "loop", "gather", "done", "crashed"}]
      /\ conn \in [Clients -> {"open", "closed"}]
      /\ scenario.clients \subseteq Clients
  BY ScenarioType DEF TypeOK
\* Other messages, and no new registration.
<1>b. ASSUME registration' \in {registration, NoRegistration},
             \A c \in Clients : conn'[c] = "open" => conn[c] = "open",
             \/ UNCHANGED outbox
             \/ \E r \in Clients : \E m \in OutMessages :
                   Put(r, m) /\ m.type \notin {"UNREGISTERED", "INVOCATION"}
      PROVE  T
  <2>1. Registered'
    BY <1>b, RegistrationKept
  <2>2. InvocationWhileRegistered'
    BY <1>b, InvocationsKept
  <2> QED
    BY <2>1, <2>2
<1>c. ASSUME NEW c \in Clients, NEW type, Receive(c, type)
      PROVE  Take(c) /\ Request(c).type = type
  BY <1>c DEF Take, Request, Receive
<1>d. ASSUME NEW c \in Clients, NEW r, NEW m \in OutMessages, Write(c, r, m)
      PROVE  /\ UNCHANGED outbox \/ (r \in Clients /\ Put(r, m))
             /\ \A d \in Clients : conn'[d] = "open" => conn[d] = "open"
             /\ conn'[c] = "open" => r \in Clients /\ Put(r, m)
  <2>1. /\ UNCHANGED outbox \/ (r \in Clients /\ Put(r, m))
        /\ conn' = conn \/ conn' = [conn EXCEPT ![c] = "closed"]
    BY <1>d, WriteEffect
  <2>2. conn'[c] = "open" => r \in Clients /\ Put(r, m)
    BY <1>a, <1>d DEF Write, Crash, Put, TypeOK
  <2> QED
    BY <1>a, <2>1, <2>2
<1> USE DEF Handle, dealerVars
<1> HIDE DEF T
<1>1. ASSUME NEW c \in Clients,
             \/ \E type \in scenario.uses : ClientSend(c, type)
             \/ Disconnect(c) \/ HandlerEnds(c) \/ Attach(c) \/ NoRealm(c) \/ Malformed(c)
             \/ HandlePublish(c)
      PROVE  T
  <2>1. UNCHANGED <<registration, outbox>>
    BY <1>1 DEF ClientSend, Disconnect, HandlerEnds, Attach, NoRealm, Malformed, HandlePublish
  <2>2. \A d \in Clients : conn'[d] = "open" => conn[d] = "open"
    BY <1>1, <1>a DEF ClientSend, Disconnect, HandlerEnds, Attach, NoRealm, Malformed,
                      HandlePublish, Crash
  <2> QED
    BY <1>b, <2>1, <2>2
<1>2. ASSUME NEW c \in Clients, HandleCall(c)
      PROVE  T
  <2>1. Take(c) /\ UNCHANGED registration
    BY <1>c, <1>2 DEF HandleCall
  <2>2. CASE registration = NoRegistration
    <3> DEFINE m == Answer(c, "ERROR")
    <3>1. m \in OutMessages /\ m.type = "ERROR" /\ Write(c, c, m)
      BY <1>2, <2>1, <2>2, AnswerType DEF HandleCall, Answers
    <3> HIDE DEF m
    <3> QED
      BY <1>b, <1>d, <2>1, <3>1
  <2>3. CASE registration # NoRegistration
    <3> DEFINE m == Message("INVOCATION", Request(c).id, registration.id)
               o == registration.owner
    <3>1. m \in OutMessages /\ m.type = "INVOCATION" /\ m.ref = registration.id /\ o \in Clients
      BY <1>a, <2>1, <2>3, RequestType DEF Message, OutMessages, InMessages
    <3>2. Write(c, o, m)
      BY <1>2, <2>3 DEF HandleCall
    <3>3. UNCHANGED outbox \/ (Put(o, m) /\ conn[o] = "open")
      BY <3>2 DEF Write, Put
    <3>4. conn[o] = "open" => Sent(o, "REGISTERED", m.ref)
      BY <2>3, <3>1 DEF Registered
    <3>5. \A j \in DOMAIN outbox[o] :
              outbox[o][j].type = "UNREGISTERED" => outbox[o][j].ref # m.ref
      BY <3>1 DEF Registered
    <3> HIDE DEF m, o
    <3>6. InvocationWhileRegistered'
      BY <3>1, <3>3, <3>4, <3>5, InvocationsKept
    <3>7. Registered'
      BY <1>d, <2>1, <3>1, <3>2, RegistrationKept
    <3> QED
      BY <3>6, <3>7 DEF T
  <2> QED
    BY <2>2, <2>3
<1>3. ASSUME NEW c \in Clients, HandleYield(c)
      PROVE  T
  <2> DEFINE m == Message("RESULT", Request(c).ref, NoId)
             r == Request(c).ref[1]
  <2>1. Take(c) /\ Request(c).type = "YIELD" /\ UNCHANGED registration
    BY <1>c, <1>3 DEF HandleYield
  <2>2. m \in OutMessages /\ m.type = "RESULT" /\ Write(c, r, m)
    BY <1>3, <2>1, YieldRef DEF HandleYield, IdInv, Message
  <2> HIDE DEF m, r
  <2> QED
    BY <1>b, <1>d, <2>1, <2>2
<1>4. ASSUME NEW c \in Clients, HandleRegister(c)
      PROVE  T
  <2>1. Take(c)
    BY <1>c, <1>4 DEF HandleRegister
  <2>2. CASE registration = NoRegistration
    <3> DEFINE m == Answer(c, "REGISTERED")
    <3>1. m \in OutMessages /\ m.type = "REGISTERED" /\ m.id = Request(c).id
      BY <2>1, AnswerType DEF Answers
    <3>2. Write(c, c, m) /\ registration' = [owner |-> c, id |-> Request(c).id]
      BY <1>4, <2>2 DEF HandleRegister
    <3>3. PICK id \in Ids : id = Request(c).id
      BY <2>1, TakenId DEF IdInv
    <3>4. id[1] = c /\ ~Handled(id) /\ Handled(id)'
      BY <1>4, <2>1, <3>3, TakenId DEF IdInv, HandleRegister, Receive, clientVars
    <3>5. registration'.owner = c /\ registration'.id = id
      BY <3>2, <3>3
    <3> HIDE DEF m
    <3>6. InvocationWhileRegistered'
      BY <1>d, <3>1, <3>2, InvocationsKept
    <3>7. Handled(registration.id)'
      BY <3>4, <3>5 DEF Handled
    <3>8. conn'[c] = "open" => Sent(c, "REGISTERED", id)'
      BY <1>d, <3>1, <3>2, <3>3, SentPut
    <3>9. ASSUME NEW d \in Clients, NEW i \in DOMAIN outbox'[d],
                 outbox'[d][i].type = "UNREGISTERED"
          PROVE  /\ outbox'[d][i].ref # NoId
                 /\ Handled(outbox[d][i].ref)'
                 /\ outbox'[d][i].ref # registration'.id
      <4>1. i \in DOMAIN outbox[d] /\ outbox'[d][i] = outbox[d][i]
        BY <1>d, <3>1, <3>2, <3>9, PutNew
      <4>2. PICK ref \in Ids : ref = outbox[d][i].ref /\ Handled(ref)
        BY <3>9, <4>1, QueueTypes DEF Registered, OutMessages
      <4>3. Handled(ref)'
        BY <4>2, HandledStays DEF IdInv
      <4>4. ref # id
        BY <3>4, <4>2
      <4> QED
        BY <3>5, <4>1, <4>2, <4>3, <4>4, NoIdNotId DEF Handled
    <3>10. Sent(registration.owner, "REGISTERED", registration.id)' \/ conn'[c] # "open"
      BY <3>5, <3>8 DEF Sent
    <3>11. Registered'
      BY <3>4, <3>5, <3>7, <3>9, <3>10 DEF Registered
    <3> QED
      BY <3>6, <3>11 DEF T
  <2>3. CASE registration # NoRegistration
    <3> DEFINE m == Answer(c, "ERROR")
    <3>1. m \in OutMessages /\ m.type = "ERROR" /\ Write(c, c, m) /\ UNCHANGED registration
      BY <1>4, <2>1, <2>3, AnswerType DEF HandleRegister, Answers
    <3> HIDE DEF m
    <3> QED
      BY <1>b, <1>d, <3>1
  <2> QED
    BY <2>2, <2>3
<1>5. ASSUME NEW c \in Clients, HandleUnregister(c)
      PROVE  T
  <2>1. Take(c) /\ Request(c).type = "UNREGISTER"
    BY <1>c, <1>5 DEF HandleUnregister
  <2>2. CASE registration.id = Request(c).ref
    <3> DEFINE m == Answer(c, "UNREGISTERED")
    <3>1. m \in OutMessages /\ m.type = "UNREGISTERED" /\ m.ref = Request(c).ref
      BY <2>1, AnswerType DEF Answers, Answer, Message
    <3>2. Write(c, c, m) /\ registration' = NoRegistration
      BY <1>5, <2>2 DEF HandleUnregister
    <3>3. m.ref # NoId
      BY <2>1, <3>1, TakenId DEF IdInv, RefsKnown
    <3>4. m.ref \in Ids /\ Handled(m.ref)
      BY <1>a, <2>2, <3>1, <3>3 DEF Registered, NoRegistration
    <3> HIDE DEF m
    <3>5. Registered'
      BY <1>d, <3>1, <3>2, <3>4, RegistrationKept
    <3>6. InvocationWhileRegistered'
      BY <1>d, <3>1, <3>2, InvocationsKept
    <3> QED
      BY <3>5, <3>6 DEF T
  <2>3. CASE registration.id # Request(c).ref
    <3> DEFINE m == Answer(c, "ERROR")
    <3>1. m \in OutMessages /\ m.type = "ERROR" /\ Write(c, c, m) /\ UNCHANGED registration
      BY <1>5, <2>1, <2>3, AnswerType DEF HandleUnregister, Answers
    <3> HIDE DEF m
    <3> QED
      BY <1>b, <1>d, <3>1
  <2> QED
    BY <2>2, <2>3
<1>6. ASSUME NEW c \in Clients, HandleSubscribe(c) \/ HandleUnsubscribe(c)
      PROVE  T
  <2>1. Take(c) /\ UNCHANGED registration
    BY <1>c, <1>6 DEF HandleSubscribe, HandleUnsubscribe
  <2>2. PICK type \in {"SUBSCRIBED", "UNSUBSCRIBED", "ERROR"} : Write(c, c, Answer(c, type))
    BY <1>6 DEF HandleSubscribe, HandleUnsubscribe
  <2> DEFINE m == Answer(c, type)
  <2>3. m \in OutMessages /\ m.type \notin {"UNREGISTERED", "INVOCATION"} /\ Write(c, c, m)
    BY <2>1, <2>2, AnswerType DEF Answers
  <2> HIDE DEF m
  <2> QED
    BY <1>b, <1>d, <2>1, <2>3
<1>7. ASSUME NEW c \in Clients, HandleGoodbye(c)
      PROVE  T
  <2> DEFINE m == Answer(c, "GOODBYE")
  <2>1. m \in OutMessages /\ m.type = "GOODBYE"
    BY <1>c, <1>7, AnswerType DEF HandleGoodbye, Answers
  <2>2. UNCHANGED outbox \/ Put(c, m)
    BY <1>7 DEF HandleGoodbye, Put
  <2>3. registration' \in {registration, NoRegistration}
    BY <1>7 DEF HandleGoodbye, Forget
  <2>4. \A d \in Clients : conn'[d] = "open" => conn[d] = "open"
    BY <1>7, <1>a DEF HandleGoodbye, Crash
  <2> HIDE DEF m
  <2> QED
    BY <1>b, <2>1, <2>2, <2>3, <2>4
<1>8. ASSUME NEW c \in Clients, WriteEvent(c)
      PROVE  T
  <2>1. PICK e \in events[c] :
            UNCHANGED outbox \/ Put(e.to, Message("EVENT", e.id, NoId))
    BY <1>8 DEF WriteEvent, Put
  <2> DEFINE m == Message("EVENT", e.id, NoId)
  <2>2. m \in OutMessages /\ m.type = "EVENT" /\ e.to \in Clients
    BY QueueTypes DEF Message, OutMessages
  <2>3. UNCHANGED registration /\ \A d \in Clients : conn'[d] = "open" => conn[d] = "open"
    BY <1>8, <1>a DEF WriteEvent, Crash
  <2>4. UNCHANGED outbox \/ Put(e.to, m)
    BY <2>1
  <2> HIDE DEF m
  <2> QED
    BY <1>b, <2>2, <2>3, <2>4
<1>9. ASSUME NEW c \in Clients, Acknowledge(c)
      PROVE  T
  <2> DEFINE m == Message("PUBLISHED", ack[c], NoId)
  <2>1. UNCHANGED registration
    BY <1>9 DEF Acknowledge
  <2>2. CASE ack[c] # NoId
    <3>1. m \in OutMessages /\ m.type = "PUBLISHED" /\ Write(c, c, m)
      BY <1>9, <2>2, QueueTypes DEF Acknowledge, Message, OutMessages, Answers
    <3> HIDE DEF m
    <3> QED
      BY <1>b, <1>d, <2>1, <3>1
  <2>3. CASE ack[c] = NoId
    BY <1>9, <1>b, <2>1, <2>3 DEF Acknowledge
  <2> QED
    BY <2>2, <2>3
<1>10. CASE RemoveRealm \/ UNCHANGED vars
  <2>1. UNCHANGED <<registration, outbox, conn>>
    BY <1>10 DEF RemoveRealm, vars
  <2> QED
    BY <1>b, <2>1
<1>11. ASSUME NEW c \in Clients, HandlerStep(c)
       PROVE  T
  BY <1>1, <1>2, <1>3, <1>4, <1>5, <1>6, <1>7, <1>9, <1>11 DEF HandlerStep
<1>12. ASSUME NEW c \in scenario.clients,
              \/ \E type \in scenario.uses : ClientSend(c, type)
              \/ Disconnect(c) \/ HandlerStep(c) \/ WriteEvent(c)
       PROVE  T
  BY <1>a, <1>1, <1>8, <1>11, <1>12
<1>13. CASE Next
  BY <1>10, <1>12, <1>13 DEF Next
<1> QED
  BY <1>10, <1>13

-----------------------------------------------------------------------------
(* Answers                                                                 *)

\* What was sent about a request was sent after it was received.
LEMMA SentHandled ==
    ASSUME TypeOK, HandledIds, NEW c \in Clients, NEW type, NEW id, Sent(c, type, id)
    PROVE  id \in Ids /\ Handled(id)
<1>1. PICK i \in DOMAIN outbox[c] : outbox[c][i].id = id
  BY DEF Sent, ToSet
<1>2. outbox[c][i] \in OutMessages
  BY QueueTypes
<1>3. Handled(outbox[c][i].id)
  BY DEF HandledIds
<1> QED
  BY <1>1, <1>2, <1>3 DEF OutMessages

LEMMA AnsweredPut ==
    ASSUME TypeOK, NEW r \in Clients, NEW m \in OutMessages, Put(r, m), NEW id
    PROVE  Answered(id)' <=> Answered(id) \/ (m.type \in Answers /\ m.id = id)
<1>1. Answered(id)' <=> \E c \in Clients : \E type \in Answers : Sent(c, type, id)'
  BY DEF Answered
<1>2. \A c \in Clients : \A type \in Answers :
          Sent(c, type, id)' <=> Sent(c, type, id) \/ (c = r /\ m.type = type /\ m.id = id)
  BY SentPut
<1> QED
  BY <1>1, <1>2 DEF Answered

\* A further answer to its sender, of a request without one, is the only one.
LEMMA AnswersKept ==
    ASSUME TypeOK, OneAnswer,
           \/ UNCHANGED outbox
           \/ \E r \in Clients : \E m \in OutMessages :
                 Put(r, m) /\ (m.type \in Answers => m.id[1] = r /\ ~Answered(m.id))
    PROVE  OneAnswer'
<1>1. CASE UNCHANGED outbox
  BY <1>1 DEF OneAnswer
<1>2. ASSUME NEW r \in Clients, NEW m \in OutMessages, Put(r, m),
             m.type \in Answers => m.id[1] = r /\ ~Answered(m.id)
      PROVE  OneAnswer'
  <2>1. \A c \in Clients : \A i \in DOMAIN outbox'[c] :
            \/ i \in DOMAIN outbox[c] /\ outbox'[c][i] = outbox[c][i]
            \/ c = r /\ i = Len(outbox[c]) + 1 /\ outbox'[c][i] = m
    BY <1>2, PutNew
  <2>2. \A c \in Clients : \A i \in DOMAIN outbox[c] :
            outbox[c][i].type \in Answers => Answered(outbox[c][i].id)
    BY DEF Answered, Sent, ToSet
  <2> SUFFICES ASSUME NEW c \in Clients, NEW i \in DOMAIN outbox'[c],
                      outbox'[c][i].type \in Answers
               PROVE  /\ outbox'[c][i].id[1] = c
                      /\ \A j \in DOMAIN outbox'[c] :
                            outbox'[c][j].type \in Answers /\ outbox'[c][j].id = outbox'[c][i].id
                                => j = i
    BY DEF OneAnswer
  <2>3. outbox'[c][i].id[1] = c
    BY <1>2, <2>1 DEF OneAnswer
  <2>4. ASSUME NEW j \in DOMAIN outbox'[c],
               outbox'[c][j].type \in Answers, outbox'[c][j].id = outbox'[c][i].id
        PROVE  j = i
    <3>1. CASE i \in DOMAIN outbox[c] /\ outbox'[c][i] = outbox[c][i]
      BY <1>2, <2>1, <2>2, <2>4, <3>1 DEF OneAnswer
    <3>2. CASE i = Len(outbox[c]) + 1 /\ outbox'[c][i] = m
      BY <1>2, <2>1, <2>2, <2>4, <3>2
    <3> QED
      BY <2>1, <3>1, <3>2
  <2> QED
    BY <2>3, <2>4
<1> QED
  BY <1>1, <1>2

LEMMA NextAnswers ==
    ASSUME TypeOK, IdInv, Unanswered, OneAnswer, [Next]_vars
    PROVE  Unanswered' /\ OneAnswer'
<1> USE DEF IdInv
<1> DEFINE A(id) == Answered(id)'
           I(d, id) == Sent(d, "INVOCATION", id)'
           U(id, c) ==
               /\ I(c, id) /\ id \notin yielded' => ~A(id)
               /\ \A i \in DOMAIN inbox'[c] :
                     inbox'[c][i].type = "YIELD" /\ inbox'[c][i].ref = id => ~A(id)
               /\ ack'[c] = id => ~A(id) /\ \A d \in Clients : ~I(d, id)
           T == OneAnswer' /\ \A id \in Ids : \A c \in Clients : U(id, c)
<1> SUFFICES T
  BY QueueType, SameIds DEF Unanswered
<1>a. \A c \in Clients : Take(c) =>
          /\ Request(c) = inbox[c][1] /\ 1 \in DOMAIN inbox[c]
          /\ Request(c).id \in Ids /\ Request(c).id[1] = c /\ ~Handled(Request(c).id)
  BY TakenId
<1>b. /\ \A c \in Clients : \A type : \A id : Sent(c, type, id) => Handled(id) /\ id \in Ids
      /\ \A id : Answered(id) => Handled(id)
      /\ \A c \in Clients : ack[c] # NoId => ack[c][1] = c /\ Handled(ack[c]) /\ ack[c] \in Ids
  BY SentHandled, QueueTypes DEF Answered, HandledIds
<1>c. ASSUME UNCHANGED outbox
      PROVE  /\ \A id : A(id) <=> Answered(id)
             /\ \A id : \A d \in Clients : I(d, id) <=> Sent(d, "INVOCATION", id)
             /\ OneAnswer'
  BY <1>c, AnswersKept DEF Answered, Sent
<1>d. ASSUME NEW r \in Clients, NEW m \in OutMessages, Put(r, m)
      PROVE  /\ \A id : A(id) <=> Answered(id) \/ (m.type \in Answers /\ m.id = id)
             /\ \A id : \A d \in Clients : I(d, id) <=>
                   Sent(d, "INVOCATION", id) \/ (d = r /\ m.type = "INVOCATION" /\ m.id = id)
  BY <1>d, AnsweredPut, SentPut
<1>e. \A c \in Clients : \A i \in DOMAIN inbox[c] :
          inbox[c][i].type = "YIELD" =>
              Sent(c, "INVOCATION", inbox[c][i].ref) /\ inbox[c][i].ref \in yielded
  BY DEF RefsKnown
<1>f. \A c \in Clients : \A i \in DOMAIN inbox[c] :
          inbox[c][i].type = "YIELD" => inbox[c][i].ref \in Ids /\ ~Answered(inbox[c][i].ref)
  BY <1>b, <1>e DEF Unanswered
<1> HIDE DEF A, I
<1>1. ASSUME NEW c \in Clients, TakeStep(c)
      PROVE  T
  <2>1. Take(c) /\ UNCHANGED <<yielded, ack>>
    BY <1>1 DEF TakeStep
  <2>2. ASSUME NEW d \in Clients, NEW i \in DOMAIN inbox'[d]
        PROVE  \E k \in DOMAIN inbox[d] : inbox'[d][i] = inbox[d][k] /\ (d = c => k # 1)
    <3>1. /\ i \in Nat
          /\ d = c => i + 1 \in DOMAIN inbox[d] /\ inbox'[d][i] = inbox[d][i + 1]
          /\ d # c => i \in DOMAIN inbox[d] /\ inbox'[d][i] = inbox[d][i]
      BY <2>1, TakeOld
    <3>2. DOMAIN inbox'[d] = 1..Len(inbox'[d])
      BY QueueType
    <3>3. i + 1 # 1
      BY <3>1, <3>2
    <3>4. CASE d = c
      <4>1. PICK k \in DOMAIN inbox[d] : k = i + 1
        BY <3>1, <3>4
      <4>2. inbox'[d][i] = inbox[d][k] /\ k # 1
        BY <3>1, <3>3, <3>4, <4>1
      <4> QED
        BY <4>2
    <3>5. CASE d # c
      BY <3>1, <3>5
    <3> QED
      BY <3>4, <3>5
  <2>5. ASSUME NEW d \in Clients, NEW i \in DOMAIN inbox'[d], inbox'[d][i].type = "YIELD"
        PROVE  /\ Sent(d, "INVOCATION", inbox'[d][i].ref) /\ ~Answered(inbox'[d][i].ref)
               /\ Handled(inbox'[d][i].ref)
               /\ Request(c).type = "YIELD" => inbox'[d][i].ref # Request(c).ref
    <3>1. PICK k \in DOMAIN inbox[d] : inbox'[d][i] = inbox[d][k] /\ (d = c => k # 1)
      BY <2>2
    <3>2. Sent(d, "INVOCATION", inbox[d][k].ref) /\ ~Answered(inbox[d][k].ref)
      BY <1>e, <1>f, <2>5, <3>1
    <3>3. Request(c).type = "YIELD" => inbox[d][k].ref # Request(c).ref
      BY <1>a, <2>1, <2>5, <3>1 DEF RefsKnown
    <3> QED
      BY <1>b, <3>1, <3>2, <3>3
  <2>3. CASE UNCHANGED outbox
    <3>1. ASSUME NEW id \in Ids, NEW d \in Clients
          PROVE  U(id, d)
      <4>1. I(d, id) /\ id \notin yielded' => ~A(id)
        BY <1>c, <2>1, <2>3 DEF Unanswered
      <4>2. \A i \in DOMAIN inbox'[d] :
                inbox'[d][i].type = "YIELD" /\ inbox'[d][i].ref = id => ~A(id)
        BY <1>c, <2>3, <2>5
      <4>3. ack'[d] = id => ~A(id) /\ \A e \in Clients : ~I(e, id)
        BY <1>c, <2>1, <2>3 DEF Unanswered
      <4> QED
        BY <4>1, <4>2, <4>3
    <3> QED
      BY <1>c, <2>3, <3>1
  <2>4. CASE ~UNCHANGED outbox
    <3>1. PICK r \in Clients, m \in OutMessages :
              /\ Put(r, m)
              /\ \/ r = c /\ m.type \in Answers /\ m.id = Request(c).id
                 \/ m.type = "INVOCATION" /\ m.id = Request(c).id
                 \/ /\ Request(c).type = "YIELD"
                    /\ m.type = "RESULT" /\ m.id = Request(c).ref /\ r = m.id[1]
      BY <1>1, <2>4 DEF TakeStep
    <3>2. "INVOCATION" \notin Answers /\ "RESULT" \in Answers
      BY DEF Answers
    <3>3. CASE r = c /\ m.type \in Answers /\ m.id = Request(c).id
      <4>1. ~Handled(m.id) /\ m.id[1] = r
        BY <1>a, <2>1, <3>3
      <4>2. OneAnswer'
        BY <1>b, <3>1, <4>1, AnswersKept
      <4>3. ASSUME NEW id \in Ids, NEW d \in Clients
            PROVE  U(id, d)
        <5>1. I(d, id) /\ id \notin yielded' => ~A(id)
          BY <1>b, <1>d, <2>1, <3>1, <3>2, <3>3, <4>1 DEF Unanswered
        <5>2. \A i \in DOMAIN inbox'[d] :
                  inbox'[d][i].type = "YIELD" /\ inbox'[d][i].ref = id => ~A(id)
          BY <1>d, <2>5, <3>1, <4>1
        <5>3. ack'[d] = id => ~A(id) /\ \A e \in Clients : ~I(e, id)
          <6>1. ack'[d] = id => ack[d] = id /\ Handled(id)
            BY <1>b, <2>1, NoIdNotId
          <6> QED
            BY <1>d, <3>1, <4>1, <6>1 DEF Unanswered
        <5> QED
          BY <5>1, <5>2, <5>3
      <4> QED
        BY <4>2, <4>3
    <3>4. CASE m.type = "INVOCATION" /\ m.id = Request(c).id
      <4>1. ~Handled(m.id)
        BY <1>a, <2>1, <3>4
      <4>2. OneAnswer'
        BY <3>1, <3>2, <3>4, AnswersKept
      <4>3. ASSUME NEW id \in Ids, NEW d \in Clients
            PROVE  U(id, d)
        <5>1. I(d, id) /\ id \notin yielded' => ~A(id)
          BY <1>b, <1>d, <2>1, <3>1, <3>2, <3>4, <4>1 DEF Unanswered
        <5>2. \A i \in DOMAIN inbox'[d] :
                  inbox'[d][i].type = "YIELD" /\ inbox'[d][i].ref = id => ~A(id)
          BY <1>d, <2>5, <3>1, <4>1
        <5>3. ack'[d] = id => ~A(id) /\ \A e \in Clients : ~I(e, id)
          <6>1. ack'[d] = id => ack[d] = id /\ Handled(id)
            BY <1>b, <2>1, NoIdNotId
          <6> QED
            BY <1>d, <3>1, <4>1, <6>1 DEF Unanswered
        <5> QED
          BY <5>1, <5>2, <5>3
      <4> QED
        BY <4>2, <4>3
    <3>5. CASE /\ Request(c).type = "YIELD"
               /\ m.type = "RESULT" /\ m.id = Request(c).ref /\ r = m.id[1]
      <4>1. /\ Sent(c, "INVOCATION", m.id) /\ m.id \in yielded
            /\ ~Answered(m.id) /\ m.id \in Ids
        BY <1>a, <1>b, <1>e, <2>1, <3>5 DEF Unanswered
      <4>2. OneAnswer'
        BY <3>1, <3>5, <4>1, AnswersKept
      <4>4. ASSUME NEW id \in Ids, NEW d \in Clients
            PROVE  U(id, d)
        <5>1. I(d, id) /\ id \notin yielded' => ~A(id)
          BY <1>d, <2>1, <3>1, <3>2, <3>5, <4>1 DEF Unanswered
        <5>2. \A i \in DOMAIN inbox'[d] :
                  inbox'[d][i].type = "YIELD" /\ inbox'[d][i].ref = id => ~A(id)
          BY <1>d, <2>5, <3>1, <3>5
        <5>3. ack'[d] = id => ~A(id) /\ \A e \in Clients : ~I(e, id)
          BY <1>d, <2>1, <3>1, <3>5, <4>1 DEF Unanswered
        <5> QED
          BY <5>1, <5>2, <5>3
      <4> QED
        BY <4>2, <4>4
    <3> QED
      BY <3>1, <3>3, <3>4, <3>5
  <2> QED
    BY <2>3, <2>4
<1>2. ASSUME NEW c \in Clients, PublishStep(c)
      PROVE  T
  <2>1. Take(c) /\ UNCHANGED <<yielded, outbox>>
    BY <1>2 DEF PublishStep
  <2>2. PICK a \in {NoId, Request(c).id} : ack' = [ack EXCEPT ![c] = a]
    BY <1>2 DEF PublishStep
  <2>3. \A d \in Clients : \A i \in DOMAIN inbox'[d] :
            \E k \in DOMAIN inbox[d] : inbox'[d][i] = inbox[d][k]
    BY <2>1, TakeOld
  <2>4. \A d \in Clients : ack'[d] = ack[d] \/ ack'[d] \in {NoId, Request(c).id}
    BY <2>2, QueueTypes
  <2>5. ASSUME NEW id \in Ids, NEW d \in Clients
        PROVE  U(id, d)
    <3>1. /\ I(d, id) /\ id \notin yielded' => ~A(id)
          /\ \A i \in DOMAIN inbox'[d] :
                inbox'[d][i].type = "YIELD" /\ inbox'[d][i].ref = id => ~A(id)
      BY <1>c, <2>1, <2>3 DEF Unanswered
    <3>2. ack'[d] = id => ~A(id) /\ \A e \in Clients : ~I(e, id)
      BY <1>a, <1>b, <1>c, <2>1, <2>4, NoIdNotId DEF Unanswered
    <3> QED
      BY <3>1, <3>2
  <2> QED
    BY <1>c, <2>1, <2>5
<1>3. ASSUME NEW p \in Clients, EventStep(p)
      PROVE  T
  <2>1. UNCHANGED <<inbox, yielded, ack>>
    BY <1>3 DEF EventStep
  <2>2. PICK e \in events[p] : UNCHANGED outbox \/ Put(e.to, Message("EVENT", e.id, NoId))
    BY <1>3 DEF EventStep
  <2> DEFINE m == Message("EVENT", e.id, NoId)
  <2>3. m \in OutMessages /\ m.type = "EVENT" /\ e.to \in Clients
    BY QueueTypes DEF Message, OutMessages
  <2>4. UNCHANGED outbox \/ Put(e.to, m)
    BY <2>2
  <2> HIDE DEF m
  <2>5. m.type \notin Answers /\ m.type # "INVOCATION"
    BY <2>3 DEF Answers
  <2>6. OneAnswer'
    BY <2>3, <2>4, <2>5, AnswersKept
  <2>7. /\ \A id : A(id) <=> Answered(id)
        /\ \A id : \A d \in Clients : I(d, id) <=> Sent(d, "INVOCATION", id)
    BY <1>c, <1>d, <2>3, <2>4, <2>5
  <2>8. \A id \in Ids : \A d \in Clients : U(id, d)
    BY <2>1, <2>7 DEF Unanswered
  <2> QED
    BY <2>6, <2>8
<1>4. ASSUME NEW c \in Clients, AckStep(c)
      PROVE  T
  <2>1. UNCHANGED <<inbox, yielded>> /\ ack' = [ack EXCEPT ![c] = NoId]
    BY <1>4 DEF AckStep
  <2>2. \A d \in Clients : ack'[d] = IF d = c THEN NoId ELSE ack[d]
    BY <2>1, QueueTypes
  <2>3. CASE UNCHANGED outbox
    <3>1. \A id \in Ids : \A d \in Clients : U(id, d)
      BY <1>c, <2>1, <2>2, <2>3, NoIdNotId DEF Unanswered
    <3> QED
      BY <1>c, <2>3, <3>1
  <2>4. CASE ~UNCHANGED outbox
    <3> DEFINE m == Message("PUBLISHED", ack[c], NoId)
    <3>1. ack[c] # NoId /\ Put(c, m)
      BY <1>4, <2>4 DEF AckStep
    <3>2. m \in OutMessages /\ m.type = "PUBLISHED" /\ m.id = ack[c] /\ m.type \in Answers
      BY <3>1, QueueTypes DEF Message, OutMessages, Answers
    <3> HIDE DEF m
    <3>3. /\ ~Answered(m.id) /\ m.id[1] = c /\ m.id \in Ids
          /\ \A d \in Clients : ~Sent(d, "INVOCATION", m.id)
      BY <1>b, <3>1, <3>2 DEF Unanswered
    <3>4. OneAnswer'
      BY <3>1, <3>2, <3>3, AnswersKept
    <3>5. ASSUME NEW id \in Ids, NEW d \in Clients
          PROVE  U(id, d)
      <4>1. I(d, id) /\ id \notin yielded' => ~A(id)
        BY <1>d, <2>1, <3>1, <3>2, <3>3 DEF Unanswered
      <4>2. \A i \in DOMAIN inbox'[d] :
                inbox'[d][i].type = "YIELD" /\ inbox'[d][i].ref = id => ~A(id)
        BY <1>d, <1>e, <2>1, <3>1, <3>2, <3>3 DEF Unanswered
      <4>3. ack'[d] = id => ~A(id) /\ \A e \in Clients : ~I(e, id)
        <5>1. ack'[d] = id => id # m.id
          BY <1>b, <2>2, <3>3, NoIdNotId
        <5> QED
          BY <1>d, <2>2, <3>1, <3>2, <5>1, NoIdNotId DEF Unanswered
      <4> QED
        BY <4>1, <4>2, <4>3
    <3> QED
      BY <3>4, <3>5
  <2> QED
    BY <2>3, <2>4
<1>5. ASSUME NEW c \in Clients, SendStep(c)
      PROVE  T
  <2>1. PICK type \in MessageTypes : ClientSend(c, type)
    BY <1>5 DEF SendStep
  <2>2. PICK ref \in References(c, type) :
            /\ Message(type, <<c, sent[c] + 1>>, ref) \in InMessages
            /\ inbox' = [inbox EXCEPT ![c] = Append(@, Message(type, <<c, sent[c] + 1>>, ref))]
            /\ yielded' = IF type = "YIELD" THEN yielded \cup {ref} ELSE yielded
    BY <2>1, SendEffect
  <2>3. UNCHANGED <<outbox, ack>>
    BY <2>1, SendEffect
  <2>4. type = "YIELD" => ref \in Ids /\ ~Answered(ref)
    BY <2>1, ReferencesType DEF Unanswered
  <2> DEFINE m == Message(type, <<c, sent[c] + 1>>, ref)
  <2>5. m \in InMessages /\ m.type = type /\ m.ref = ref /\ inbox' = [inbox EXCEPT ![c] = Append(@, m)]
    BY <2>2 DEF Message
  <2> HIDE DEF m
  <2>6. \A d \in Clients : \A i \in DOMAIN inbox'[d] :
            \/ i \in DOMAIN inbox[d] /\ inbox'[d][i] = inbox[d][i]
            \/ inbox'[d][i] = m
    BY <2>5, InboxAppend
  <2>7. ASSUME NEW id \in Ids, NEW d \in Clients
        PROVE  U(id, d)
    <3>1. I(d, id) /\ id \notin yielded' => ~A(id)
      BY <1>c, <2>2, <2>3 DEF Unanswered
    <3>2. \A i \in DOMAIN inbox'[d] :
              inbox'[d][i].type = "YIELD" /\ inbox'[d][i].ref = id => ~A(id)
      BY <1>c, <2>3, <2>4, <2>5, <2>6 DEF Unanswered
    <3>3. ack'[d] = id => ~A(id) /\ \A e \in Clients : ~I(e, id)
      BY <1>c, <2>3 DEF Unanswered
    <3> QED
      BY <3>1, <3>2, <3>3
  <2> QED
    BY <1>c, <2>3, <2>7
<1>6. CASE QuietStep
  <2>1. UNCHANGED <<inbox, yielded, outbox, ack>>
    BY <1>6 DEF QuietStep
  <2>2. \A id \in Ids : \A d \in Clients : U(id, d)
    BY <1>c, <2>1 DEF Unanswered
  <2> QED
    BY <1>c, <2>1, <2>2
<1> HIDE DEF T
<1> QED
  BY <1>1, <1>2, <1>3, <1>4, <1>5, <1>6, StepKinds

-----------------------------------------------------------------------------
(* Events                                                                  *)

LEMMA NextEvents ==
    ASSUME TypeOK, IdInv, EventsLast, EventsInOrder, AckAfterEvents, [Next]_vars
    PROVE  EventsLast' /\ EventsInOrder' /\ AckAfterEvents'
<1> USE DEF IdInv
<1> DEFINE L(p, e) ==
               /\ \A f \in events'[p] : f.id = e.id
               /\ \A i \in DOMAIN outbox'[e.to] :
                     outbox'[e.to][i].type = "EVENT" /\ outbox'[e.to][i].id[1] = p =>
                         outbox'[e.to][i].id[2] < e.id[2]
           Newest == \A p \in Clients : \A e \in events'[p] : L(p, e)
           Acks == \A c \in Clients : \A id \in Ids :
                       Sent(c, "PUBLISHED", id)' => \A p \in Clients : \A e \in events'[p] : e.id # id
           T == Newest /\ EventsInOrder' /\ Acks
<1> SUFFICES T
  BY QueueType, SameIds DEF EventsLast, AckAfterEvents
<1>a. \A p \in Clients : \A e \in events[p] : e.to \in Clients /\ e.id \in Ids /\ e.id[1] = p
  BY QueueTypes DEF HandledIds
<1>b. /\ \A c \in Clients : \A type : \A id : Sent(c, type, id) => Handled(id) /\ id \in Ids
      /\ \A p \in Clients : \A e \in events[p] : Handled(e.id)
  BY SentHandled DEF HandledIds
<1>c. ASSUME UNCHANGED <<outbox, events>>
      PROVE  T
  BY <1>c DEF EventsLast, EventsInOrder, AckAfterEvents, Sent
<1>d. ASSUME NEW r \in Clients, NEW m \in OutMessages, Put(r, m), m.type # "EVENT"
      PROVE  /\ EventsInOrder'
             /\ \A c \in Clients : \A i \in DOMAIN outbox'[c] : outbox'[c][i].type = "EVENT" =>
                   i \in DOMAIN outbox[c] /\ outbox'[c][i] = outbox[c][i]
  BY <1>d, PutNew DEF EventsInOrder
<1>1. ASSUME NEW c \in Clients, TakeStep(c)
      PROVE  T
  <2>1. UNCHANGED events
    BY <1>1 DEF TakeStep
  <2>2. CASE ~UNCHANGED outbox
    <3>1. PICK r \in Clients, m \in OutMessages :
              /\ Put(r, m)
              /\ m.type \in Answers \cup {"INVOCATION"}
              /\ m.type = "PUBLISHED" => m.id = Request(c).id
      BY <1>1, <2>2 DEF TakeStep, Answers
    <3>2. m.type # "EVENT"
      BY <3>1 DEF Answers
    <3>3. ~Handled(Request(c).id)
      BY <1>1, TakenId DEF TakeStep
    <3>4. Newest
      BY <1>a, <1>d, <2>1, <3>1, <3>2 DEF EventsLast
    <3>5. Acks
      BY <1>b, <2>1, <3>1, <3>3, SentPut DEF AckAfterEvents
    <3> QED
      BY <1>d, <3>1, <3>2, <3>4, <3>5
  <2> QED
    BY <1>c, <2>1, <2>2
<1>2. ASSUME NEW c \in Clients, PublishStep(c)
      PROVE  T
  <2> DEFINE q == Request(c).id
  <2>1. UNCHANGED outbox
    BY <1>2 DEF PublishStep
  <2>2. q \in Ids /\ q[1] = c /\ ~Handled(q)
    BY <1>2, TakenId DEF PublishStep
  <2>3. PICK R \in SUBSET Clients :
            events' = [events EXCEPT ![c] = {[to |-> r, id |-> q] : r \in R}]
    BY <1>2 DEF PublishStep
  <2> HIDE DEF q
  <2>4. /\ \A p \in Clients \ {c} : events'[p] = events[p]
        /\ \A e \in events'[c] : e.id = q /\ e.to \in Clients
    BY <2>3, QueueTypes
  <2>5. \A d \in Clients : \A i \in DOMAIN outbox[d] :
            outbox[d][i].id[1] = c => outbox[d][i].id[2] < q[2]
    <3> SUFFICES ASSUME NEW d \in Clients, NEW i \in DOMAIN outbox[d], outbox[d][i].id[1] = c
                 PROVE  outbox[d][i].id[2] < q[2]
      OBVIOUS
    <3>1. PICK id \in Ids : id = outbox[d][i].id
      BY QueueTypes DEF OutMessages
    <3>2. Handled(id) /\ id[1] = c
      BY <3>1 DEF HandledIds
    <3>3. PICK n \in Nat, l \in Nat, k \in Nat, j \in Nat :
              n = sent[c] /\ l = Len(inbox[c]) /\ k = id[2] /\ j = q[2]
      BY <2>2, IdParts, QueueTypes
    <3>4. k + l <= n /\ ~(j + l <= n)
      BY <2>2, <3>2, <3>3 DEF Handled
    <3>5. k < j
      BY <3>4
    <3> QED
      BY <3>1, <3>3, <3>5
  <2>6. Newest
    <3> SUFFICES ASSUME NEW p \in Clients, NEW e \in events'[p]
                 PROVE  L(p, e)
      OBVIOUS
    <3>1. CASE p = c
      BY <2>1, <2>4, <2>5, <3>1
    <3>2. CASE p # c
      BY <1>a, <2>1, <2>4, <3>2 DEF EventsLast
    <3> QED
      BY <3>1, <3>2
  <2>7. Acks
    <3>1. \A d \in Clients : \A id : Sent(d, "PUBLISHED", id)' <=> Sent(d, "PUBLISHED", id)
      BY <2>1 DEF Sent
    <3> QED
      BY <1>b, <2>2, <2>4, <3>1 DEF AckAfterEvents
  <2>8. EventsInOrder'
    BY <2>1 DEF EventsInOrder
  <2> QED
    BY <2>6, <2>7, <2>8
<1>3. ASSUME NEW p \in Clients, EventStep(p)
      PROVE  T
  <2>1. PICK e \in events[p] :
            /\ events' = [events EXCEPT ![p] = @ \ {e}]
            /\ UNCHANGED outbox \/ Put(e.to, Message("EVENT", e.id, NoId))
    BY <1>3 DEF EventStep
  <2>2. /\ \A o \in Clients : \A f \in events'[o] : f \in events[o]
        /\ e \notin events'[p]
    BY <2>1, QueueTypes
  <2>3. CASE UNCHANGED outbox
    <3>1. EventsInOrder'
      BY <2>3 DEF EventsInOrder
    <3>2. Acks
      BY <2>2, <2>3 DEF AckAfterEvents, Sent
    <3>3. Newest
      BY <2>2, <2>3 DEF EventsLast
    <3> QED
      BY <3>1, <3>2, <3>3
  <2>4. CASE ~UNCHANGED outbox
    <3> DEFINE m == Message("EVENT", e.id, NoId)
               r == e.to
    <3>1. /\ m \in OutMessages /\ m.type = "EVENT" /\ m.id = e.id /\ m.id[1] = p
          /\ r \in Clients /\ Put(r, m)
      BY <1>a, <2>1, <2>4 DEF Message, OutMessages
    <3> HIDE DEF m
    <3>2. /\ \A c \in Clients : \A i \in DOMAIN outbox'[c] :
                \/ i \in DOMAIN outbox[c] /\ outbox'[c][i] = outbox[c][i]
                \/ c = r /\ i = Len(outbox[c]) + 1 /\ outbox'[c][i] = m
          /\ \A i \in DOMAIN outbox[r] : i < Len(outbox[r]) + 1
      BY <3>1, PutNew, QueueTypes
    <3>3. \A i \in DOMAIN outbox[r] :
              outbox[r][i].type = "EVENT" /\ outbox[r][i].id[1] = p => outbox[r][i].id[2] < m.id[2]
      BY <3>1 DEF EventsLast
    <3>4. EventsInOrder'
      <4> SUFFICES ASSUME NEW c \in Clients, NEW i \in DOMAIN outbox'[c],
                          NEW j \in DOMAIN outbox'[c], i < j,
                          outbox'[c][i].type = "EVENT", outbox'[c][j].type = "EVENT",
                          outbox'[c][i].id[1] = outbox'[c][j].id[1]
                   PROVE  outbox'[c][i].id[2] < outbox'[c][j].id[2]
        BY DEF EventsInOrder
      <4>1. CASE j \in DOMAIN outbox[c] /\ outbox'[c][j] = outbox[c][j]
        <5>1. i \in DOMAIN outbox[c] /\ outbox'[c][i] = outbox[c][i]
          <6>1. Len(outbox[c]) \in Nat /\ DOMAIN outbox[c] = 1..Len(outbox[c])
            BY QueueTypes
          <6>2. i # Len(outbox[c]) + 1
            BY <4>1, <6>1
          <6> QED
            BY <3>2, <6>2
        <5> QED
          BY <4>1, <5>1 DEF EventsInOrder
      <4>2. CASE c = r /\ j = Len(outbox[c]) + 1 /\ outbox'[c][j] = m
        <5>1. i \in DOMAIN outbox[c] /\ outbox'[c][i] = outbox[c][i]
          <6>1. Len(outbox[c]) \in Nat
            BY QueueTypes
          <6>2. i # Len(outbox[c]) + 1
            BY <4>2, <6>1
          <6> QED
            BY <3>2, <6>2
        <5> QED
          BY <3>1, <3>3, <4>2, <5>1
      <4> QED
        BY <3>2, <4>1, <4>2
    <3>5. Newest
      <4> SUFFICES ASSUME NEW o \in Clients, NEW f \in events'[o]
                   PROVE  L(o, f)
        OBVIOUS
      <4>1. f \in events[o] /\ f.to \in Clients /\ f \in [to : Clients, id : Ids]
        BY <1>a, <2>2, QueueTypes
      <4>2. \A g \in events'[o] : g.id = f.id
        BY <2>2, <4>1 DEF EventsLast
      <4>3. o = p => f.to # r
        <5>1. ASSUME o = p, f.to = r
              PROVE  FALSE
          <6>1. f.id = e.id
            BY <4>1, <5>1 DEF EventsLast
          <6>2. e \in [to : Clients, id : Ids]
            BY QueueTypes
          <6>3. f = e
            BY <4>1, <5>1, <6>1, <6>2
          <6> QED
            BY <2>2, <5>1, <6>3
        <5> QED
          BY <5>1
      <4>4. ASSUME NEW i \in DOMAIN outbox'[f.to],
                   outbox'[f.to][i].type = "EVENT", outbox'[f.to][i].id[1] = o
            PROVE  outbox'[f.to][i].id[2] < f.id[2]
        <5>1. i \in DOMAIN outbox[f.to] /\ outbox'[f.to][i] = outbox[f.to][i]
          BY <3>1, <3>2, <4>1, <4>3, <4>4
        <5> QED
          BY <4>1, <4>4, <5>1 DEF EventsLast
      <4> QED
        BY <4>2, <4>4
    <3>6. Acks
      BY <2>2, <3>1, SentPut DEF AckAfterEvents
    <3> QED
      BY <3>4, <3>5, <3>6
  <2> QED
    BY <2>3, <2>4
<1>4. ASSUME NEW c \in Clients, AckStep(c)
      PROVE  T
  <2>1. UNCHANGED events
    BY <1>4 DEF AckStep
  <2>2. CASE ~UNCHANGED outbox
    <3> DEFINE m == Message("PUBLISHED", ack[c], NoId)
    <3>1. ack[c] # NoId /\ events[c] = {} /\ Put(c, m)
      BY <1>4, <2>2 DEF AckStep
    <3>2. m \in OutMessages /\ m.type = "PUBLISHED" /\ m.id[1] = c
      BY <3>1, QueueTypes DEF Message, OutMessages, Answers, HandledIds
    <3> HIDE DEF m
    <3>3. Newest
      BY <1>a, <1>d, <2>1, <3>1, <3>2 DEF EventsLast
    <3>4. Acks
      <4>1. \A p \in Clients : \A e \in events[p] : e.id # m.id
        BY <1>a, <3>1, <3>2
      <4> QED
        BY <2>1, <3>1, <3>2, <4>1, SentPut DEF AckAfterEvents
    <3> QED
      BY <1>d, <3>1, <3>2, <3>3, <3>4
  <2> QED
    BY <1>c, <2>1, <2>2
<1>5. (\E c \in Clients : SendStep(c)) \/ QuietStep => UNCHANGED <<outbox, events>>
  BY SendEffect DEF SendStep, QuietStep
<1> HIDE DEF T
<1> QED
  BY <1>c, <1>1, <1>2, <1>3, <1>4, <1>5, StepKinds

-----------------------------------------------------------------------------
(* The theorems                                                            *)

LEMMA InitInv == Init => IInv
<1> SUFFICES ASSUME Init
             PROVE  IInv
  OBVIOUS
<1>1. scenario.sends \in Nat
  BY ScenarioType DEF Init
<1>2. TypeOK
  BY <1>1 DEF Init, TypeOK
<1>3. \A c \in Clients : \A type : \A id : ~Sent(c, type, id)
  BY DEF Init, Sent, ToSet
<1>4. IdInv
  BY <1>1 DEF Init, IdInv, InboxIds, HandledIds, RefsKnown
<1>5. Attached /\ Registered /\ NoneUnknown /\ Waiting
  BY DEF Init, Attached, Registered, NoneUnknown, Waiting
<1>6. Unanswered
  BY <1>3, NoIdNotId DEF Init, Unanswered
<1>7. EventsLast /\ AckAfterEvents /\ EventsInOrder
  BY DEF Init, EventsLast, AckAfterEvents, EventsInOrder
<1>8. InvocationWhileRegistered /\ OneAnswer
  BY DEF Init, InvocationWhileRegistered, OneAnswer
<1> QED
  BY <1>2, <1>4, <1>5, <1>6, <1>7, <1>8 DEF IInv

LEMMA NextInv ==
    ASSUME IInv, [Next]_vars
    PROVE  IInv'
<1> USE DEF IInv
<1>1. TypeOK'
  BY NextType DEF IdInv
<1>2. IdInv'
  BY NextInboxIds, NextHandledIds, NextRefsKnown DEF IdInv
<1>3. Attached' /\ NoneUnknown'
  BY NextAttached DEF IdInv
<1>0. Waiting'
  BY NextWaiting
<1>4. Registered' /\ InvocationWhileRegistered'
  BY NextRegistered
<1>5. Unanswered' /\ OneAnswer'
  BY NextAnswers
<1>6. EventsLast' /\ EventsInOrder' /\ AckAfterEvents'
  BY NextEvents
<1> QED
  BY <1>0, <1>1, <1>2, <1>3, <1>4, <1>5, <1>6

LEMMA RealmInv == Spec => []IInv
<1>1. Init => IInv
  BY InitInv
<1>2. IInv /\ [Next]_vars => IInv'
  BY NextInv
<1> QED
  BY <1>1, <1>2, PTL DEF Spec

\* Every variable of the router keeps its type.
THEOREM RealmTypeOK == Spec => []TypeOK
<1>1. IInv => TypeOK
  BY DEF IInv
<1> QED
  BY <1>1, RealmInv, PTL

\* The realm knows whoever may have to be written to, but for the caller of a call that
\* waits, whose connection is then closed.
THEOREM RealmRecipientsKnown == Spec => []RecipientsKnown
<1>1. IInv => RecipientsKnown
  BY DEF IInv, RecipientsKnown, Attached, NoneUnknown, Waiting
<1> QED
  BY <1>1, RealmInv, PTL

\* A publication is acknowledged when nothing of it remains to be written.
THEOREM RealmAckAfterEvents == Spec => []AckAfterEvents
<1>1. IInv => AckAfterEvents
  BY DEF IInv
<1> QED
  BY <1>1, RealmInv, PTL

\* A subscriber gets a publisher's events once and in order.
THEOREM RealmEventsInOrder == Spec => []EventsInOrder
<1>1. IInv => EventsInOrder
  BY DEF IInv
<1> QED
  BY <1>1, RealmInv, PTL

\* A callee is asked only while it has the registration.
THEOREM RealmInvocationWhileRegistered == Spec => []InvocationWhileRegistered
<1>1. IInv => InvocationWhileRegistered
  BY DEF IInv
<1> QED
  BY <1>1, RealmInv, PTL

\* A request is answered at most once, to its sender.
THEOREM RealmOneAnswer == Spec => []OneAnswer
<1>1. IInv => OneAnswer
  BY DEF IInv
<1> QED
  BY <1>1, RealmInv, PTL

\* A handler that crashes has lost the realm or some connection, or has received a
\* malformed message from its own client.
THEOREM RealmCrashNeedsLoss == Spec => CrashNeedsLoss
<1> DEFINE A == \A c \in Clients :
                    handler[c] # "crashed" /\ handler'[c] = "crashed" =>
                        \/ realm = "removed"
                        \/ \E d \in Clients : conn[d] = "closed"
                        \/ inbox[c] # <<>> /\ Request(c).type = "MALFORMED"
<1>1. IInv /\ [Next]_vars => [A]_vars
  BY NextCrash DEF IInv
<1> QED
  BY <1>1, RealmInv, PTL DEF Spec, CrashNeedsLoss
=============================================================================
