--------------------------- MODULE SessionProofs ---------------------------
(*************************************************************************)
(* For any number of calls, pushes and workers: the synchronous session  *)
(* keeps its types, the answer a call gets is the router's to that call, *)
(* a call that waits has its entry, an id that is open has a handler of  *)
(* a call that got it, the receive loop survives what a router that      *)
(* follows the protocol may send, handlers are dropped only with the     *)
(* connection, and the session implements the promise of SessionPromise. *)
(*************************************************************************)
EXTENDS SessionPromise, SequenceTheorems, TLAPS

\* The ids of two calls differ, and none is beyond the generator's.
IdsDistinct ==
    /\ \A o \in Ops : rid[o] <= idgen
    /\ \A o, p \in Ops : rid[o] # 0 /\ rid[o] = rid[p] => o = p

\* A call on its way to the transport has an id, or is a leave().
IdTaken ==
    \A o \in Ops :
        /\ pc[o] \in {"allocated", "stored"} => rid[o] # 0
        /\ pc[o] = "leaving" => kind[o] = "leave"

\* What the router got was sent by a call that runs or ran, under its id.
SentByCalls ==
    \A o \in toRouter : pc[o] # "idle" /\ (kind[o] = "leave" \/ rid[o] # 0)

\* An entry of the dictionaries is under the key of the call that stored it.
EntryKeys ==
    \A k \in Keys : requests[k] # NoOp =>
        /\ pc[requests[k]] # "idle"
        /\ k = <<kind[requests[k]], rid[requests[k]]>>

\* An answer on its way carries the key of the call it answers.
AnswerKeys ==
    \A i \in 1..Len(fromRouter) : fromRouter[i].type = "reply" =>
        /\ pc[fromRouter[i].op] # "idle"
        /\ fromRouter[i].key = <<kind[fromRouter[i].op], rid[fromRouter[i].op]>>

KeyInv == IdsDistinct /\ IdTaken /\ SentByCalls /\ EntryKeys /\ AnswerKeys

IInv == TypeOK /\ KeyInv /\ Correlation

-----------------------------------------------------------------------------
(* Types                                                                   *)

\* The inductive invariant holds at the start.
LEMMA InitInv == Init => IInv
<1> SUFFICES ASSUME Init
             PROVE  TypeOK /\ KeyInv /\ Correlation
  BY DEF IInv
<1> USE PeerAssumption DEF Init, PeerInit
<1>1. PeerTypeOK
  <2>1. kind \in [Ops -> Kinds]
    BY DEF Kinds, ReplyKinds
  <2>2. push \in [Pushes -> [handle : Ops \cup {NoOp}, late : BOOLEAN]]
    BY DEF NoPush
  <2>3. fromRouter \in Seq(Messages)
    OBVIOUS
  <2>4. rid \in [Ops -> 0..IdMax] /\ target \in [Ops -> Ops \cup {NoOp}]
    OBVIOUS
  <2>5. toRouter \subseteq Ops /\ live \subseteq Ops
    OBVIOUS
  <2>6. link \in {"up", "down"} /\ goodbyeSent \in BOOLEAN
    OBVIOUS
  <2> HIDE DEF Init, PeerInit
  <2> QED
    BY <2>1, <2>2, <2>3, <2>4, <2>5, <2>6 DEF PeerTypeOK
<1>2. TypeOK
  BY <1>1 DEF TypeOK, Unset
<1>3. KeyInv
  BY DEF KeyInv, IdsDistinct, IdTaken, SentByCalls, EntryKeys, AnswerKeys
<1>4. Correlation
  BY DEF Correlation, Resolved, Unset
<1> QED
  BY <1>2, <1>3, <1>4

\* What the router does keeps the types.
LEMMA PeerType ==
    ASSUME PeerTypeOK, SentByCalls, PeerNext
    PROVE  PeerTypeOK'
<1> USE PeerAssumption DEF PeerTypeOK, requestVars, routerVars
<1>1. ASSUME NEW o \in Ops, RouterAccept(o)
      PROVE  PeerTypeOK'
  <2>1. PICK h \in AnswerHandles(o) :
             /\ fromRouter' = Append(fromRouter, Reply(o, TRUE, h))
             /\ live' = LiveAfter(o, h)
    BY <1>1 DEF RouterAccept
  <2>2. h \in Ops \cup {NoOp} /\ (kind[o] \in OpenKinds => h \in Ops)
    BY <2>1 DEF AnswerHandles, OpenKinds
  <2>3. <<kind[o], rid[o]>> \in Keys
    BY <1>1 DEF RouterAccept, SentByCalls, Keys, ReplyKinds
  <2>4. Reply(o, TRUE, h) \in Messages
    BY <2>2, <2>3 DEF Reply, Messages
  <2>5. live' \subseteq Ops
    BY <2>1, <2>2 DEF LiveAfter
  <2>6. fromRouter' \in Seq(Messages)
    BY <2>1, <2>4, AppendProperties
  <2> QED
    BY <1>1, <2>5, <2>6 DEF RouterAccept
<1>2. ASSUME NEW o \in Ops, RouterRefuse(o)
      PROVE  PeerTypeOK'
  <2>1. <<kind[o], rid[o]>> \in Keys
    BY <1>2 DEF RouterRefuse, SentByCalls, Keys, ReplyKinds
  <2>2. Reply(o, FALSE, NoOp) \in Messages
    BY <2>1 DEF Reply, Messages
  <2>3. fromRouter' \in Seq(Messages)
    BY <1>2, <2>2, AppendProperties DEF RouterRefuse
  <2> QED
    BY <1>2, <2>3 DEF RouterRefuse
<1>3. ASSUME NEW n \in Pushes, RouterPush(n)
      PROVE  PeerTypeOK'
  <2>1. Pushed(n) \in Messages
    BY DEF Pushed, Messages
  <2> QED
    BY <1>3, <2>1 DEF RouterPush
<1>4. ASSUME RouterGoodbye
      PROVE  PeerTypeOK'
  <2>1. Goodbye \in Messages
    BY DEF Messages
  <2> QED
    BY <1>4, <2>1 DEF RouterGoodbye
<1>5. ASSUME LinkDown
      PROVE  PeerTypeOK'
  BY <1>5 DEF LinkDown
<1> QED
  BY <1>1, <1>2, <1>3, <1>4, <1>5 DEF PeerNext, RouterAnswers

\* What the user threads do keeps the types.
LEMMA UserType ==
    ASSUME TypeOK, NEW o \in Ops, UserStep(o)
    PROVE  TypeOK'
<1> USE PeerAssumption
    DEF TypeOK, PeerTypeOK, requestVars, netVars, routerVars, dictVars, leaveVars
<1>1. ASSUME NEW k \in Kinds, Issue(o, k)
      PROVE  TypeOK'
  BY <1>1 DEF Issue, NextId
<1>2. ASSUME NEW k \in Kinds, IssueClose(o, k)
      PROVE  TypeOK'
  <2>1. PICK p \in Ops : target' = [target EXCEPT ![o] = future[p].handle]
    BY <1>2 DEF IssueClose
  <2>2. future[p].handle \in Ops \cup {NoOp}
    OBVIOUS
  <2> QED
    BY <1>2, <2>1, <2>2 DEF IssueClose, NextId
<1>3. ASSUME NEW k \in Kinds, RefuseClose(o, k)
      PROVE  TypeOK'
  BY <1>3 DEF RefuseClose
<1>4. ASSUME Store(o)
      PROVE  TypeOK'
  BY <1>4 DEF Store
<1>5. ASSUME Send(o)
      PROVE  TypeOK'
  <2>1. connected' \in BOOLEAN
    BY <1>5 DEF Send
  <2>2. toRouter' \subseteq Ops /\ link' \in {"up", "down"}
    BY <1>5 DEF Send, Transmit
  <2>3. pc' \in [Ops -> {"idle", "allocated", "stored", "waiting", "returned", "raised",
                       "leaving", "goodbye"}]
    <3>1. PICK to \in {"waiting", "raised"} : pc' = [pc EXCEPT ![o] = to]
      BY <1>5 DEF Send
    <3> QED
      BY <3>1
  <2> QED
    BY <1>5, <2>1, <2>2, <2>3 DEF Send
<1>6. ASSUME SendUnacknowledged(o)
      PROVE  TypeOK'
  <2>1. connected' \in BOOLEAN
    BY <1>6 DEF SendUnacknowledged
  <2>2. toRouter' \subseteq Ops /\ link' \in {"up", "down"}
    BY <1>6 DEF SendUnacknowledged
  <2>3. pc' \in [Ops -> {"idle", "allocated", "stored", "waiting", "returned", "raised",
                       "leaving", "goodbye"}]
    <3>1. PICK to \in {"returned", "raised"} : pc' = [pc EXCEPT ![o] = to]
      BY <1>6 DEF SendUnacknowledged
    <3> QED
      BY <3>1
  <2> QED
    BY <1>6, <2>1, <2>2, <2>3 DEF SendUnacknowledged
<1>7. ASSUME Return(o)
      PROVE  TypeOK'
  BY <1>7 DEF Return
<1>8. ASSUME LeaveBegin(o)
      PROVE  TypeOK'
  BY <1>8 DEF LeaveBegin, Kinds
<1>9. ASSUME LeaveSend(o)
      PROVE  TypeOK'
  <2>1. connected' \in BOOLEAN
    BY <1>9 DEF LeaveSend
  <2>2. toRouter' \subseteq Ops /\ link' \in {"up", "down"}
    BY <1>9 DEF LeaveSend, Transmit
  <2>3. pc' \in [Ops -> {"idle", "allocated", "stored", "waiting", "returned", "raised",
                       "leaving", "goodbye"}]
    <3>1. PICK to \in {"goodbye", "raised"} : pc' = [pc EXCEPT ![o] = to]
      BY <1>9 DEF LeaveSend
    <3> QED
      BY <3>1
  <2> QED
    BY <1>9, <2>1, <2>2, <2>3 DEF LeaveSend
<1>10. ASSUME LeaveWait(o)
       PROVE  TypeOK'
  BY <1>10 DEF LeaveWait
<1>11. ASSUME LeaveReturn(o)
       PROVE  TypeOK'
  <2>1. connected' \in BOOLEAN
    BY <1>11 DEF LeaveReturn, Close
  <2>2. toRouter' \subseteq Ops /\ link' \in {"up", "down"}
    BY <1>11 DEF LeaveReturn, Close
  <2>3. pc' \in [Ops -> {"idle", "allocated", "stored", "waiting", "returned", "raised",
                       "leaving", "goodbye"}]
    <3>1. PICK to \in {"returned", "raised"} : pc' = [pc EXCEPT ![o] = to]
      BY <1>11 DEF LeaveReturn
    <3> QED
      BY <3>1
  <2> QED
    BY <1>11, <2>1, <2>2, <2>3 DEF LeaveReturn, Close
<1> QED
  BY <1>1, <1>2, <1>3, <1>4, <1>5, <1>6, <1>7, <1>8, <1>9, <1>10, <1>11, SessionAssumption
  DEF UserStep

\* What the reader thread does keeps the types.
LEMMA ReaderType ==
    ASSUME TypeOK, ReaderStep
    PROVE  TypeOK'
<1> USE PeerAssumption
    DEF TypeOK, PeerTypeOK, requestVars, netVars, routerVars, dictVars, leaveVars
<1>1. ASSUME fromRouter # <<>>, fromRouter' = Tail(fromRouter)
      PROVE  /\ Head(fromRouter) \in Messages
             /\ fromRouter' \in Seq(Messages)
  BY <1>1, HeadTailProperties
<1>2. CASE ReaderCheck
  BY <1>2 DEF ReaderCheck
<1>3. CASE ReaderReply
  <2> DEFINE m == Head(fromRouter)
             o == requests[m.key]
  <2>1. /\ m \in Messages /\ m.type = "reply"
        /\ fromRouter' \in Seq(Messages)
    BY <1>1, <1>3 DEF ReaderReply, Receive
  <2>2. m.key \in Keys /\ m.op \in Ops /\ m.ok \in BOOLEAN /\ m.handle \in Ops \cup {NoOp}
    BY <2>1 DEF Messages, Goodbye
  <2>3. o \in Ops \cup {NoOp}
    BY <2>2
  <2>4. requests' \in [Keys -> Ops \cup {NoOp}]
    BY <1>3 DEF ReaderReply
  <2>5. CASE KeyErrorOn(m, o)
    BY <1>3, <2>1, <2>4, <2>5 DEF ReaderReply
  <2>6. CASE ~KeyErrorOn(m, o)
    <3>1. o \in Ops
      BY <2>3, <2>6 DEF KeyErrorOn
    <3>2. EndpointsAfter(m, o) \in [Ops -> Ops \cup {NoOp}]
      BY <3>1 DEF EndpointsAfter
    <3>3. /\ endpoints' = EndpointsAfter(m, o)
          /\ future' = [future EXCEPT ![o] = [op |-> m.op, ok |-> m.ok, handle |-> m.handle]]
          /\ reader' = "check"
      BY <1>3, <2>6 DEF ReaderReply, FutureAfter
    <3>4. future' \in [Ops -> [op : Ops \cup {NoOp}, ok : BOOLEAN, handle : Ops \cup {NoOp}]]
      BY <2>2, <3>3
    <3> QED
      BY <1>3, <2>1, <2>4, <3>2, <3>3, <3>4 DEF ReaderReply
  <2> QED
    BY <2>5, <2>6
<1>4. CASE ReaderDispatch
  <2>1. fromRouter' \in Seq(Messages)
    BY <1>1, <1>4 DEF ReaderDispatch, Receive
  <2> QED
    BY <1>4, <2>1 DEF ReaderDispatch
<1>5. CASE ReaderUnhandled
  <2>1. fromRouter' \in Seq(Messages)
    BY <1>1, <1>5 DEF ReaderUnhandled, Receive
  <2> QED
    BY <1>5, <2>1 DEF ReaderUnhandled
<1>6. CASE ReaderGoodbye
  <2>1. fromRouter' \in Seq(Messages)
    BY <1>1, <1>6 DEF ReaderGoodbye, Receive
  <2> QED
    BY <1>6, <2>1 DEF ReaderGoodbye
<1>7. CASE ReaderError
  BY <1>7, SessionAssumption DEF ReaderError
<1>8. CASE ReaderShutdown
  BY <1>8 DEF ReaderShutdown, Cancelled
<1>9. CASE ReaderStop
  BY <1>9 DEF ReaderStop
<1> QED
  BY <1>2, <1>3, <1>4, <1>5, <1>6, <1>7, <1>8, <1>9 DEF ReaderStep

\* What the callback, the workers and the WebSocket library do keeps the types.
LEMMA PoolType ==
    ASSUME TypeOK,
           \/ RegisterCallback \/ CallbackFinish \/ WebSocketNotices
           \/ \E n \in Pushes : WorkerStart(n) \/ WorkerFinish(n)
    PROVE  TypeOK'
<1> USE DEF TypeOK, PeerTypeOK, requestVars, netVars, routerVars, dictVars, leaveVars
<1>1. ASSUME RegisterCallback \/ CallbackFinish
      PROVE  TypeOK'
  BY <1>1 DEF RegisterCallback, CallbackFinish
<1>2. ASSUME WebSocketNotices
      PROVE  TypeOK'
  BY <1>2 DEF WebSocketNotices
<1>3. ASSUME NEW n \in Pushes, WorkerStart(n)
      PROVE  TypeOK'
  BY <1>3 DEF WorkerStart
<1>4. ASSUME NEW n \in Pushes, WorkerFinish(n)
      PROVE  TypeOK'
  <2>1. PICK how \in {"done", "unanswered"} : task' = [task EXCEPT ![n] = how]
    BY <1>4 DEF WorkerFinish
  <2>2. connected' \in BOOLEAN
    BY <1>4 DEF WorkerFinish
  <2>3. UNCHANGED <<idgen, pc, requestVars, dictVars, leaveVars, reader, callback, netVars>>
    BY <1>4 DEF WorkerFinish
  <2> QED
    BY <2>1, <2>2, <2>3
<1> HIDE DEF TypeOK
<1> QED
  BY <1>1, <1>2, <1>3, <1>4

LEMMA NextType ==
    ASSUME TypeOK, SentByCalls, [Next]_vars
    PROVE  TypeOK'
<1>1. CASE PeerNext /\ UNCHANGED localVars
  <2>1. PeerTypeOK'
    BY <1>1, PeerType DEF TypeOK
  <2> QED
    BY <1>1, <2>1 DEF TypeOK, localVars, dictVars, leaveVars
<1>2. CASE UNCHANGED vars
  BY <1>2 DEF TypeOK, PeerTypeOK, vars, localVars, dictVars, leaveVars, peerVars,
              requestVars, netVars, routerVars
<1> QED
  BY <1>1, <1>2, UserType, ReaderType, PoolType DEF Next

-----------------------------------------------------------------------------
(* Keys                                                                    *)

\* A step that issues no id, stores nothing and makes the router say nothing keeps
\* the keys in order.
LEMMA KeyFrame ==
    ASSUME TypeOK, KeyInv, UNCHANGED <<idgen, rid>>,
           \A o \in Ops : pc[o] # "idle" => pc'[o] # "idle" /\ kind'[o] = kind[o],
           \A o \in Ops : pc'[o] \in {"allocated", "stored"} =>
                             pc[o] \in {"allocated", "stored"},
           \A o \in Ops : pc'[o] = "leaving" => pc[o] = "leaving" \/ kind'[o] = "leave",
           \A k \in Keys : requests'[k] \in {requests[k], NoOp},
           \A o \in toRouter' :
               \/ o \in toRouter
               \/ o \in Ops /\ pc'[o] # "idle" /\ (kind'[o] = "leave" \/ rid[o] # 0),
           \/ fromRouter' = fromRouter
           \/ fromRouter # <<>> /\ fromRouter' = Tail(fromRouter)
    PROVE  KeyInv'
<1> USE DEF KeyInv, TypeOK, PeerTypeOK
<1>1. IdsDistinct' /\ IdTaken'
  BY DEF IdsDistinct, IdTaken
<1>2. SentByCalls'
  BY DEF SentByCalls
<1>3. EntryKeys'
  BY DEF EntryKeys
<1>4. AnswerKeys'
  <2>1. CASE fromRouter' = fromRouter
    <3> SUFFICES ASSUME NEW i \in 1..Len(fromRouter), fromRouter[i].type = "reply"
                 PROVE  /\ pc'[fromRouter[i].op] # "idle"
                        /\ fromRouter[i].key =
                               <<kind'[fromRouter[i].op], rid'[fromRouter[i].op]>>
      BY <2>1 DEF AnswerKeys
    <3>1. fromRouter[i] \in Messages
      BY ElementOfSeq
    <3>2. fromRouter[i].op \in Ops
      BY <3>1 DEF Messages, Goodbye
    <3> QED
      BY <3>2 DEF AnswerKeys
  <2>2. CASE fromRouter # <<>> /\ fromRouter' = Tail(fromRouter)
    <3> SUFFICES ASSUME NEW i \in 1..Len(fromRouter'), fromRouter'[i].type = "reply"
                 PROVE  /\ pc'[fromRouter'[i].op] # "idle"
                        /\ fromRouter'[i].key =
                               <<kind'[fromRouter'[i].op], rid'[fromRouter'[i].op]>>
      BY DEF AnswerKeys
    <3>1. i + 1 \in 1..Len(fromRouter) /\ fromRouter'[i] = fromRouter[i + 1]
      BY <2>2, HeadTailProperties
    <3>2. fromRouter[i + 1] \in Messages
      BY <3>1, ElementOfSeq
    <3>3. fromRouter[i + 1].op \in Ops
      BY <3>1, <3>2 DEF Messages, Goodbye
    <3> QED
      BY <3>1, <3>3 DEF AnswerKeys
  <2> QED
    BY <2>1, <2>2
<1> QED
  BY <1>1, <1>2, <1>3, <1>4

\* A call that takes the next id keeps the keys in order.
LEMMA KeyNew ==
    ASSUME TypeOK, KeyInv, NEW o \in Ops, NEW k \in Kinds,
           pc[o] = "idle",
           idgen' = NextId,
           rid' = [rid EXCEPT ![o] = NextId],
           kind' = [kind EXCEPT ![o] = k],
           pc' = [pc EXCEPT ![o] = "allocated"],
           UNCHANGED <<requests, toRouter, fromRouter>>
    PROVE  KeyInv'
<1> USE DEF KeyInv, TypeOK, PeerTypeOK, NextId
<1>1. IdsDistinct'
  BY DEF IdsDistinct
<1>2. IdTaken'
  BY DEF IdTaken
<1>3. SentByCalls'
  BY DEF SentByCalls
<1>4. EntryKeys'
  BY DEF EntryKeys
<1>5. AnswerKeys'
  <2> SUFFICES ASSUME NEW i \in 1..Len(fromRouter), fromRouter[i].type = "reply"
               PROVE  /\ pc'[fromRouter[i].op] # "idle"
                      /\ fromRouter[i].key =
                             <<kind'[fromRouter[i].op], rid'[fromRouter[i].op]>>
    BY DEF AnswerKeys
  <2>1. fromRouter[i] \in Messages
    BY ElementOfSeq
  <2>2. fromRouter[i].op \in Ops
    BY <2>1 DEF Messages, Goodbye
  <2> QED
    BY <2>2 DEF AnswerKeys
<1> QED
  BY <1>1, <1>2, <1>3, <1>4, <1>5

\* A message of the router keeps the keys in order, if it carries the right one.
LEMMA KeyAnswer ==
    ASSUME TypeOK, KeyInv, NEW m \in Messages,
           m.type = "reply" =>
               pc[m.op] # "idle" /\ m.key = <<kind[m.op], rid[m.op]>>,
           fromRouter' = Append(fromRouter, m),
           toRouter' \subseteq toRouter,
           UNCHANGED <<idgen, rid, kind, pc, requests>>
    PROVE  KeyInv'
<1> USE DEF KeyInv, TypeOK, PeerTypeOK
<1>1. IdsDistinct' /\ IdTaken' /\ SentByCalls' /\ EntryKeys'
  BY DEF IdsDistinct, IdTaken, SentByCalls, EntryKeys
<1>2. AnswerKeys'
  <2> SUFFICES ASSUME NEW i \in 1..Len(fromRouter'), fromRouter'[i].type = "reply"
               PROVE  /\ pc[fromRouter'[i].op] # "idle"
                      /\ fromRouter'[i].key =
                             <<kind[fromRouter'[i].op], rid[fromRouter'[i].op]>>
    BY DEF AnswerKeys
  <2>1. (i \in 1..Len(fromRouter) /\ fromRouter'[i] = fromRouter[i]) \/ fromRouter'[i] = m
    BY AppendProperties
  <2> QED
    BY <2>1 DEF AnswerKeys
<1> QED
  BY <1>1, <1>2

\* Storing a call under its own key keeps the keys in order.
LEMMA KeyStore ==
    ASSUME TypeOK, KeyInv, NEW o \in Ops, Store(o)
    PROVE  KeyInv'
<1> USE DEF KeyInv, TypeOK, PeerTypeOK, Store, requestVars, netVars
<1>1. IdsDistinct' /\ IdTaken' /\ SentByCalls'
  BY DEF IdsDistinct, IdTaken, SentByCalls
<1>2. EntryKeys'
  BY PeerAssumption DEF EntryKeys
<1>3. AnswerKeys'
  <2> SUFFICES ASSUME NEW i \in 1..Len(fromRouter), fromRouter[i].type = "reply"
               PROVE  /\ pc'[fromRouter[i].op] # "idle"
                      /\ fromRouter[i].key =
                             <<kind[fromRouter[i].op], rid[fromRouter[i].op]>>
    BY DEF AnswerKeys
  <2>1. fromRouter[i] \in Messages
    BY ElementOfSeq
  <2>2. fromRouter[i].op \in Ops
    BY <2>1 DEF Messages, Goodbye
  <2> QED
    BY <2>2 DEF AnswerKeys
<1> QED
  BY <1>1, <1>2, <1>3

\* What the user threads do keeps the keys in order and resolves no future.
LEMMA UserKeys ==
    ASSUME TypeOK, KeyInv, NEW o \in Ops, UserStep(o)
    PROVE  KeyInv' /\ future' = future
<1> USE DEF dictVars, netVars
<1>1. ASSUME NEW k \in Kinds, Issue(o, k)
      PROVE  KeyInv' /\ future' = future
  BY <1>1, KeyNew DEF Issue
<1>2. ASSUME NEW k \in Kinds, IssueClose(o, k)
      PROVE  KeyInv' /\ future' = future
  BY <1>2, KeyNew DEF IssueClose
<1>3. CASE Store(o)
  BY <1>3, KeyStore DEF Store
<1> USE DEF TypeOK, PeerTypeOK, requestVars
<1>4. ASSUME NEW k \in Kinds, RefuseClose(o, k)
      PROVE  KeyInv' /\ future' = future
  BY <1>4, KeyFrame DEF RefuseClose
<1>5. CASE Send(o)
  <2>1. rid[o] # 0 /\ pc[o] = "stored"
    BY <1>5 DEF Send, KeyInv, IdTaken
  <2>2. toRouter' \subseteq toRouter \cup {o}
    BY <1>5 DEF Send, Transmit
  <2>3. pc' \in {[pc EXCEPT ![o] = "waiting"], [pc EXCEPT ![o] = "raised"]}
    BY <1>5 DEF Send
  <2>4. UNCHANGED <<idgen, kind, rid, future, requests, fromRouter>>
    BY <1>5 DEF Send
  <2> QED
    BY <2>1, <2>2, <2>3, <2>4, KeyFrame
<1>6. CASE SendUnacknowledged(o)
  BY <1>6, KeyFrame DEF SendUnacknowledged
<1>7. CASE Return(o)
  BY <1>7, KeyFrame DEF Return
<1>8. CASE LeaveBegin(o)
  BY <1>8, KeyFrame DEF LeaveBegin
<1>9. CASE LeaveSend(o)
  <2>1. kind[o] = "leave" /\ pc[o] = "leaving"
    BY <1>9 DEF LeaveSend, KeyInv, IdTaken
  <2>2. toRouter' \subseteq toRouter \cup {o}
    BY <1>9 DEF LeaveSend, Transmit
  <2>3. pc' \in {[pc EXCEPT ![o] = "goodbye"], [pc EXCEPT ![o] = "raised"]}
    BY <1>9 DEF LeaveSend
  <2>4. UNCHANGED <<idgen, kind, rid, future, requests, fromRouter>>
    BY <1>9 DEF LeaveSend
  <2> QED
    BY <2>1, <2>2, <2>3, <2>4, KeyFrame
<1>10. CASE LeaveWait(o)
  BY <1>10, KeyFrame DEF LeaveWait
<1>11. CASE LeaveReturn(o)
  BY <1>11, KeyFrame DEF LeaveReturn
<1> QED
  BY <1>1, <1>2, <1>3, <1>4, <1>5, <1>6, <1>7, <1>8, <1>9, <1>10, <1>11,
     SessionAssumption
  DEF UserStep

\* The answer the reader pops a call for is the answer to that call.
LEMMA ReplyKeys ==
    ASSUME TypeOK, KeyInv, Correlation, ReaderReply
    PROVE  KeyInv' /\ Correlation'
<1> DEFINE m == Head(fromRouter)
           o == requests[m.key]
<1>1. fromRouter # <<>> /\ m.type = "reply" /\ fromRouter' = Tail(fromRouter)
  BY DEF ReaderReply, Receive
<1>2. m = fromRouter[1] /\ 1 \in 1..Len(fromRouter) /\ m \in Messages
  BY <1>1, HeadTailProperties, ElementOfSeq DEF TypeOK, PeerTypeOK
<1>3. m.key \in Keys /\ m.op \in Ops /\ m.ok \in BOOLEAN /\ m.handle \in Ops \cup {NoOp}
  BY <1>1, <1>2 DEF Messages, Goodbye
<1>4. KeyInv'
  <2>1. requests' = [requests EXCEPT ![m.key] = NoOp]
    BY DEF ReaderReply
  <2>2. UNCHANGED <<idgen, kind, rid, pc, toRouter>>
    BY DEF ReaderReply, requestVars
  <2>3. \A k \in Keys : requests'[k] \in {requests[k], NoOp}
    BY <2>1 DEF TypeOK
  <2> QED
    BY <1>1, <2>2, <2>3, KeyFrame DEF TypeOK, PeerTypeOK
<1>5. Correlation'
  <2>1. CASE KeyErrorOn(m, o)
    BY <2>1 DEF ReaderReply, Correlation, Resolved
  <2>2. CASE ~KeyErrorOn(m, o)
    <3>1. o \in Ops
      BY <1>3, <2>2 DEF KeyErrorOn, TypeOK
    <3>2. m.key = <<kind[o], rid[o]>>
      BY <1>3, <3>1, PeerAssumption DEF KeyInv, EntryKeys
    <3>3. m.key = <<kind[m.op], rid[m.op]>>
      BY <1>1, <1>2 DEF KeyInv, AnswerKeys
    <3>4. rid[o] = rid[m.op] /\ rid[o] # 0
      BY <1>3, <3>2, <3>3 DEF Keys
    <3>5. m.op = o
      BY <1>3, <3>1, <3>4 DEF KeyInv, IdsDistinct
    <3>6. future' = [future EXCEPT ![o] = [op |-> m.op, ok |-> m.ok, handle |-> m.handle]]
      BY <2>2 DEF ReaderReply, FutureAfter
    <3> QED
      BY <3>1, <3>5, <3>6 DEF Correlation, Resolved, TypeOK
  <2> QED
    BY <2>1, <2>2
<1> QED
  BY <1>4, <1>5

\* The other steps of the reader keep the keys in order and resolve no future.
LEMMA ReaderKeys ==
    ASSUME TypeOK, KeyInv, ReaderStep, ~ReaderReply
    PROVE  KeyInv' /\ future' = future
<1> USE DEF dictVars, netVars, requestVars
<1>1. UNCHANGED <<idgen, kind, rid, pc, requests, future, toRouter>>
  BY DEF ReaderStep, ReaderCheck, ReaderDispatch, ReaderUnhandled, ReaderGoodbye,
         ReaderError, ReaderShutdown, ReaderStop
<1>2. \/ fromRouter' = fromRouter
      \/ fromRouter # <<>> /\ fromRouter' = Tail(fromRouter)
  BY DEF ReaderStep, ReaderCheck, ReaderDispatch, ReaderUnhandled, ReaderGoodbye,
         ReaderError, ReaderShutdown, ReaderStop, Receive
<1> QED
  BY <1>1, <1>2, KeyFrame

\* What the router does keeps the keys in order.
LEMMA PeerKeys ==
    ASSUME TypeOK, KeyInv, PeerNext, UNCHANGED localVars
    PROVE  KeyInv' /\ future' = future
<1> USE DEF requestVars, routerVars
<1>1. UNCHANGED <<idgen, pc, requests, future>>
  BY DEF localVars, dictVars
<1>2. ASSUME NEW o \in Ops, RouterAccept(o) \/ RouterRefuse(o)
      PROVE  KeyInv'
  <2>0. \E ok, h : fromRouter' = Append(fromRouter, Reply(o, ok, h))
    BY <1>2 DEF RouterAccept, RouterRefuse
  <2>1. PICK m : /\ fromRouter' = Append(fromRouter, m)
                 /\ m.type = "reply"
                 /\ m.op = o
                 /\ m.key = <<kind[o], rid[o]>>
    BY <2>0 DEF Reply
  <2>2. pc[o] # "idle"
    BY <1>2 DEF RouterAccept, RouterRefuse, KeyInv, SentByCalls
  <2>3. UNCHANGED <<kind, rid>> /\ toRouter' \subseteq toRouter
    BY <1>2 DEF RouterAccept, RouterRefuse
  <2>4. fromRouter' \in Seq(Messages)
    BY PeerType DEF TypeOK, PeerTypeOK, KeyInv
  <2>5. m \in Messages
    <3>1. Len(fromRouter') = Len(fromRouter) + 1 /\ fromRouter'[Len(fromRouter) + 1] = m
      BY <2>1 DEF TypeOK, PeerTypeOK
    <3>2. Len(fromRouter) + 1 \in 1..Len(fromRouter')
      BY <3>1 DEF TypeOK, PeerTypeOK
    <3> QED
      BY <2>4, <3>1, <3>2, ElementOfSeq
  <2> QED
    BY <1>1, <2>1, <2>2, <2>3, <2>5, KeyAnswer
<1>3. ASSUME NEW n \in Pushes, RouterPush(n)
      PROVE  KeyInv'
  <2>1. Pushed(n) \in Messages /\ Pushed(n).type = "push"
    BY DEF Pushed, Messages
  <2> QED
    BY <1>1, <1>3, <2>1, KeyAnswer DEF RouterPush
<1>4. CASE RouterGoodbye
  <2>1. Goodbye \in Messages /\ Goodbye.type = "goodbye"
    BY DEF Goodbye, Messages
  <2> QED
    BY <1>1, <1>4, <2>1, KeyAnswer DEF RouterGoodbye
<1>5. CASE LinkDown
  BY <1>1, <1>5, KeyFrame DEF LinkDown
<1> QED
  BY <1>1, <1>2, <1>3, <1>4, <1>5 DEF PeerNext, RouterAnswers

\* Every step keeps the inductive invariant.
LEMMA NextInv ==
    ASSUME IInv, [Next]_vars
    PROVE  IInv'
<1> USE DEF IInv
<1>1. TypeOK'
  BY NextType DEF KeyInv
<1>2. ASSUME KeyInv', future' = future
      PROVE  IInv'
  BY <1>1, <1>2 DEF Correlation, Resolved
<1>3. ASSUME NEW o \in Ops, UserStep(o)
      PROVE  IInv'
  BY <1>2, <1>3, UserKeys
<1>4. CASE ReaderStep
  BY <1>1, <1>2, <1>4, ReplyKeys, ReaderKeys
<1>5. ASSUME \/ RegisterCallback \/ CallbackFinish \/ WebSocketNotices
             \/ \E n \in Pushes : WorkerStart(n) \/ WorkerFinish(n)
      PROVE  IInv'
  <2>1. UNCHANGED <<idgen, kind, rid, pc, requests, future, toRouter, fromRouter>>
    BY <1>5 DEF RegisterCallback, CallbackFinish, WebSocketNotices, WorkerStart,
                WorkerFinish, dictVars, netVars, requestVars
  <2> QED
    BY <1>2, <2>1, KeyFrame
<1>6. CASE PeerNext /\ UNCHANGED localVars
  BY <1>2, <1>6, PeerKeys
<1>7. CASE UNCHANGED vars
  <2>1. UNCHANGED <<idgen, kind, rid, pc, requests, future, toRouter, fromRouter>>
    BY <1>7 DEF vars, localVars, peerVars, requestVars, netVars, dictVars
  <2> QED
    BY <1>2, <2>1, KeyFrame
<1> QED
  BY <1>3, <1>4, <1>5, <1>6, <1>7 DEF Next

\* The synchronous session never takes a call, a message or a dictionary entry for
\* something of another kind.
THEOREM SessionTypeOK == Spec => []TypeOK
<1>1. IInv => TypeOK
  BY DEF IInv
<1> QED
  BY InitInv, NextInv, <1>1, PTL DEF Spec

\* The answer a call gets is the router's answer to that very call
\* (_process_incoming_message pops the right future), for any number of threads.
THEOREM SessionCorrelation == Spec => []Correlation
<1>1. IInv => Correlation
  BY DEF IInv
<1> QED
  BY InitInv, NextInv, <1>1, PTL DEF Spec

-----------------------------------------------------------------------------
(* The answers, the handlers and the pushed messages under way.            *)

Early == {"idle", "allocated", "stored"}

\* A request is answered once: the one that waits for the router has its entry, an
\* answer under way finds it, and both come after the send.
AnsweredOnce ==
    /\ \A o \in toRouter :
          pc[o] \notin Early /\ (kind[o] \in ReplyKinds => requests[<<kind[o], rid[o]>>] = o)
    /\ \A i \in 1..Len(fromRouter) : fromRouter[i].type = "reply" =>
          /\ pc[fromRouter[i].op] \notin Early
          /\ fromRouter[i].op \notin toRouter
          /\ requests[fromRouter[i].key] = fromRouter[i].op
    /\ \A i, j \in 1..Len(fromRouter) :
          fromRouter[i].type = "reply" /\ fromRouter[j].type = "reply"
              /\ fromRouter[i].op = fromRouter[j].op => i = j

\* A call that has its answer has lost its entry; it returns with a success only.
Resolution ==
    \A o \in Ops :
        /\ Resolved(o) =>
              /\ pc[o] \notin Early /\ kind[o] \in ReplyKinds /\ rid[o] # 0
              /\ requests[<<kind[o], rid[o]>>] # o
        /\ ~Resolved(o) => ~future[o].ok
        /\ pc[o] \in {"stored", "waiting"} /\ kind[o] \in ReplyKinds => rid[o] # 0
        /\ pc[o] = "returned" /\ kind[o] \in ReplyKinds => Resolved(o) /\ future[o].ok
        /\ pc[o] = "goodbye" => kind[o] = "leave"

\* Whatever id or call is referred to, that call was made.
Made(o) == o = NoOp \/ pc[o] # "idle"
KnownCalls ==
    /\ \A h \in live : pc[h] # "idle"
    /\ \A o \in Ops : Made(future[o].handle) /\ Made(target[o])
    /\ \A o \in Ops : pc[o] = "idle" => target[o] = NoOp
    /\ Made(goodbyeRequest)
    /\ \A n \in Pushes : Made(push[n].handle)
    /\ \A i \in 1..Len(fromRouter) : fromRouter[i].type = "reply" =>
          /\ Made(fromRouter[i].handle)
          /\ fromRouter[i].ok /\ fromRouter[i].key[1] \in OpenKinds =>
                fromRouter[i].handle # NoOp

\* The i-th message under way makes the session install a handler for the id h, or
\* remove it.
Opens(i, h) ==
    /\ fromRouter[i].type = "reply" /\ fromRouter[i].ok
    /\ fromRouter[i].key[1] \in OpenKinds /\ fromRouter[i].handle = h
Closes(i, h) ==
    /\ fromRouter[i].type = "reply" /\ fromRouter[i].ok
    /\ fromRouter[i].key[1] \in CloseKinds /\ target[fromRouter[i].op] = h

\* When the i-th message under way is processed, there will be a handler for h.
HandlerAt(h, i) ==
    \/ endpoints[h] # NoOp /\ \A k \in 1..Len(fromRouter) : k < i => ~Closes(k, h)
    \/ \E j \in 1..Len(fromRouter) :
          /\ j < i /\ Opens(j, h)
          /\ \A k \in 1..Len(fromRouter) : j < k /\ k < i => ~Closes(k, h)

\* The session's view of the open ids, once it has read what is under way, contains
\* the router's; and each message finds the handler it needs.
Handlers ==
    /\ \A i \in 1..(Len(fromRouter) + 1), h \in live :
          i = Len(fromRouter) + 1 => HandlerAt(h, i)
    /\ \A i \in 1..Len(fromRouter), h \in Ops : Closes(i, h) => HandlerAt(h, i)
    /\ \A i \in 1..Len(fromRouter), h \in Ops :
          fromRouter[i].type = "push" /\ ~push[fromRouter[i].n].late
              /\ push[fromRouter[i].n].handle = h => HandlerAt(h, i)
    /\ \A i \in 1..Len(fromRouter) :
          fromRouter[i].type = "reply" /\ fromRouter[i].ok
              /\ fromRouter[i].key[1] \in CloseKinds => target[fromRouter[i].op] # NoOp

\* A message is pushed once, and taken up once.
PushedOnce ==
    /\ \A n \in Pushes :
          push[n].handle = NoOp => push[n] = NoPush /\ task[n] = "none"
    /\ \A i \in 1..Len(fromRouter) : fromRouter[i].type = "push" =>
          /\ push[fromRouter[i].n].handle # NoOp
          /\ task[fromRouter[i].n] = "none"
    /\ \A i, j \in 1..Len(fromRouter) :
          fromRouter[i].type = "push" /\ fromRouter[j].type = "push"
              /\ fromRouter[i].n = fromRouter[j].n => i = j

\* GOODBYE is the router's last message.
GoodbyeLast ==
    /\ ~goodbyeSent => goodbyes = {}
    /\ \A i \in 1..Len(fromRouter) : fromRouter[i].type = "goodbye" =>
          goodbyeSent /\ i = Len(fromRouter) /\ goodbyes = {}

\* What the reader could not hand over to a worker.
Unrun(n) == task[n] = "refused" \/ (task[n] = "orphan" /\ push[n].late)

\* The handler of an id stays until a close of that id is confirmed.
Installed ==
    \A o \in Ops :
        kind[o] \in OpenKinds /\ Resolved(o) /\ future[o].ok =>
            /\ future[o].handle # NoOp
            /\ \/ endpoints[future[o].handle] # NoOp
               \/ \E p \in Ops : /\ kind[p] \in CloseKinds
                                 /\ target[p] = future[o].handle
                                 /\ future[p].ok

HInv ==
    /\ AnsweredOnce /\ Resolution /\ KnownCalls /\ Handlers /\ PushedOnce /\ GoodbyeLast
    /\ Installed /\ PendingEntry /\ NoOrphan /\ ReceiveLoopSurvives

\* What the i-th message under way is.
LEMMA UnderWay ==
    ASSUME IInv, NEW i \in 1..Len(fromRouter)
    PROVE  /\ fromRouter[i] \in Messages
           /\ fromRouter[i].type \in {"reply", "push", "goodbye"}
           /\ fromRouter[i].type = "push" => fromRouter[i].n \in Pushes
           /\ fromRouter[i].type = "reply" =>
                 /\ fromRouter[i].op \in Ops /\ fromRouter[i].ok \in BOOLEAN
                 /\ fromRouter[i].handle \in Ops \cup {NoOp} /\ fromRouter[i].key \in Keys
                 /\ fromRouter[i].key = <<kind[fromRouter[i].op], rid[fromRouter[i].op]>>
                 /\ fromRouter[i].key[1] = kind[fromRouter[i].op]
                 /\ kind[fromRouter[i].op] \in ReplyKinds
                 /\ rid[fromRouter[i].op] # 0
                 /\ pc[fromRouter[i].op] # "idle"
<1>1. fromRouter[i] \in Messages
  BY ElementOfSeq DEF IInv, TypeOK, PeerTypeOK
<1>2. /\ fromRouter[i].type \in {"reply", "push", "goodbye"}
      /\ fromRouter[i].type = "push" => fromRouter[i].n \in Pushes
      /\ fromRouter[i].type = "reply" =>
            /\ fromRouter[i].op \in Ops /\ fromRouter[i].ok \in BOOLEAN
            /\ fromRouter[i].handle \in Ops \cup {NoOp} /\ fromRouter[i].key \in Keys
  BY <1>1 DEF Messages, Goodbye
<1>3. fromRouter[i].type = "reply" =>
         /\ pc[fromRouter[i].op] # "idle"
         /\ fromRouter[i].key = <<kind[fromRouter[i].op], rid[fromRouter[i].op]>>
  BY DEF IInv, KeyInv, AnswerKeys
<1>4. ASSUME fromRouter[i].type = "reply"
      PROVE  /\ fromRouter[i].key[1] = kind[fromRouter[i].op]
             /\ kind[fromRouter[i].op] \in ReplyKinds
             /\ rid[fromRouter[i].op] # 0
  <2> DEFINE k == kind[fromRouter[i].op]
             r == rid[fromRouter[i].op]
  <2>1. fromRouter[i].key = <<k, r>> /\ fromRouter[i].key \in Keys
    BY <1>2, <1>3, <1>4
  <2> HIDE DEF k, r
  <2>2. PICK k2 \in ReplyKinds, r2 \in 1..IdMax : fromRouter[i].key = <<k2, r2>>
    BY <2>1 DEF Keys
  <2>3. k = k2 /\ r = r2
    BY <2>1, <2>2
  <2>4. fromRouter[i].key[1] = k
    BY <2>1
  <2>5. r2 # 0
    BY PeerAssumption
  <2>6. k \in ReplyKinds /\ r # 0 /\ fromRouter[i].key[1] = k
    BY <2>3, <2>4, <2>5
  <2> QED
    BY <2>6 DEF k, r
<1> QED
  BY <1>1, <1>2, <1>3, <1>4

\* What a call does by itself changes nothing but its own state, the entry it stores
\* and the request it sends.
UserChange(o) ==
    /\ UNCHANGED <<future, endpoints, reader, task, fromRouter, live, push, goodbyeSent,
                   goodbyes>>
    /\ \A p \in Ops : p # o =>
          pc'[p] = pc[p] /\ kind'[p] = kind[p] /\ rid'[p] = rid[p] /\ target'[p] = target[p]
    /\ pc'[o] # "idle"
    /\ \/ /\ pc[o] # "idle" /\ kind'[o] = kind[o] /\ rid'[o] = rid[o]
          /\ target'[o] = target[o] \/ (kind[o] = "leave" /\ target'[o] = goodbyeRequest)
       \/ /\ pc[o] = "idle"
          /\ target'[o] = target[o] \/ \E p \in Ops : target'[o] = future[p].handle
          /\ requests' = requests /\ toRouter' = toRouter
          /\ pc'[o] \in {"allocated", "leaving", "raised"}
    /\ \/ requests' = requests /\ pc'[o] # "stored"
       \/ /\ pc[o] = "allocated" /\ pc'[o] = "stored" /\ kind[o] \in ReplyKinds
          /\ requests' = [requests EXCEPT ![<<kind[o], rid[o]>>] = o]
    /\ pc'[o] = "allocated" => pc[o] = "idle"
    /\ \A p \in toRouter' :
          \/ p \in toRouter
          \/ p = o /\ pc'[o] \notin Early /\ (kind[o] \in ReplyKinds => pc[o] = "stored")
    /\ toRouter \subseteq toRouter'
    /\ pc'[o] = "waiting" /\ kind[o] \in ReplyKinds => pc[o] = "stored"
    /\ pc'[o] = "returned" /\ kind[o] \in ReplyKinds => Resolved(o) /\ future[o].ok
    /\ pc'[o] = "goodbye" => kind[o] = "leave"
    /\ goodbyeRequest' \in {goodbyeRequest, o}
    /\ connected' => connected

LEMMA UserChanges ==
    ASSUME IInv, Resolution, NEW o \in Ops, UserStep(o)
    PROVE  UserChange(o)
<1> USE DEF IInv, TypeOK, PeerTypeOK, UserChange, dictVars, leaveVars, netVars, routerVars,
            requestVars, Early
<1>1. ASSUME NEW k \in Kinds, Issue(o, k)
      PROVE  UserChange(o)
  BY <1>1 DEF Issue
<1>2. ASSUME NEW k \in Kinds, IssueClose(o, k)
      PROVE  UserChange(o)
  BY <1>2 DEF IssueClose
<1>3. ASSUME NEW k \in Kinds, RefuseClose(o, k)
      PROVE  UserChange(o)
  BY <1>3 DEF RefuseClose
<1>4. CASE Store(o)
  BY <1>4 DEF Store
<1>5. CASE Send(o)
  <2>1. PICK v \in {"waiting", "raised"} : pc' = [pc EXCEPT ![o] = v]
    BY <1>5 DEF Send
  <2>2. toRouter' \in {toRouter, toRouter \cup {o}} /\ (toRouter' # toRouter => pc'[o] = "waiting")
    BY <1>5, <2>1 DEF Send, Transmit
  <2>3. connected' => connected
    BY <1>5 DEF Send
  <2>4. /\ UNCHANGED <<future, endpoints, reader, task, fromRouter, live, push, goodbyeSent,
                       goodbyes, requests, kind, rid, target, goodbyeRequest>>
        /\ pc[o] = "stored"
    BY <1>5 DEF Send
  <2> QED
    BY <2>1, <2>2, <2>3, <2>4
<1>6. CASE SendUnacknowledged(o)
  BY <1>6 DEF SendUnacknowledged, ReplyKinds
<1>7. CASE Return(o)
  <2>1. pc' = [pc EXCEPT ![o] = IF future[o].ok THEN "returned" ELSE "raised"] /\ Resolved(o)
    BY <1>7 DEF Return
  <2> QED
    BY <1>7, <2>1 DEF Return
<1>8. CASE LeaveBegin(o)
  BY <1>8 DEF LeaveBegin
<1>9. CASE LeaveSend(o)
  <2>1. PICK v \in {"goodbye", "raised"} : pc' = [pc EXCEPT ![o] = v]
    BY <1>9 DEF LeaveSend
  <2>2. toRouter' \in {toRouter, toRouter \cup {o}}
    BY <1>9 DEF LeaveSend, Transmit
  <2>3. connected' => connected
    BY <1>9 DEF LeaveSend
  <2>4. /\ UNCHANGED <<future, endpoints, reader, task, fromRouter, live, push, goodbyeSent,
                       goodbyes, requests, kind, rid, target, goodbyeRequest>>
        /\ pc[o] = "leaving" /\ kind[o] = "leave"
    BY <1>9 DEF LeaveSend, KeyInv, IdTaken
  <2> QED
    BY <2>1, <2>2, <2>3, <2>4 DEF ReplyKinds
<1>10. CASE LeaveWait(o)
  <2>1. kind[o] = "leave"
    BY <1>10 DEF LeaveWait, Resolution
  <2> QED
    BY <1>10, <2>1 DEF LeaveWait, ReplyKinds
<1>11. CASE LeaveReturn(o)
  <2>1. PICK v \in {"returned", "raised"} : pc' = [pc EXCEPT ![o] = v]
    BY <1>11 DEF LeaveReturn
  <2>2. connected' => connected
    BY <1>11 DEF LeaveReturn, Close
  <2> QED
    BY <1>11, <2>1, <2>2 DEF LeaveReturn, ReplyKinds
<1> QED
  BY <1>1, <1>2, <1>3, <1>4, <1>5, <1>6, <1>7, <1>8, <1>9, <1>10, <1>11, SessionAssumption
  DEF UserStep

\* Whether a message finds its handler depends on the messages under way, on the
\* handlers, and on what the calls that close an id refer to.
LEMMA HandlerStays ==
    ASSUME IInv, UNCHANGED <<fromRouter, endpoints>>,
           \A p \in Ops : kind[p] \in CloseKinds /\ pc[p] # "idle" => target'[p] = target[p]
    PROVE  /\ \A i \in 1..Len(fromRouter), h \in Ops : Closes(i, h)' <=> Closes(i, h)
           /\ \A i, h : HandlerAt(h, i) => HandlerAt(h, i)'
<1>1. ASSUME NEW i \in 1..Len(fromRouter), NEW h
      PROVE  Closes(i, h)' <=> Closes(i, h)
  BY UnderWay DEF Closes
<1>2. ASSUME NEW i, NEW h
      PROVE  Opens(i, h)' <=> Opens(i, h)
  BY DEF Opens
<1>3. ASSUME NEW i, NEW h, HandlerAt(h, i)
      PROVE  HandlerAt(h, i)'
  <2>1. CASE endpoints[h] # NoOp /\ \A k \in 1..Len(fromRouter) : k < i => ~Closes(k, h)
    BY <1>1, <2>1 DEF HandlerAt
  <2>2. ASSUME NEW j \in 1..Len(fromRouter), j < i, Opens(j, h),
               \A k \in 1..Len(fromRouter) : j < k /\ k < i => ~Closes(k, h)
        PROVE  HandlerAt(h, i)'
    <3>1. Opens(j, h)' /\ \A k \in 1..Len(fromRouter) : j < k /\ k < i => ~(Closes(k, h)')
      BY <1>1, <1>2, <2>2
    <3> QED
      BY <2>2, <3>1 DEF HandlerAt
  <2> QED
    BY <1>3, <2>1, <2>2 DEF HandlerAt
<1> QED
  BY <1>1, <1>3

\* A step that leaves the messages, the handlers and the router's ids alone keeps
\* all handlers in place.
LEMMA HandlersStay ==
    ASSUME IInv, KnownCalls, Handlers, UNCHANGED <<fromRouter, endpoints, live, push>>,
           \A p \in Ops : kind[p] \in CloseKinds /\ pc[p] # "idle" => target'[p] = target[p]
    PROVE  Handlers'
<1>1. \A i \in 1..(Len(fromRouter) + 1), h \in live :
         i = Len(fromRouter) + 1 => HandlerAt(h, i)'
  BY HandlerStays DEF Handlers
<1>2. \A i \in 1..Len(fromRouter), h \in Ops : Closes(i, h)' => HandlerAt(h, i)'
  BY HandlerStays DEF Handlers
<1>3. \A i \in 1..Len(fromRouter), h \in Ops :
         fromRouter[i].type = "push" /\ ~push[fromRouter[i].n].late
             /\ push[fromRouter[i].n].handle = h => HandlerAt(h, i)'
  BY HandlerStays DEF Handlers
<1>4. \A i \in 1..Len(fromRouter) :
         fromRouter[i].type = "reply" /\ fromRouter[i].ok
             /\ fromRouter[i].key[1] \in CloseKinds => target'[fromRouter[i].op] # NoOp
  BY UnderWay DEF Handlers
<1> QED
  BY <1>1, <1>2, <1>3, <1>4 DEF Handlers

\* What the user threads do keeps the handlers in place.
LEMMA UserHandlers ==
    ASSUME IInv, IInv', HInv, NEW o \in Ops, UserChange(o)
    PROVE  HInv'
<1> USE PeerAssumption
<1>1. ASSUME NEW p \in Ops, pc[p] # "idle"
      PROVE  /\ pc'[p] # "idle" /\ kind'[p] = kind[p] /\ rid'[p] = rid[p]
             /\ kind[p] # "leave" => target'[p] = target[p]
             /\ pc[p] \notin Early => pc'[p] \notin Early
  BY <1>1 DEF UserChange, Early
<1>2. UNCHANGED <<future, endpoints, reader, task, fromRouter, live, push, goodbyeSent,
                  goodbyes>>
  BY DEF UserChange
<1>3. \/ requests' = requests /\ pc'[o] # "stored"
      \/ /\ pc[o] = "allocated" /\ pc'[o] = "stored" /\ kind[o] \in ReplyKinds
         /\ requests' = [requests EXCEPT ![<<kind[o], rid[o]>>] = o]
         /\ kind'[o] = kind[o] /\ rid'[o] = rid[o] /\ rid[o] # 0
         /\ <<kind[o], rid[o]>> \in Keys
  <2>1. ASSUME pc[o] = "allocated", kind[o] \in ReplyKinds
        PROVE  rid[o] # 0 /\ <<kind[o], rid[o]>> \in Keys
    BY <2>1 DEF IInv, TypeOK, PeerTypeOK, KeyInv, IdTaken, Keys
  <2> QED
    BY <2>1 DEF UserChange
<1>4. ASSUME NEW p \in Ops, p # o, pc[p] # "idle", rid[p] # 0, kind[p] \in ReplyKinds
      PROVE  requests'[<<kind[p], rid[p]>>] = requests[<<kind[p], rid[p]>>]
  <2>1. CASE requests' = requests
    BY <2>1
  <2>2. CASE requests' # requests
    <3>1. rid[o] # 0 /\ rid[p] # rid[o]
      BY <1>3, <1>4, <2>2 DEF IInv, KeyInv, IdsDistinct
    <3>2. <<kind[p], rid[p]>> \in Keys /\ <<kind[p], rid[p]>> # <<kind[o], rid[o]>>
      BY <1>4, <3>1 DEF IInv, TypeOK, PeerTypeOK, Keys
    <3> QED
      BY <1>3, <2>2, <3>2 DEF IInv, TypeOK
  <2> QED
    BY <2>1, <2>2
<1>5. AnsweredOnce'
  <2>1. ASSUME NEW p \in toRouter'
        PROVE  /\ pc'[p] \notin Early
               /\ kind'[p] \in ReplyKinds => requests'[<<kind'[p], rid'[p]>>] = p
    <3>1. CASE p \in toRouter
      <4>1. /\ p \in Ops /\ pc[p] \notin Early /\ pc[p] # "idle"
            /\ kind[p] \in ReplyKinds => requests[<<kind[p], rid[p]>>] = p /\ rid[p] # 0
        BY <3>1 DEF HInv, AnsweredOnce, IInv, TypeOK, PeerTypeOK, KeyInv, SentByCalls, Early,
                    ReplyKinds
      <4>2. kind[p] \in ReplyKinds => requests'[<<kind[p], rid[p]>>] = requests[<<kind[p], rid[p]>>]
        BY <1>3, <1>4, <4>1 DEF Early
      <4> QED
        BY <1>1, <4>1, <4>2
    <3>2. CASE p \notin toRouter
      <4>1. p = o /\ pc'[p] \notin Early /\ (kind[o] \in ReplyKinds => pc[o] = "stored")
        BY <3>2 DEF UserChange
      <4>2. kind'[o] = kind[o] /\ rid'[o] = rid[o]
        BY <3>2 DEF UserChange
      <4>3. kind[o] \in ReplyKinds => requests[<<kind[o], rid[o]>>] = o /\ requests' = requests
        BY <1>3, <4>1 DEF HInv, PendingEntry, Resolution, Early
      <4> QED
        BY <4>1, <4>2, <4>3
    <3> QED
      BY <3>1, <3>2
  <2>2. ASSUME NEW i \in 1..Len(fromRouter), fromRouter[i].type = "reply"
        PROVE  /\ pc'[fromRouter[i].op] \notin Early
               /\ fromRouter[i].op \notin toRouter'
               /\ requests'[fromRouter[i].key] = fromRouter[i].op
    <3> DEFINE p == fromRouter[i].op
    <3>1. /\ p \in Ops /\ fromRouter[i].key = <<kind[p], rid[p]>> /\ kind[p] \in ReplyKinds
          /\ rid[p] # 0 /\ pc[p] # "idle"
      BY <2>2, UnderWay
    <3>2. pc[p] \notin Early /\ p \notin toRouter /\ requests[fromRouter[i].key] = p
      BY <2>2 DEF HInv, AnsweredOnce
    <3> HIDE DEF p
    <3>3. requests'[<<kind[p], rid[p]>>] = requests[<<kind[p], rid[p]>>]
      BY <1>3, <1>4, <3>1, <3>2 DEF Early
    <3>4. p \notin toRouter'
      BY <3>1, <3>2 DEF UserChange, Early
    <3>5. pc'[p] \notin Early
      BY <1>1, <3>1, <3>2
    <3> QED
      BY <3>1, <3>2, <3>3, <3>4, <3>5 DEF p
  <2> QED
    BY <1>2, <2>1, <2>2 DEF HInv, AnsweredOnce
<1>6. Resolution'
  <2> SUFFICES ASSUME NEW p \in Ops
               PROVE  /\ Resolved(p)' =>
                            /\ pc'[p] \notin Early /\ kind'[p] \in ReplyKinds /\ rid'[p] # 0
                            /\ requests'[<<kind'[p], rid'[p]>>] # p
                      /\ ~Resolved(p)' => ~future'[p].ok
                      /\ pc'[p] \in {"stored", "waiting"} /\ kind'[p] \in ReplyKinds => rid'[p] # 0
                      /\ pc'[p] = "returned" /\ kind'[p] \in ReplyKinds =>
                            Resolved(p)' /\ future'[p].ok
                      /\ pc'[p] = "goodbye" => kind'[p] = "leave"
    BY DEF Resolution
  <2>1. Resolved(p)' <=> Resolved(p)
    BY <1>2 DEF Resolved
  <2>2. ASSUME Resolved(p)
        PROVE  /\ pc'[p] \notin Early /\ kind'[p] \in ReplyKinds /\ rid'[p] # 0
               /\ requests'[<<kind'[p], rid'[p]>>] # p
    <3>1. /\ pc[p] \notin Early /\ kind[p] \in ReplyKinds /\ rid[p] # 0
          /\ requests[<<kind[p], rid[p]>>] # p
      BY <2>2 DEF HInv, Resolution
    <3>2. requests'[<<kind[p], rid[p]>>] = requests[<<kind[p], rid[p]>>]
      BY <1>3, <1>4, <3>1 DEF Early
    <3> QED
      BY <1>1, <3>1, <3>2 DEF Early
  <2>3. ~Resolved(p) => ~future[p].ok
    BY DEF HInv, Resolution
  <2>4. ASSUME pc'[p] \in {"stored", "waiting"}, kind'[p] \in ReplyKinds
        PROVE  rid'[p] # 0
    <3>1. CASE p = o
      <4>1. pc[o] \in {"allocated", "stored"} /\ kind'[o] = kind[o] /\ rid'[o] = rid[o]
        BY <2>4, <3>1 DEF UserChange
      <4> QED
        BY <3>1, <4>1 DEF IInv, KeyInv, IdTaken
    <3>2. CASE p # o
      BY <2>4, <3>2 DEF UserChange, HInv, Resolution
    <3> QED
      BY <3>1, <3>2
  <2>5. pc'[p] = "returned" /\ kind'[p] \in ReplyKinds => Resolved(p) /\ future[p].ok
    BY DEF UserChange, HInv, Resolution
  <2>6. pc'[p] = "goodbye" => kind'[p] = "leave"
    BY DEF UserChange, HInv, Resolution
  <2> QED
    BY <1>2, <2>1, <2>2, <2>3, <2>4, <2>5, <2>6
<1>7. KnownCalls'
  <2>1. ASSUME NEW p \in Ops \cup {NoOp}, Made(p)
        PROVE  Made(p)'
    BY <1>1, <2>1 DEF Made
  <2>2. \A p \in Ops : Made(target[p]) /\ Made(future[p].handle)
    BY DEF HInv, KnownCalls
  <2>3. \A p \in Ops : target'[p] \in {target[p], goodbyeRequest} \cup {future[q].handle : q \in Ops}
    BY DEF UserChange
  <2>4. Made(goodbyeRequest) /\ Made(o)'
    BY DEF HInv, KnownCalls, UserChange, Made
  <2>5. \A p \in Ops : Made(target[p])'
    <3> TAKE p \in Ops
    <3>1. target'[p] \in Ops \cup {NoOp}
      BY DEF IInv, TypeOK, PeerTypeOK
    <3>2. Made(target'[p])
      BY <2>2, <2>3, <2>4
    <3> QED
      BY <2>1, <3>1, <3>2 DEF Made
  <2>6. \A p \in Ops : Made(future[p].handle)'
    <3> TAKE p \in Ops
    <3>1. future[p].handle \in Ops \cup {NoOp}
      BY DEF IInv, TypeOK
    <3> QED
      BY <1>2, <2>1, <2>2, <3>1 DEF Made
  <2>7. \A p \in Ops : pc'[p] = "idle" => target'[p] = NoOp
    <3> TAKE p \in Ops
    <3>1. p # o => pc'[p] = pc[p] /\ target'[p] = target[p]
      BY DEF UserChange
    <3>2. pc'[o] # "idle"
      BY DEF UserChange
    <3> QED
      BY <3>1, <3>2 DEF HInv, KnownCalls
  <2>8. Made(goodbyeRequest)'
    <3>1. goodbyeRequest \in Ops \cup {NoOp} /\ goodbyeRequest' \in {goodbyeRequest, o}
      BY DEF IInv, TypeOK, UserChange
    <3> QED
      BY <2>1, <2>4, <3>1 DEF Made
  <2>9. \A n \in Pushes : Made(push[n].handle)'
    <3> TAKE n \in Pushes
    <3>1. push[n].handle \in Ops \cup {NoOp} /\ Made(push[n].handle)
      BY DEF IInv, TypeOK, PeerTypeOK, HInv, KnownCalls
    <3> QED
      BY <1>2, <2>1, <3>1 DEF Made
  <2>10. \A h \in live' : pc'[h] # "idle"
    BY <1>1, <1>2 DEF HInv, KnownCalls, IInv, TypeOK, PeerTypeOK
  <2>11. \A i \in 1..Len(fromRouter) : fromRouter[i].type = "reply" =>
            /\ Made(fromRouter[i].handle)'
            /\ fromRouter[i].ok /\ fromRouter[i].key[1] \in OpenKinds =>
                  fromRouter[i].handle # NoOp
    <3> SUFFICES ASSUME NEW i \in 1..Len(fromRouter), fromRouter[i].type = "reply"
                 PROVE  /\ Made(fromRouter[i].handle)'
                        /\ fromRouter[i].ok /\ fromRouter[i].key[1] \in OpenKinds =>
                              fromRouter[i].handle # NoOp
      OBVIOUS
    <3>1. fromRouter[i].handle \in Ops \cup {NoOp}
      BY UnderWay
    <3>2. /\ Made(fromRouter[i].handle)
          /\ fromRouter[i].ok /\ fromRouter[i].key[1] \in OpenKinds =>
                fromRouter[i].handle # NoOp
      BY DEF HInv, KnownCalls
    <3> QED
      BY <1>2, <2>1, <3>1, <3>2 DEF Made
  <2> QED
    BY <1>2, <2>5, <2>6, <2>7, <2>8, <2>9, <2>10, <2>11 DEF KnownCalls
<1>8. Handlers'
  <2>1. \A p \in Ops : kind[p] \in CloseKinds /\ pc[p] # "idle" => target'[p] = target[p]
    BY <1>1 DEF CloseKinds
  <2> QED
    BY <1>2, <2>1, HandlersStay DEF HInv
<1>9. PushedOnce' /\ GoodbyeLast'
  BY <1>2 DEF HInv, PushedOnce, GoodbyeLast
<1>10. Installed'
  <2> SUFFICES ASSUME NEW p \in Ops, kind'[p] \in OpenKinds, Resolved(p)', future'[p].ok
               PROVE  /\ future'[p].handle # NoOp
                      /\ \/ endpoints'[future'[p].handle] # NoOp
                         \/ \E q \in Ops : /\ kind'[q] \in CloseKinds
                                           /\ target'[q] = future'[p].handle
                                           /\ future'[q].ok
    BY DEF Installed
  <2>1. Resolved(p) /\ future[p].ok
    BY <1>2 DEF Resolved
  <2>2. kind[p] \in OpenKinds
    BY <1>1, <2>1 DEF HInv, Resolution, Early
  <2>3. ASSUME NEW q \in Ops, kind[q] \in CloseKinds, target[q] = future[p].handle, future[q].ok
        PROVE  kind'[q] \in CloseKinds /\ target'[q] = future[p].handle
    <3>1. pc[q] # "idle" /\ kind[q] # "leave"
      BY <2>3 DEF HInv, Resolution, Early, CloseKinds
    <3> QED
      BY <1>1, <2>3, <3>1
  <2> QED
    BY <1>2, <2>1, <2>2, <2>3 DEF HInv, Installed
<1>11. PendingEntry'
  <2> SUFFICES ASSUME NEW p \in Ops, pc'[p] \in {"stored", "waiting"}, kind'[p] \in ReplyKinds
               PROVE  (requests'[<<kind'[p], rid'[p]>>] = p) = ~Resolved(p)'
    BY DEF PendingEntry
  <2>1. Resolved(p)' <=> Resolved(p)
    BY <1>2 DEF Resolved
  <2>2. CASE p = o /\ pc'[o] = "stored"
    <3>1. /\ pc[o] = "allocated" /\ requests' = [requests EXCEPT ![<<kind[o], rid[o]>>] = o]
          /\ kind'[o] = kind[o] /\ rid'[o] = rid[o] /\ <<kind[o], rid[o]>> \in Keys
      BY <1>3, <2>2 DEF UserChange
    <3>2. ~Resolved(o)
      BY <3>1 DEF HInv, Resolution, Early
    <3>3. requests'[<<kind[o], rid[o]>>] = o
      BY <3>1 DEF IInv, TypeOK
    <3> QED
      BY <2>1, <2>2, <3>1, <3>2, <3>3
  <2>3. CASE p = o /\ pc'[o] # "stored"
    <3>1. pc[o] = "stored" /\ kind'[o] = kind[o] /\ rid'[o] = rid[o] /\ requests' = requests
      BY <2>3 DEF UserChange
    <3> QED
      BY <2>1, <2>3, <3>1 DEF HInv, PendingEntry
  <2>4. CASE p # o
    <3>1. pc'[p] = pc[p] /\ kind'[p] = kind[p] /\ rid'[p] = rid[p]
      BY <2>4 DEF UserChange
    <3>2. rid[p] # 0
      BY <3>1 DEF HInv, Resolution
    <3>3. requests'[<<kind[p], rid[p]>>] = requests[<<kind[p], rid[p]>>]
      BY <1>4, <2>4, <3>1, <3>2
    <3> QED
      BY <2>1, <3>1, <3>3 DEF HInv, PendingEntry
  <2> QED
    BY <2>2, <2>3, <2>4
<1>12. NoOrphan'
  BY <1>2 DEF HInv, NoOrphan
<1>13. ReceiveLoopSurvives'
  <2> SUFFICES ASSUME reader = "crashed"
               PROVE  /\ ~connected'
                      /\ \E n \in Pushes : Unrun(n) /\ IsInvocation(n)'
    BY <1>2 DEF ReceiveLoopSurvives, Unrun
  <2>1. PICK n \in Pushes : Unrun(n) /\ IsInvocation(n)
    BY DEF HInv, ReceiveLoopSurvives, Unrun
  <2>2. ~connected'
    BY DEF HInv, ReceiveLoopSurvives, UserChange
  <2>3. push[n].handle # NoOp /\ push[n].handle \in Ops
    BY <2>1 DEF Unrun, HInv, PushedOnce, IInv, TypeOK, PeerTypeOK
  <2>4. pc[push[n].handle] # "idle"
    BY <2>3 DEF HInv, KnownCalls, Made
  <2>5. IsInvocation(n)'
    BY <1>1, <1>2, <2>1, <2>3, <2>4 DEF IsInvocation
  <2> QED
    BY <2>1, <2>2, <2>5
<1> QED
  BY <1>5, <1>6, <1>7, <1>8, <1>9, <1>10, <1>11, <1>12, <1>13 DEF HInv

\* The fates of a message that no worker has to do with.
Untaken == {"none", "orphan", "refused"}

\* The threads that take no message and call nothing keep everything in order.
LEMMA QuietHandlers ==
    ASSUME IInv, HInv,
           UNCHANGED <<kind, rid, target, pc, requests, toRouter, fromRouter, future, endpoints,
                       live, push, goodbyeSent, goodbyes, goodbyeRequest>>,
           \A n \in Pushes : task'[n] = task[n] \/
               (task[n] \notin Untaken /\ task'[n] \notin Untaken),
           reader' = "crashed" => reader = "crashed",
           connected' => connected
    PROVE  HInv'
<1>1. AnsweredOnce' /\ Resolution' /\ Installed' /\ PendingEntry'
  BY DEF HInv, AnsweredOnce, Resolution, Resolved, Installed, PendingEntry
<1>2. KnownCalls'
  BY DEF HInv, KnownCalls, Made
<1>3. Handlers'
  BY HandlersStay DEF HInv
<1>4. PushedOnce' /\ GoodbyeLast'
  <2>1. ASSUME NEW i \in 1..Len(fromRouter), fromRouter[i].type = "push"
        PROVE  task'[fromRouter[i].n] = "none"
    BY <2>1, UnderWay DEF HInv, PushedOnce, Untaken
  <2> QED
    BY <2>1 DEF HInv, PushedOnce, GoodbyeLast, Untaken
<1>5. NoOrphan' /\ ReceiveLoopSurvives'
  BY DEF HInv, NoOrphan, ReceiveLoopSurvives, IsInvocation, Untaken
<1> QED
  BY <1>1, <1>2, <1>3, <1>4, <1>5 DEF HInv

-----------------------------------------------------------------------------
(* The reader takes the first message under way.                           *)

LEMMA TakenFirst ==
    ASSUME IInv, fromRouter # <<>>, fromRouter' = Tail(fromRouter)
    PROVE  /\ Len(fromRouter) \in Nat /\ Len(fromRouter') = Len(fromRouter) - 1
           /\ 1 \in 1..Len(fromRouter) /\ Head(fromRouter) = fromRouter[1]
           /\ \A i \in 1..Len(fromRouter') :
                 /\ i + 1 \in 1..Len(fromRouter) /\ i + 1 # 1
                 /\ fromRouter'[i] = fromRouter[i + 1]
<1>1. fromRouter \in Seq(Messages)
  BY DEF IInv, TypeOK, PeerTypeOK
<1>2. Len(fromRouter') = Len(fromRouter) - 1 /\ \A i \in 1..Len(fromRouter') : fromRouter'[i] = fromRouter[i + 1]
  BY <1>1, HeadTailProperties
<1>3. Len(fromRouter) \in Nat /\ Len(fromRouter) # 0
  BY <1>1, EmptySeq
<1>4. Head(fromRouter) = fromRouter[1]
  BY <1>1
<1> QED
  BY <1>2, <1>3, <1>4

\* Whoever would have found a handler finds it one place earlier.
LEMMA HandlerShifts ==
    ASSUME IInv, fromRouter # <<>>, fromRouter' = Tail(fromRouter), target' = target,
           \A h \in Ops : Opens(1, h) => endpoints'[h] # NoOp,
           \A h \in Ops : ~Opens(1, h) /\ ~Closes(1, h) => endpoints'[h] = endpoints[h]
    PROVE  /\ \A i \in 1..Len(fromRouter), h \in Ops : HandlerAt(h, i + 1) => HandlerAt(h, i)'
           /\ \A i \in 1..Len(fromRouter'), h \in Ops : Closes(i, h)' <=> Closes(i + 1, h)
<1> DEFINE L == Len(fromRouter)
           M == Len(fromRouter')
<1>1. /\ L \in Nat /\ M = L - 1 /\ 1 \in 1..L
      /\ \A i \in 1..M : i + 1 \in 1..L /\ fromRouter'[i] = fromRouter[i + 1]
  BY TakenFirst
<1>2. ASSUME NEW i \in 1..M, NEW h \in Ops
      PROVE  (Closes(i, h)' <=> Closes(i + 1, h)) /\ (Opens(i, h)' <=> Opens(i + 1, h))
  BY <1>1 DEF Closes, Opens
<1> HIDE DEF L, M
<1>3. ASSUME NEW i \in 1..L, NEW h \in Ops, HandlerAt(h, i + 1)
      PROVE  HandlerAt(h, i)'
  <2>1. ASSUME NEW j \in 1..L, \A k \in 1..L : j < k /\ k < i + 1 => ~Closes(k, h)
        PROVE  \A k \in 1..M : j - 1 < k /\ k < i => ~(Closes(k, h)')
    <3> SUFFICES ASSUME NEW k \in 1..M, j - 1 < k, k < i
                 PROVE  ~(Closes(k, h)')
      OBVIOUS
    <3>1. k + 1 \in 1..L /\ j < k + 1 /\ k + 1 < i + 1
      BY <1>1, <2>1
    <3> QED
      BY <1>2, <2>1, <3>1
  <2>2. ASSUME endpoints'[h] # NoOp, \A k \in 1..M : k < i => ~(Closes(k, h)')
        PROVE  HandlerAt(h, i)'
    BY <2>2 DEF HandlerAt, M
  <2>3. CASE endpoints[h] # NoOp /\ \A k \in 1..L : k < i + 1 => ~Closes(k, h)
    <3>1. ~Closes(1, h)
      BY <1>1, <2>3
    <3>2. endpoints'[h] # NoOp
      BY <2>3, <3>1
    <3>3. ASSUME NEW k \in 1..M, k < i
          PROVE  ~(Closes(k, h)')
      <4>1. k + 1 \in 1..L /\ k + 1 < i + 1
        BY <1>1, <3>3
      <4> QED
        BY <1>2, <2>3, <4>1
    <3> QED
      BY <2>2, <3>2, <3>3
  <2>4. ASSUME NEW j \in 1..L, j < i + 1, Opens(j, h),
               \A k \in 1..L : j < k /\ k < i + 1 => ~Closes(k, h)
        PROVE  HandlerAt(h, i)'
    <3>1. \A k \in 1..M : j - 1 < k /\ k < i => ~(Closes(k, h)')
      BY <1>1, <2>1, <2>4
    <3>2. CASE j = 1
      <4>1. endpoints'[h] # NoOp
        BY <2>4, <3>2
      <4>2. \A k \in 1..M : k < i => ~(Closes(k, h)')
        BY <1>1, <3>1, <3>2
      <4> QED
        BY <2>2, <4>1, <4>2
    <3>3. CASE j # 1
      <4>1. j - 1 \in 1..M /\ j - 1 < i /\ (j - 1) + 1 = j
        BY <1>1, <2>4, <3>3
      <4>2. Opens(j - 1, h)'
        BY <1>2, <2>4, <4>1
      <4> QED
        BY <3>1, <4>1, <4>2 DEF HandlerAt, M
    <3> QED
      BY <3>2, <3>3
  <2> QED
    BY <1>3, <2>3, <2>4 DEF HandlerAt, L
<1> QED
  BY <1>2, <1>3 DEF L, M

\* All messages but the first find their handlers, and the router's ids as well.
LEMMA HandlersShift ==
    ASSUME IInv, Handlers, fromRouter # <<>>, fromRouter' = Tail(fromRouter),
           UNCHANGED <<target, live, push>>,
           \A h \in Ops : Opens(1, h) => endpoints'[h] # NoOp,
           \A h \in Ops : ~Opens(1, h) /\ ~Closes(1, h) => endpoints'[h] = endpoints[h]
    PROVE  Handlers'
<1>1. /\ Len(fromRouter) \in Nat /\ Len(fromRouter') = Len(fromRouter) - 1
      /\ 1 \in 1..Len(fromRouter)
      /\ \A i \in 1..Len(fromRouter') :
            i + 1 \in 1..Len(fromRouter) /\ fromRouter'[i] = fromRouter[i + 1]
  BY TakenFirst
<1>2. /\ \A i \in 1..Len(fromRouter), h \in Ops : HandlerAt(h, i + 1) => HandlerAt(h, i)'
      /\ \A i \in 1..Len(fromRouter'), h \in Ops : Closes(i, h)' <=> Closes(i + 1, h)
  BY HandlerShifts
<1>3. \A i \in 1..(Len(fromRouter') + 1), h \in live :
         i = Len(fromRouter') + 1 => HandlerAt(h, i)'
  <2>0. Len(fromRouter') + 1 = Len(fromRouter)
    BY <1>1
  <2> SUFFICES ASSUME NEW i \in 1..Len(fromRouter), NEW h \in live, i = Len(fromRouter)
               PROVE  HandlerAt(h, i)'
    BY <2>0
  <2>1. h \in Ops /\ i + 1 \in 1..(Len(fromRouter) + 1) /\ i + 1 = Len(fromRouter) + 1
    BY <1>1 DEF IInv, TypeOK, PeerTypeOK
  <2>2. HandlerAt(h, i + 1)
    BY <2>1 DEF Handlers
  <2> QED
    BY <1>2, <2>1, <2>2
<1>4. \A i \in 1..Len(fromRouter'), h \in Ops : Closes(i, h)' => HandlerAt(h, i)'
  <2> SUFFICES ASSUME NEW i \in 1..Len(fromRouter'), NEW h \in Ops, Closes(i, h)'
               PROVE  HandlerAt(h, i)'
    OBVIOUS
  <2>1. i + 1 \in 1..Len(fromRouter) /\ i \in 1..Len(fromRouter)
    BY <1>1
  <2>2. HandlerAt(h, i + 1)
    BY <1>2, <2>1 DEF Handlers
  <2> QED
    BY <1>2, <2>1, <2>2
<1>5. \A i \in 1..Len(fromRouter'), h \in Ops :
         fromRouter'[i].type = "push" /\ ~push[fromRouter'[i].n].late
             /\ push[fromRouter'[i].n].handle = h => HandlerAt(h, i)'
  <2> SUFFICES ASSUME NEW i \in 1..Len(fromRouter'), NEW h \in Ops,
                      fromRouter[i + 1].type = "push", ~push[fromRouter[i + 1].n].late,
                      push[fromRouter[i + 1].n].handle = h
               PROVE  HandlerAt(h, i)'
    BY <1>1
  <2>1. i + 1 \in 1..Len(fromRouter) /\ i \in 1..Len(fromRouter)
    BY <1>1
  <2>2. HandlerAt(h, i + 1)
    BY <2>1 DEF Handlers
  <2> QED
    BY <1>2, <2>1, <2>2
<1>6. \A i \in 1..Len(fromRouter') :
         fromRouter'[i].type = "reply" /\ fromRouter'[i].ok
             /\ fromRouter'[i].key[1] \in CloseKinds => target'[fromRouter'[i].op] # NoOp
  BY <1>1 DEF Handlers
<1> QED
  BY <1>3, <1>4, <1>5, <1>6 DEF Handlers

\* The first message taken, the rest of what is under way keeps its order.
LEMMA RestInOrder ==
    ASSUME IInv, HInv, fromRouter # <<>>, fromRouter' = Tail(fromRouter),
           UNCHANGED <<push, goodbyeSent>>,
           \A n \in Pushes : task'[n] = task[n] \/
               (fromRouter[1].type = "push" /\ fromRouter[1].n = n /\ task'[n] # "none"),
           goodbyes' = goodbyes \/ (fromRouter[1].type = "goodbye" /\ goodbyeSent)
    PROVE  PushedOnce' /\ GoodbyeLast'
<1>1. /\ Len(fromRouter) \in Nat /\ Len(fromRouter') = Len(fromRouter) - 1
      /\ 1 \in 1..Len(fromRouter)
      /\ \A i \in 1..Len(fromRouter') :
            /\ i + 1 \in 1..Len(fromRouter) /\ i + 1 # 1
            /\ fromRouter'[i] = fromRouter[i + 1]
  BY TakenFirst
<1>2. PushedOnce'
  <2>1. \A n \in Pushes : push'[n].handle = NoOp => push'[n] = NoPush /\ task'[n] = "none"
    BY <1>1 DEF HInv, PushedOnce
  <2>2. ASSUME NEW i \in 1..Len(fromRouter'), fromRouter'[i].type = "push"
        PROVE  push[fromRouter'[i].n].handle # NoOp /\ task'[fromRouter'[i].n] = "none"
    <3> DEFINE n == fromRouter[i + 1].n
    <3>1. i + 1 \in 1..Len(fromRouter) /\ i + 1 # 1 /\ fromRouter[i + 1].type = "push"
          /\ fromRouter'[i] = fromRouter[i + 1]
      BY <1>1, <2>2
    <3>2. n \in Pushes /\ push[n].handle # NoOp /\ task[n] = "none"
      BY <3>1, UnderWay DEF HInv, PushedOnce
    <3>3. ~(fromRouter[1].type = "push" /\ fromRouter[1].n = n)
      BY <1>1, <3>1 DEF HInv, PushedOnce
    <3> QED
      BY <3>1, <3>2, <3>3
  <2>3. ASSUME NEW i \in 1..Len(fromRouter'), NEW j \in 1..Len(fromRouter'),
               fromRouter'[i].type = "push", fromRouter'[j].type = "push",
               fromRouter'[i].n = fromRouter'[j].n
        PROVE  i = j
    <3>1. i + 1 = j + 1
      BY <1>1, <2>3 DEF HInv, PushedOnce
    <3> QED
      BY <3>1
  <2> QED
    BY <2>1, <2>2, <2>3 DEF PushedOnce
<1>3. GoodbyeLast'
  <2>1. ASSUME NEW i \in 1..Len(fromRouter'), fromRouter'[i].type = "goodbye"
        PROVE  goodbyeSent /\ i = Len(fromRouter') /\ goodbyes' = {}
    <3>1. i + 1 \in 1..Len(fromRouter) /\ i + 1 # 1 /\ fromRouter[i + 1].type = "goodbye"
      BY <1>1, <2>1
    <3>2. goodbyeSent /\ i + 1 = Len(fromRouter) /\ goodbyes = {}
      BY <3>1 DEF HInv, GoodbyeLast
    <3>3. fromRouter[1].type # "goodbye"
      <4>1. 1 # Len(fromRouter)
        BY <1>1, <3>2
      <4> QED
        BY <1>1, <4>1 DEF HInv, GoodbyeLast
    <3>4. goodbyes' = goodbyes
      BY <3>3
    <3>5. i = Len(fromRouter')
      <4>1. PICK L \in Nat : L = Len(fromRouter) /\ Len(fromRouter') = L - 1
        BY <1>1
      <4>2. i + 1 = L /\ i \in Int
        BY <3>2, <4>1
      <4>3. i = L - 1
        BY <4>2
      <4> QED
        BY <4>1, <4>3
    <3> QED
      BY <3>2, <3>4, <3>5
  <2> QED
    BY <2>1 DEF HInv, GoodbyeLast
<1> QED
  BY <1>2, <1>3

\* A message that is no answer resolves nothing.
LEMMA NoAnswerTaken ==
    ASSUME IInv, HInv, fromRouter # <<>>, fromRouter' = Tail(fromRouter),
           fromRouter[1].type # "reply",
           UNCHANGED <<kind, rid, target, pc, requests, toRouter, future, endpoints, live, push,
                       goodbyeRequest>>
    PROVE  /\ AnsweredOnce' /\ Resolution' /\ KnownCalls' /\ Handlers' /\ Installed'
           /\ PendingEntry'
<1>1. /\ Len(fromRouter) \in Nat /\ Len(fromRouter') = Len(fromRouter) - 1
      /\ \A i \in 1..Len(fromRouter') :
            i + 1 \in 1..Len(fromRouter) /\ fromRouter'[i] = fromRouter[i + 1]
  BY TakenFirst
<1>2. AnsweredOnce'
  <2>1. ASSUME NEW i \in 1..Len(fromRouter'), fromRouter'[i].type = "reply"
        PROVE  /\ pc[fromRouter'[i].op] \notin Early
               /\ fromRouter'[i].op \notin toRouter
               /\ requests[fromRouter'[i].key] = fromRouter'[i].op
    BY <1>1, <2>1 DEF HInv, AnsweredOnce
  <2>2. ASSUME NEW i \in 1..Len(fromRouter'), NEW j \in 1..Len(fromRouter'),
               fromRouter'[i].type = "reply", fromRouter'[j].type = "reply",
               fromRouter'[i].op = fromRouter'[j].op
        PROVE  i = j
    <3>1. i + 1 = j + 1
      BY <1>1, <2>2 DEF HInv, AnsweredOnce
    <3> QED
      BY <3>1
  <2> QED
    BY <2>1, <2>2 DEF HInv, AnsweredOnce
<1>3. Resolution' /\ Installed' /\ PendingEntry'
  BY DEF HInv, Resolution, Resolved, Installed, PendingEntry
<1>4. KnownCalls'
  BY <1>1 DEF HInv, KnownCalls, Made
<1>5. Handlers'
  BY HandlersShift DEF HInv, Opens, Closes
<1> QED
  BY <1>2, <1>3, <1>4, <1>5

\* An answer always finds the future of its call, and a confirmed close its handler:
\* _process_incoming_message raises no KeyError.
LEMMA ReplyFound ==
    ASSUME IInv, HInv, Receive("reply")
    PROVE  LET m == fromRouter[1]
               o == requests[m.key]
           IN /\ m = Head(fromRouter) /\ m.type = "reply"
              /\ o \in Ops /\ m.op = o /\ ~Resolved(o) /\ ~KeyErrorOn(m, o)
<1> DEFINE m == fromRouter[1]
           o == requests[m.key]
<1>1. fromRouter # <<>> /\ fromRouter' = Tail(fromRouter) /\ Head(fromRouter).type = "reply"
  BY DEF Receive
<1>2. 1 \in 1..Len(fromRouter) /\ m = Head(fromRouter) /\ m.type = "reply"
  BY <1>1, TakenFirst
<1>3. m.op \in Ops /\ o = m.op /\ m.key = <<kind[o], rid[o]>> /\ m.key[1] = kind[o]
      /\ requests[<<kind[o], rid[o]>>] = o
  BY <1>2, UnderWay DEF HInv, AnsweredOnce
<1>4. ~Resolved(o)
  BY <1>3 DEF HInv, Resolution
<1>5. ASSUME m.ok, m.key[1] \in CloseKinds
      PROVE  endpoints[target[o]] # NoOp
  <2>1. target[o] # NoOp /\ target[o] \in Ops
    BY <1>2, <1>3, <1>5 DEF HInv, Handlers, IInv, TypeOK, PeerTypeOK
  <2>2. Closes(1, target[o])
    BY <1>2, <1>3, <1>5 DEF Closes
  <2>3. HandlerAt(target[o], 1)
    BY <1>2, <2>1, <2>2 DEF HInv, Handlers
  <2> QED
    BY <2>3 DEF HandlerAt
<1>6. ~KeyErrorOn(m, o)
  BY <1>3, <1>5, PeerAssumption DEF KeyErrorOn
<1> QED
  BY <1>2, <1>3, <1>4, <1>6

\* The reader processes an answer.
LEMMA ReplyHandlers ==
    ASSUME IInv, IInv', HInv, ReaderReply
    PROVE  HInv'
<1> DEFINE m == fromRouter[1]
           o == requests[m.key]
<1> USE PeerAssumption
<1>1. /\ m = Head(fromRouter) /\ m.type = "reply" /\ o \in Ops /\ m.op = o
      /\ ~Resolved(o) /\ ~KeyErrorOn(m, o)
  BY ReplyFound DEF ReaderReply
<1>2. /\ fromRouter # <<>> /\ fromRouter' = Tail(fromRouter) /\ reader' = "check"
      /\ requests' = [requests EXCEPT ![m.key] = NoOp]
      /\ endpoints' = EndpointsAfter(m, o)
      /\ future' = [future EXCEPT ![o] = [op |-> m.op, ok |-> m.ok, handle |-> m.handle]]
      /\ UNCHANGED <<idgen, pc, kind, rid, target, goodbyeRequest, goodbyes, task, connected,
                     toRouter, push, live, goodbyeSent>>
  BY <1>1 DEF ReaderReply, Receive, FutureAfter, requestVars, leaveVars, routerVars
<1>3. /\ Len(fromRouter) \in Nat /\ Len(fromRouter') = Len(fromRouter) - 1
      /\ 1 \in 1..Len(fromRouter)
      /\ \A i \in 1..Len(fromRouter') :
            /\ i + 1 \in 1..Len(fromRouter) /\ i + 1 # 1
            /\ fromRouter'[i] = fromRouter[i + 1]
  BY <1>2, TakenFirst
<1>4. /\ m.key = <<kind[o], rid[o]>> /\ m.key \in Keys /\ m.key[1] = kind[o]
      /\ kind[o] \in ReplyKinds /\ rid[o] # 0 /\ pc[o] \notin Early /\ o \notin toRouter
      /\ m.ok \in BOOLEAN /\ m.handle \in Ops \cup {NoOp} /\ Made(m.handle)
      /\ m.ok /\ kind[o] \in OpenKinds => m.handle # NoOp
  BY <1>1, <1>3, UnderWay DEF HInv, AnsweredOnce, KnownCalls
<1>5. /\ requests'[m.key] = NoOp /\ future'[o] = [op |-> o, ok |-> m.ok, handle |-> m.handle]
      /\ \A p \in Ops : p # o => future'[p] = future[p]
  <2>1. DOMAIN requests = Keys /\ DOMAIN future = Ops
    BY DEF IInv, TypeOK
  <2>2. o \in DOMAIN future /\ m.op = o /\ m.key \in DOMAIN requests
    BY <1>1, <1>4, <2>1
  <2> HIDE DEF m, o
  <2> QED
    BY <1>2, <2>1, <2>2
<1>6. ASSUME NEW h \in Ops
      PROVE  /\ Opens(1, h) => endpoints'[h] # NoOp
             /\ ~Opens(1, h) /\ ~Closes(1, h) => endpoints'[h] = endpoints[h]
  <2>1. Opens(1, h) <=> m.ok /\ kind[o] \in OpenKinds /\ m.handle = h
    BY <1>1, <1>4 DEF Opens
  <2>2. Closes(1, h) <=> m.ok /\ kind[o] \in CloseKinds /\ target[o] = h
    BY <1>1, <1>4 DEF Closes
  <2>3. endpoints \in [Ops -> Ops \cup {NoOp}] /\ endpoints' = EndpointsAfter(m, o)
    BY <1>2 DEF IInv, TypeOK
  <2>4. CASE m.ok /\ kind[o] \in OpenKinds
    <3>1. kind[o] \notin CloseKinds
      BY <2>4 DEF OpenKinds, CloseKinds
    <3>2. endpoints' = [endpoints EXCEPT ![m.handle] = o]
      BY <1>4, <2>3, <2>4, <3>1 DEF EndpointsAfter
    <3> QED
      BY <1>1, <2>1, <2>3, <2>4, <3>2
  <2>5. CASE m.ok /\ kind[o] \in CloseKinds
    <3>1. kind[o] \notin OpenKinds
      BY <2>5 DEF OpenKinds, CloseKinds
    <3>2. endpoints' = [endpoints EXCEPT ![target[o]] = NoOp]
      BY <1>4, <2>3, <2>5, <3>1 DEF EndpointsAfter
    <3> QED
      BY <2>1, <2>2, <2>3, <2>5, <3>1, <3>2
  <2>6. CASE ~(m.ok /\ kind[o] \in OpenKinds) /\ ~(m.ok /\ kind[o] \in CloseKinds)
    <3>1. endpoints' = endpoints
      BY <1>4, <2>3, <2>6 DEF EndpointsAfter
    <3> QED
      BY <2>1, <2>6, <3>1
  <2> QED
    BY <2>4, <2>5, <2>6
<1>7. ASSUME NEW h \in Ops, Closes(1, h)
      PROVE  kind[o] \in CloseKinds /\ target[o] = h /\ m.ok
  BY <1>1, <1>4, <1>7 DEF Closes
<1> HIDE DEF o, m
<1>8. ASSUME NEW p \in Ops, p # o, rid[p] # 0, kind[p] \in ReplyKinds
      PROVE  requests'[<<kind[p], rid[p]>>] = requests[<<kind[p], rid[p]>>]
  <2>1. rid[p] # rid[o]
    BY <1>1, <1>4, <1>8 DEF IInv, KeyInv, IdsDistinct
  <2>2. <<kind[p], rid[p]>> \in Keys /\ <<kind[p], rid[p]>> # m.key
    BY <1>4, <1>8, <2>1 DEF IInv, TypeOK, PeerTypeOK, Keys
  <2> QED
    BY <1>2, <2>2 DEF IInv, TypeOK
<1>9. AnsweredOnce'
  <2>1. ASSUME NEW p \in toRouter
        PROVE  /\ pc[p] \notin Early
               /\ kind[p] \in ReplyKinds => requests'[<<kind[p], rid[p]>>] = p
    <3>1. p \in Ops /\ p # o /\ (kind[p] \in ReplyKinds => rid[p] # 0)
      BY <1>4 DEF IInv, TypeOK, PeerTypeOK, KeyInv, SentByCalls, ReplyKinds
    <3> QED
      BY <1>8, <3>1 DEF HInv, AnsweredOnce
  <2>2. ASSUME NEW i \in 1..Len(fromRouter'), fromRouter'[i].type = "reply"
        PROVE  /\ pc[fromRouter'[i].op] \notin Early
               /\ fromRouter'[i].op \notin toRouter
               /\ requests'[fromRouter'[i].key] = fromRouter'[i].op
    <3> DEFINE p == fromRouter[i + 1].op
    <3>1. i + 1 \in 1..Len(fromRouter) /\ i + 1 # 1 /\ fromRouter'[i] = fromRouter[i + 1]
      BY <1>3
    <3>2. /\ p \in Ops /\ fromRouter[i + 1].key = <<kind[p], rid[p]>>
          /\ kind[p] \in ReplyKinds /\ rid[p] # 0
      BY <2>2, <3>1, UnderWay
    <3>3. pc[p] \notin Early /\ p \notin toRouter /\ requests[<<kind[p], rid[p]>>] = p
      BY <2>2, <3>1, <3>2 DEF HInv, AnsweredOnce
    <3>4. p # o
      BY <1>1, <1>3, <2>2, <3>1 DEF HInv, AnsweredOnce, m
    <3> HIDE DEF p
    <3>5. requests'[<<kind[p], rid[p]>>] = p
      BY <1>8, <3>2, <3>3, <3>4
    <3> QED
      BY <3>1, <3>2, <3>3, <3>5 DEF p
  <2>3. ASSUME NEW i \in 1..Len(fromRouter'), NEW j \in 1..Len(fromRouter'),
               fromRouter'[i].type = "reply", fromRouter'[j].type = "reply",
               fromRouter'[i].op = fromRouter'[j].op
        PROVE  i = j
    <3>1. /\ i + 1 \in 1..Len(fromRouter) /\ fromRouter'[i] = fromRouter[i + 1]
          /\ j + 1 \in 1..Len(fromRouter) /\ fromRouter'[j] = fromRouter[j + 1]
      BY <1>3
    <3>2. /\ fromRouter[i + 1].type = "reply" /\ fromRouter[j + 1].type = "reply"
          /\ fromRouter[i + 1].op = fromRouter[j + 1].op
      BY <2>3, <3>1
    <3>3. i + 1 = j + 1
      BY <3>1, <3>2 DEF HInv, AnsweredOnce
    <3> QED
      BY <3>3
  <2> QED
    BY <1>2, <2>1, <2>2, <2>3 DEF AnsweredOnce
<1>10. Resolution'
  <2> SUFFICES ASSUME NEW p \in Ops
               PROVE  /\ Resolved(p)' =>
                            /\ pc[p] \notin Early /\ kind[p] \in ReplyKinds /\ rid[p] # 0
                            /\ requests'[<<kind[p], rid[p]>>] # p
                      /\ ~Resolved(p)' => ~future'[p].ok
                      /\ pc[p] \in {"stored", "waiting"} /\ kind[p] \in ReplyKinds => rid[p] # 0
                      /\ pc[p] = "returned" /\ kind[p] \in ReplyKinds =>
                            Resolved(p)' /\ future'[p].ok
                      /\ pc[p] = "goodbye" => kind[p] = "leave"
    BY <1>2 DEF Resolution
  <2>1. CASE p = o
    <3>1. Resolved(p)'
      BY <1>1, <1>5, <2>1 DEF Resolved
    <3>2. pc[p] # "returned"
      BY <1>1, <1>4, <2>1 DEF HInv, Resolution
    <3>3. requests'[<<kind[p], rid[p]>>] # p
      BY <1>1, <1>4, <1>5, <2>1
    <3> QED
      BY <1>4, <2>1, <3>1, <3>2, <3>3 DEF HInv, Resolution
  <2>2. CASE p # o
    <3>1. future'[p] = future[p] /\ (Resolved(p)' <=> Resolved(p))
      BY <1>5, <2>2 DEF Resolved
    <3> QED
      BY <1>8, <2>2, <3>1 DEF HInv, Resolution
  <2> QED
    BY <2>1, <2>2
<1>11. KnownCalls'
  <2>1. \A p : Made(p)' <=> Made(p)
    BY <1>2 DEF Made
  <2>2. \A p \in Ops : Made(future'[p].handle)
    BY <1>4, <1>5 DEF HInv, KnownCalls
  <2>3. \A p \in Ops : Made(future[p].handle)'
    BY <1>2, <2>2 DEF Made
  <2>4. \A i \in 1..Len(fromRouter') : fromRouter'[i].type = "reply" =>
            /\ Made(fromRouter'[i].handle)
            /\ fromRouter'[i].ok /\ fromRouter'[i].key[1] \in OpenKinds =>
                  fromRouter'[i].handle # NoOp
    BY <1>3 DEF HInv, KnownCalls
  <2> QED
    BY <1>2, <2>3, <2>4 DEF HInv, KnownCalls, Made
<1>12. Handlers'
  BY <1>2, <1>6, HandlersShift DEF HInv
<1>13. PushedOnce' /\ GoodbyeLast'
  BY <1>2, RestInOrder
<1>14. Installed'
  <2> SUFFICES ASSUME NEW p \in Ops, kind[p] \in OpenKinds, Resolved(p)', future'[p].ok
               PROVE  /\ future'[p].handle # NoOp
                      /\ \/ endpoints'[future'[p].handle] # NoOp
                         \/ \E q \in Ops : /\ kind[q] \in CloseKinds
                                           /\ target[q] = future'[p].handle
                                           /\ future'[q].ok
    BY <1>2 DEF Installed
  <2>1. CASE p = o
    <3>1. m.ok /\ future'[p].handle = m.handle
      BY <1>5, <2>1
    <3>2. m.handle # NoOp /\ m.handle \in Ops
      BY <1>4, <2>1, <3>1
    <3>3. Opens(1, m.handle)
      BY <1>1, <1>4, <2>1, <3>1 DEF Opens, m
    <3> QED
      BY <1>6, <3>1, <3>2, <3>3
  <2>2. CASE p # o
    <3> DEFINE h == future[p].handle
    <3>1. future'[p] = future[p] /\ Resolved(p)
      BY <1>5, <2>2 DEF Resolved
    <3>2. /\ h # NoOp /\ h \in Ops
          /\ endpoints[h] # NoOp \/ \E q \in Ops : /\ kind[q] \in CloseKinds
                                                   /\ target[q] = h
                                                   /\ future[q].ok
      BY <3>1 DEF HInv, Installed, IInv, TypeOK
    <3> HIDE DEF h
    <3>3. CASE endpoints[h] # NoOp /\ ~Closes(1, h)
      BY <1>6, <3>1, <3>2, <3>3 DEF h
    <3>4. CASE Closes(1, h)
      <4>1. kind[o] \in CloseKinds /\ target[o] = h /\ future'[o].ok
        BY <1>5, <1>7, <3>2, <3>4
      <4> QED
        BY <1>1, <3>1, <3>2, <4>1 DEF h
    <3>5. ASSUME NEW q \in Ops, kind[q] \in CloseKinds, target[q] = h, future[q].ok
          PROVE  future'[q].ok
      <4>1. q # o
        BY <1>1, <3>5 DEF HInv, Resolution
      <4> QED
        BY <1>5, <3>5, <4>1
    <3> QED
      BY <3>1, <3>2, <3>3, <3>4, <3>5 DEF h
  <2> QED
    BY <2>1, <2>2
<1>15. PendingEntry'
  <2> SUFFICES ASSUME NEW p \in Ops, pc[p] \in {"stored", "waiting"}, kind[p] \in ReplyKinds
               PROVE  (requests'[<<kind[p], rid[p]>>] = p) = ~Resolved(p)'
    BY <1>2 DEF PendingEntry
  <2>1. CASE p = o
    BY <1>1, <1>4, <1>5, <2>1 DEF Resolved
  <2>2. CASE p # o
    <3>1. Resolved(p)' <=> Resolved(p)
      BY <1>5, <2>2 DEF Resolved
    <3>2. rid[p] # 0
      BY DEF HInv, Resolution
    <3>3. requests'[<<kind[p], rid[p]>>] = requests[<<kind[p], rid[p]>>]
      BY <1>8, <2>2, <3>2
    <3> QED
      BY <3>1, <3>3 DEF HInv, PendingEntry
  <2> QED
    BY <2>1, <2>2
<1>16. NoOrphan' /\ ReceiveLoopSurvives'
  BY <1>2 DEF HInv, NoOrphan, ReceiveLoopSurvives
<1> QED
  BY <1>9, <1>10, <1>11, <1>12, <1>13, <1>14, <1>15, <1>16 DEF HInv

\* The reader processes an INVOCATION or EVENT: it has its handler, unless it came
\* after the close of its id.
LEMMA PushHandlers ==
    ASSUME IInv, HInv, ReaderDispatch \/ ReaderUnhandled
    PROVE  HInv'
<1> DEFINE n == fromRouter[1].n
<1>1. /\ fromRouter # <<>> /\ fromRouter' = Tail(fromRouter)
      /\ Head(fromRouter).type = "push" /\ reader = "recv"
  BY DEF ReaderDispatch, ReaderUnhandled, Receive
<1>2. 1 \in 1..Len(fromRouter) /\ Head(fromRouter) = fromRouter[1]
  BY <1>1, TakenFirst
<1>3. n \in Pushes /\ fromRouter[1].type = "push" /\ task[n] = "none" /\ push[n].handle \in Ops
  <2>1. n \in Pushes /\ fromRouter[1].type = "push"
    BY <1>1, <1>2, UnderWay
  <2> QED
    BY <1>2, <2>1 DEF HInv, PushedOnce, IInv, TypeOK, PeerTypeOK
<1>4. /\ UNCHANGED <<idgen, pc, kind, rid, target, requests, future, endpoints, goodbyeRequest,
                     goodbyes, toRouter, push, live, goodbyeSent>>
      /\ connected' => connected
      /\ \/ task' = [task EXCEPT ![n] = "queued"] /\ reader' = "check"
         \/ /\ \/ task' = [task EXCEPT ![n] = "refused"]
               \/ task' = [task EXCEPT ![n] = "orphan"] /\ endpoints[push[n].handle] = NoOp
            /\ reader' = "check" \/ (reader' = "crashed" /\ IsInvocation(n) /\ ~connected')
  <2>1. CASE ReaderDispatch
    BY <1>2, <2>1 DEF ReaderDispatch, requestVars, dictVars, leaveVars, routerVars
  <2>2. CASE ReaderUnhandled
    <3>1. /\ UNCHANGED <<idgen, pc, kind, rid, target, requests, future, endpoints,
                         goodbyeRequest, goodbyes, toRouter, push, live, goodbyeSent>>
          /\ \/ task' = [task EXCEPT ![n] = "refused"]
             \/ task' = [task EXCEPT ![n] = "orphan"] /\ endpoints[push[n].handle] = NoOp
      BY <1>2, <2>2 DEF ReaderUnhandled, requestVars, dictVars, leaveVars, routerVars
    <3>2. \/ reader' = "check" /\ connected' = connected
          \/ reader' = "crashed" /\ IsInvocation(n) /\ connected' = FALSE
      BY <1>2, <2>2 DEF ReaderUnhandled
    <3> QED
      BY <3>1, <3>2
  <2> QED
    BY <2>1, <2>2
<1> HIDE DEF n
<1>5. PICK v \in {"queued", "orphan", "refused"} :
           /\ task' = [task EXCEPT ![n] = v]
           /\ v = "orphan" => endpoints[push[n].handle] = NoOp
           /\ reader' = "check" \/
                 (reader' = "crashed" /\ v # "queued" /\ IsInvocation(n) /\ ~connected')
  BY <1>4
<1>6. task'[n] = v /\ \A k \in Pushes : k # n => task'[k] = task[k]
  BY <1>3, <1>5 DEF IInv, TypeOK
<1>7. v = "orphan" => push[n].late
  <2> SUFFICES ASSUME v = "orphan", ~push[n].late
               PROVE  FALSE
    OBVIOUS
  <2>1. HandlerAt(push[n].handle, 1)
    BY <1>2, <1>3 DEF HInv, Handlers, n
  <2> QED
    BY <1>5, <2>1 DEF HandlerAt
<1>8. /\ AnsweredOnce' /\ Resolution' /\ KnownCalls' /\ Handlers' /\ Installed'
      /\ PendingEntry'
  BY <1>1, <1>3, <1>4, NoAnswerTaken
<1>9. PushedOnce' /\ GoodbyeLast'
  BY <1>1, <1>3, <1>4, <1>6, RestInOrder DEF n
<1>10. NoOrphan'
  BY <1>4, <1>6, <1>7 DEF HInv, NoOrphan
<1>11. ReceiveLoopSurvives'
  <2> SUFFICES ASSUME reader' = "crashed"
               PROVE  /\ ~connected'
                      /\ \E k \in Pushes : Unrun(k)' /\ IsInvocation(k)'
    BY DEF ReceiveLoopSurvives, Unrun
  <2>1. v # "queued" /\ IsInvocation(n) /\ ~connected'
    BY <1>5
  <2>2. PICK k \in Pushes : k = n
    BY <1>3
  <2>3. IsInvocation(k)'
    BY <1>4, <2>1, <2>2 DEF IsInvocation
  <2>4. Unrun(k)'
    BY <1>4, <1>5, <1>6, <1>7, <2>1, <2>2 DEF Unrun
  <2> QED
    BY <2>1, <2>2, <2>3, <2>4
<1> QED
  BY <1>8, <1>9, <1>10, <1>11 DEF HInv

\* The reader processes the GOODBYE: there is one only, so that its future is not set.
LEMMA GoodbyeHandlers ==
    ASSUME IInv, HInv, ReaderGoodbye
    PROVE  HInv'
<1>1. /\ fromRouter # <<>> /\ fromRouter' = Tail(fromRouter)
      /\ Head(fromRouter).type = "goodbye" /\ reader = "recv"
      /\ UNCHANGED <<idgen, pc, kind, rid, target, requests, future, endpoints, goodbyeRequest,
                     task, connected, toRouter, push, live, goodbyeSent>>
      /\ goodbyes' = goodbyes \cup {goodbyeRequest}
      /\ reader' = IF goodbyeRequest \in goodbyes THEN "crashed" ELSE "check"
  BY DEF ReaderGoodbye, Receive, requestVars, dictVars, routerVars
<1>2. 1 \in 1..Len(fromRouter) /\ fromRouter[1].type = "goodbye"
  BY <1>1, TakenFirst
<1>3. goodbyeSent /\ goodbyes = {}
  BY <1>2 DEF HInv, GoodbyeLast
<1>4. reader' = "check"
  BY <1>1, <1>3
<1>5. /\ AnsweredOnce' /\ Resolution' /\ KnownCalls' /\ Handlers' /\ Installed'
      /\ PendingEntry'
  BY <1>1, <1>2, NoAnswerTaken
<1>6. PushedOnce' /\ GoodbyeLast'
  BY <1>1, <1>2, <1>3, RestInOrder
<1>7. NoOrphan' /\ ReceiveLoopSurvives'
  BY <1>1, <1>4 DEF HInv, NoOrphan, ReceiveLoopSurvives
<1> QED
  BY <1>5, <1>6, <1>7 DEF HInv

-----------------------------------------------------------------------------
(* The router adds a message to what is under way.                         *)

LEMMA Added ==
    ASSUME IInv, NEW L \in Nat, L = Len(fromRouter), NEW m,
           fromRouter' = Append(fromRouter, m)
    PROVE  /\ Len(fromRouter') = L + 1 /\ L + 1 \in 1..Len(fromRouter')
           /\ fromRouter'[L + 1] = m
           /\ \A i \in 1..L : fromRouter'[i] = fromRouter[i]
           /\ \A i \in 1..Len(fromRouter') : i = L + 1 \/ i \in 1..L
<1>1. fromRouter \in Seq(Messages)
  BY DEF IInv, TypeOK, PeerTypeOK
<1>2. /\ Len(fromRouter') = L + 1 /\ fromRouter'[L + 1] = m
      /\ \A i \in 1..L : fromRouter'[i] = fromRouter[i]
  BY <1>1
<1> QED
  BY <1>2

\* Whoever finds a handler still finds it; the new message may add one, or take one.
LEMMA HandlerGrows ==
    ASSUME IInv, NEW L \in Nat, L = Len(fromRouter), NEW m,
           fromRouter' = Append(fromRouter, m), UNCHANGED <<target, endpoints>>
    PROVE  /\ \A i \in 1..L, h \in Ops : Closes(i, h)' <=> Closes(i, h)
           /\ \A i \in 1..(L + 1), h \in Ops : HandlerAt(h, i) => HandlerAt(h, i)'
           /\ \A h \in Ops : HandlerAt(h, L + 1) /\ ~(Closes(L + 1, h)') => HandlerAt(h, L + 2)'
           /\ \A h \in Ops : Opens(L + 1, h)' => HandlerAt(h, L + 2)'
<1>0. /\ Len(fromRouter') = L + 1 /\ L + 1 \in 1..Len(fromRouter')
      /\ \A i \in 1..L : fromRouter'[i] = fromRouter[i]
      /\ \A i \in 1..Len(fromRouter') : i = L + 1 \/ i \in 1..L
      /\ \A i \in 1..L : i \in 1..Len(fromRouter')
  BY Added
<1>1. ASSUME NEW i \in 1..L, NEW h \in Ops
      PROVE  (Closes(i, h)' <=> Closes(i, h)) /\ (Opens(i, h)' <=> Opens(i, h))
  BY <1>0 DEF Closes, Opens
<1>2. ASSUME NEW h \in Ops, NEW i \in 1..(L + 1), NEW e \in {i, L + 2}, HandlerAt(h, i),
             e = i \/ (i = L + 1 /\ ~(Closes(L + 1, h)'))
      PROVE  HandlerAt(h, e)'
  <2>1. ASSUME NEW j \in 0..L, \A k \in 1..L : j < k /\ k < i => ~Closes(k, h)
        PROVE  \A k \in 1..Len(fromRouter') : j < k /\ k < e => ~(Closes(k, h)')
    <3> SUFFICES ASSUME NEW k \in 1..Len(fromRouter'), j < k, k < e
                 PROVE  ~(Closes(k, h)')
      OBVIOUS
    <3>1. CASE k = L + 1
      BY <1>2, <3>1
    <3>2. CASE k # L + 1
      <4>1. k \in 1..L /\ k < i
        BY <1>0, <1>2, <3>2
      <4> QED
        BY <1>1, <2>1, <4>1
    <3> QED
      BY <3>1, <3>2
  <2>2. CASE endpoints[h] # NoOp /\ \A k \in 1..L : k < i => ~Closes(k, h)
    <3>1. \A k \in 1..Len(fromRouter') : 0 < k /\ k < e => ~(Closes(k, h)')
      BY <2>1, <2>2
    <3>2. endpoints'[h] # NoOp /\ \A k \in 1..Len(fromRouter') : k < e => ~(Closes(k, h)')
      BY <2>2, <3>1
    <3> QED
      BY <3>2 DEF HandlerAt
  <2>3. ASSUME NEW j \in 1..L, j < i, Opens(j, h),
               \A k \in 1..L : j < k /\ k < i => ~Closes(k, h)
        PROVE  HandlerAt(h, e)'
    <3>1. j \in 1..Len(fromRouter') /\ j < e /\ Opens(j, h)'
      BY <1>0, <1>1, <1>2, <2>3
    <3>2. \A k \in 1..Len(fromRouter') : j < k /\ k < e => ~(Closes(k, h)')
      BY <2>1, <2>3
    <3> QED
      BY <3>1, <3>2 DEF HandlerAt
  <2> QED
    BY <1>2, <2>2, <2>3 DEF HandlerAt
<1>3. ASSUME NEW h \in Ops, Opens(L + 1, h)'
      PROVE  HandlerAt(h, L + 2)'
  <2>1. \A k \in 1..Len(fromRouter') : L + 1 < k /\ k < L + 2 => ~(Closes(k, h)')
    BY <1>0
  <2>2. L + 1 \in 1..Len(fromRouter') /\ L + 1 < L + 2
    BY <1>0
  <2> QED
    BY <1>3, <2>1, <2>2 DEF HandlerAt
<1> QED
  BY <1>1, <1>2, <1>3

\* The router closes an id it has open, opens the one it answers with, and pushes for
\* open ones or says the message is late: so the handlers needed are there.
LEMMA HandlersGrow ==
    ASSUME IInv, IInv', Handlers, NEW L \in Nat, L = Len(fromRouter), NEW m,
           fromRouter' = Append(fromRouter, m), UNCHANGED <<target, endpoints>>,
           \A h \in live' : (h \in live /\ ~(Closes(L + 1, h)')) \/ Opens(L + 1, h)',
           \A h \in Ops : Closes(L + 1, h)' => h \in live,
           m.type = "push" => push'[m.n].late \/ push'[m.n].handle \in live,
           m.type = "reply" /\ m.ok /\ m.key[1] \in CloseKinds => target[m.op] # NoOp,
           \A i \in 1..L : fromRouter[i].type = "push" =>
                push'[fromRouter[i].n] = push[fromRouter[i].n]
    PROVE  Handlers'
<1>0. /\ Len(fromRouter') = L + 1 /\ L + 1 \in 1..Len(fromRouter')
      /\ fromRouter'[L + 1] = m
      /\ \A i \in 1..L : fromRouter'[i] = fromRouter[i]
      /\ \A i \in 1..Len(fromRouter') : i = L + 1 \/ i \in 1..L
      /\ \A i \in 1..L : i \in 1..(L + 1)
      /\ L + 1 \in 1..(L + 1)
  BY Added
<1>1. /\ \A i \in 1..L, h \in Ops : Closes(i, h)' <=> Closes(i, h)
      /\ \A i \in 1..(L + 1), h \in Ops : HandlerAt(h, i) => HandlerAt(h, i)'
      /\ \A h \in Ops : HandlerAt(h, L + 1) /\ ~(Closes(L + 1, h)') => HandlerAt(h, L + 2)'
      /\ \A h \in Ops : Opens(L + 1, h)' => HandlerAt(h, L + 2)'
  BY HandlerGrows
<1>2. live \subseteq Ops /\ live' \subseteq Ops
  BY DEF IInv, TypeOK, PeerTypeOK
<1>3. \A h \in live : HandlerAt(h, L + 1)
  BY <1>0 DEF Handlers
<1>4. \A h \in live : HandlerAt(h, L + 1)'
  BY <1>0, <1>1, <1>2, <1>3
<1>5. \A i \in 1..(Len(fromRouter') + 1), h \in live' :
         i = Len(fromRouter') + 1 => HandlerAt(h, i)'
  <2> SUFFICES ASSUME NEW i \in 1..(L + 2), NEW h \in live', i = L + 2
               PROVE  HandlerAt(h, i)'
    BY <1>0
  <2>1. h \in Ops
    BY <1>2
  <2>2. CASE Opens(L + 1, h)'
    BY <1>1, <2>1, <2>2
  <2>3. CASE h \in live /\ ~(Closes(L + 1, h)')
    BY <1>1, <1>3, <2>1, <2>3
  <2> QED
    BY <2>2, <2>3
<1>6. ASSUME NEW i \in 1..Len(fromRouter'), NEW h \in Ops, Closes(i, h)'
      PROVE  HandlerAt(h, i)'
  <2>1. CASE i = L + 1
    BY <1>4, <1>6, <2>1
  <2>2. CASE i # L + 1
    <3>1. i \in 1..L /\ Closes(i, h)
      BY <1>0, <1>1, <1>6, <2>2
    <3> QED
      BY <1>0, <1>1, <3>1 DEF Handlers
  <2> QED
    BY <2>1, <2>2
<1>7. ASSUME NEW i \in 1..Len(fromRouter'), NEW h \in Ops, fromRouter'[i].type = "push",
             ~push'[fromRouter'[i].n].late, push'[fromRouter'[i].n].handle = h
      PROVE  HandlerAt(h, i)'
  <2>1. CASE i = L + 1
    BY <1>0, <1>4, <1>7, <2>1
  <2>2. CASE i # L + 1
    <3>1. i \in 1..L /\ fromRouter'[i] = fromRouter[i]
      BY <1>0, <2>2
    <3>2. HandlerAt(h, i)
      BY <1>7, <3>1 DEF Handlers
    <3> QED
      BY <1>0, <1>1, <3>1, <3>2
  <2> QED
    BY <2>1, <2>2
<1>8. ASSUME NEW i \in 1..Len(fromRouter'), fromRouter'[i].type = "reply", fromRouter'[i].ok,
             fromRouter'[i].key[1] \in CloseKinds
      PROVE  target'[fromRouter'[i].op] # NoOp
  BY <1>0, <1>8 DEF Handlers
<1> QED
  BY <1>5, <1>6, <1>7, <1>8 DEF Handlers

\* The rest of what a message of the router has to keep in order.
LEMMA MessageAdded ==
    ASSUME IInv, HInv, RouterUp, NEW L \in Nat, L = Len(fromRouter), NEW m,
           fromRouter' = Append(fromRouter, m),
           UNCHANGED <<kind, rid, target, pc, requests, future, endpoints, goodbyeRequest,
                       goodbyes, task, reader, connected>>,
           toRouter' \subseteq toRouter,
           m.type = "reply" =>
               /\ m.op \in toRouter /\ m.op \notin toRouter'
               /\ m.key = <<kind[m.op], rid[m.op]>> /\ kind[m.op] \in ReplyKinds
               /\ Made(m.handle)
               /\ m.ok /\ m.key[1] \in OpenKinds => m.handle # NoOp,
           m.type = "push" => push[m.n] = NoPush /\ push'[m.n].handle # NoOp /\ m.n \in Pushes,
           m.type = "goodbye" => goodbyeSent',
           \A h \in live' : pc[h] # "idle",
           \A n \in Pushes : push'[n] = push[n] \/
               (push[n] = NoPush /\ push'[n].handle # NoOp /\ Made(push'[n].handle)),
           Handlers'
    PROVE  HInv'
<1>0. /\ Len(fromRouter') = L + 1 /\ L + 1 \in 1..Len(fromRouter')
      /\ fromRouter'[L + 1] = m
      /\ \A i \in 1..L : fromRouter'[i] = fromRouter[i]
      /\ \A i \in 1..Len(fromRouter') : i = L + 1 \/ i \in 1..L
  BY Added
<1>1. ~goodbyeSent /\ goodbyes = {} /\ \A i \in 1..L : fromRouter[i].type # "goodbye"
  BY DEF RouterUp, HInv, GoodbyeLast
<1>2. AnsweredOnce'
  <2>1. ASSUME NEW i \in 1..Len(fromRouter'), fromRouter'[i].type = "reply"
        PROVE  /\ pc[fromRouter'[i].op] \notin Early
               /\ fromRouter'[i].op \notin toRouter'
               /\ requests[fromRouter'[i].key] = fromRouter'[i].op
    <3>1. CASE i = L + 1
      <4>1. fromRouter'[i] = m /\ m.type = "reply"
        BY <1>0, <2>1, <3>1
      <4>2. /\ m.op \in toRouter /\ m.op \notin toRouter'
            /\ m.key = <<kind[m.op], rid[m.op]>> /\ kind[m.op] \in ReplyKinds
        BY <4>1
      <4>3. pc[m.op] \notin Early /\ requests[<<kind[m.op], rid[m.op]>>] = m.op
        BY <4>2 DEF HInv, AnsweredOnce
      <4> QED
        BY <4>1, <4>2, <4>3
    <3>2. CASE i # L + 1
      BY <1>0, <2>1, <3>2 DEF HInv, AnsweredOnce
    <3> QED
      BY <3>1, <3>2
  <2>2. ASSUME NEW i \in 1..L, fromRouter[i].type = "reply", m.type = "reply"
        PROVE  fromRouter[i].op # m.op
    BY <2>2 DEF HInv, AnsweredOnce
  <2>3. ASSUME NEW i \in 1..Len(fromRouter'), NEW j \in 1..Len(fromRouter'),
               fromRouter'[i].type = "reply", fromRouter'[j].type = "reply",
               fromRouter'[i].op = fromRouter'[j].op
        PROVE  i = j
    <3>1. CASE i \in 1..L /\ j \in 1..L
      BY <1>0, <2>3, <3>1 DEF HInv, AnsweredOnce
    <3>2. CASE i = L + 1 /\ j \in 1..L
      BY <1>0, <2>2, <2>3, <3>2
    <3>3. CASE i \in 1..L /\ j = L + 1
      BY <1>0, <2>2, <2>3, <3>3
    <3> QED
      BY <1>0, <3>1, <3>2, <3>3
  <2> QED
    BY <2>1, <2>3 DEF HInv, AnsweredOnce
<1>3. Resolution' /\ Installed' /\ PendingEntry'
  BY DEF HInv, Resolution, Resolved, Installed, PendingEntry
<1>4. KnownCalls'
  <2>1. \A p : Made(p)' <=> Made(p)
    BY DEF Made
  <2>2. \A n \in Pushes : Made(push'[n].handle)
    BY DEF HInv, KnownCalls
  <2>3. \A n \in Pushes : Made(push[n].handle)'
    BY <2>2 DEF Made
  <2>4. ASSUME NEW i \in 1..Len(fromRouter'), fromRouter'[i].type = "reply"
        PROVE  /\ Made(fromRouter'[i].handle)
               /\ fromRouter'[i].ok /\ fromRouter'[i].key[1] \in OpenKinds =>
                     fromRouter'[i].handle # NoOp
    <3>1. CASE i = L + 1
      BY <1>0, <2>4, <3>1
    <3>2. CASE i # L + 1
      BY <1>0, <2>4, <3>2 DEF HInv, KnownCalls
    <3> QED
      BY <3>1, <3>2
  <2> QED
    BY <2>3, <2>4 DEF HInv, KnownCalls, Made
<1>5. PushedOnce'
  <2>1. ASSUME NEW i \in 1..L, fromRouter[i].type = "push"
        PROVE  /\ fromRouter[i].n \in Pushes /\ push[fromRouter[i].n].handle # NoOp
               /\ push'[fromRouter[i].n] = push[fromRouter[i].n]
               /\ m.type = "push" => fromRouter[i].n # m.n
    <3>1. fromRouter[i].n \in Pushes /\ push[fromRouter[i].n].handle # NoOp
      BY <2>1, UnderWay DEF HInv, PushedOnce
    <3> QED
      BY <3>1 DEF NoPush
  <2>2. ASSUME NEW i \in 1..Len(fromRouter'), fromRouter'[i].type = "push"
        PROVE  push'[fromRouter'[i].n].handle # NoOp /\ task[fromRouter'[i].n] = "none"
    <3>1. CASE i = L + 1
      BY <1>0, <2>2, <3>1 DEF HInv, PushedOnce, NoPush
    <3>2. CASE i # L + 1
      BY <1>0, <2>1, <2>2, <3>2 DEF HInv, PushedOnce
    <3> QED
      BY <3>1, <3>2
  <2>3. ASSUME NEW i \in 1..Len(fromRouter'), NEW j \in 1..Len(fromRouter'),
               fromRouter'[i].type = "push", fromRouter'[j].type = "push",
               fromRouter'[i].n = fromRouter'[j].n
        PROVE  i = j
    <3>1. CASE i \in 1..L /\ j \in 1..L
      BY <1>0, <2>3, <3>1 DEF HInv, PushedOnce
    <3>2. CASE i = L + 1 /\ j \in 1..L
      BY <1>0, <2>1, <2>3, <3>2
    <3>3. CASE i \in 1..L /\ j = L + 1
      BY <1>0, <2>1, <2>3, <3>3
    <3> QED
      BY <1>0, <3>1, <3>2, <3>3
  <2>4. \A n \in Pushes : push'[n].handle = NoOp => push'[n] = NoPush /\ task[n] = "none"
    BY DEF HInv, PushedOnce
  <2> QED
    BY <2>2, <2>3, <2>4 DEF PushedOnce
<1>6. GoodbyeLast'
  <2>1. ASSUME NEW i \in 1..Len(fromRouter'), fromRouter'[i].type = "goodbye"
        PROVE  goodbyeSent' /\ i = Len(fromRouter')
    BY <1>0, <1>1, <2>1
  <2> QED
    BY <1>1, <2>1 DEF GoodbyeLast
<1>7. NoOrphan' /\ ReceiveLoopSurvives'
  <2>1. ASSUME NEW n \in Pushes, task[n] \in {"orphan", "refused"}
        PROVE  push'[n] = push[n]
    BY <2>1 DEF HInv, PushedOnce, NoPush
  <2> QED
    BY <2>1 DEF HInv, NoOrphan, ReceiveLoopSurvives, IsInvocation
<1> QED
  BY <1>2, <1>3, <1>4, <1>5, <1>6, <1>7 DEF HInv

\* The router answers a request.
LEMMA AnswerHandlers ==
    ASSUME IInv, IInv', HInv, NEW o \in Ops, RouterAnswers(o), UNCHANGED localVars
    PROVE  HInv'
<1>0. /\ RouterUp /\ o \in toRouter /\ kind[o] \in ReplyKinds /\ toRouter' = toRouter \ {o}
      /\ UNCHANGED <<kind, rid, target, push, goodbyeSent>>
      /\ UNCHANGED <<pc, requests, future, endpoints, goodbyeRequest, goodbyes, task, reader,
                     connected>>
  BY DEF RouterAnswers, RouterAccept, RouterRefuse, requestVars, routerVars, localVars, dictVars,
         leaveVars
<1>1. pc[o] # "idle"
  BY <1>0 DEF HInv, AnsweredOnce, Early
<1>2. PICK ok \in BOOLEAN, h \in Ops \cup {NoOp} :
         /\ fromRouter' = Append(fromRouter, Reply(o, ok, h))
         /\ ok /\ kind[o] \in OpenKinds => h = o \/ h \in live
         /\ ok /\ kind[o] \notin OpenKinds => h = NoOp
         /\ ~ok => h = NoOp
         /\ ok /\ kind[o] \in CloseKinds => target[o] \in live
         /\ live' = IF ok THEN LiveAfter(o, h) ELSE live
  <2>1. CASE RouterRefuse(o)
    BY <2>1 DEF RouterRefuse, routerVars
  <2>2. CASE RouterAccept(o)
    <3>1. PICK h \in AnswerHandles(o) : /\ fromRouter' = Append(fromRouter, Reply(o, TRUE, h))
                                        /\ live' = LiveAfter(o, h)
      BY <2>2 DEF RouterAccept
    <3>2. /\ kind[o] \in OpenKinds => h = o \/ h \in live
          /\ kind[o] \notin OpenKinds => h = NoOp
      BY <3>1 DEF AnswerHandles, OpenKinds
    <3>3. live \subseteq Ops
      BY DEF IInv, TypeOK, PeerTypeOK
    <3>4. kind[o] \in CloseKinds => target[o] \in live
      BY <2>2 DEF RouterAccept
    <3> QED
      BY <3>1, <3>2, <3>3, <3>4
  <2> QED
    BY <2>1, <2>2 DEF RouterAnswers
<1>3. PICK m : /\ m = Reply(o, ok, h) /\ m.type = "reply" /\ m.op = o /\ m.ok = ok
               /\ m.handle = h /\ m.key = <<kind[o], rid[o]>> /\ m.key[1] = kind[o]
  <2> DEFINE r == Reply(o, ok, h)
  <2>1. /\ r.type = "reply" /\ r.op = o /\ r.ok = ok /\ r.handle = h
        /\ r.key = <<kind[o], rid[o]>> /\ r.key[1] = kind[o]
    BY DEF Reply
  <2> HIDE DEF r
  <2>2. r = Reply(o, ok, h)
    BY DEF r
  <2> QED
    BY <2>1, <2>2
<1>4. PICK L \in Nat : L = Len(fromRouter)
  BY DEF IInv, TypeOK, PeerTypeOK
<1>5. fromRouter' = Append(fromRouter, m) /\ fromRouter'[L + 1] = m
  <2>1. fromRouter' = Append(fromRouter, m)
    BY <1>2, <1>3
  <2> QED
    BY <1>4, <2>1, Added
<1>6. ASSUME NEW g \in Ops
      PROVE  /\ Opens(L + 1, g)' <=> (ok /\ kind[o] \in OpenKinds /\ h = g)
             /\ Closes(L + 1, g)' <=> (ok /\ kind[o] \in CloseKinds /\ target[o] = g)
  BY <1>0, <1>3, <1>5 DEF Opens, Closes
<1>7. live \subseteq Ops /\ live' \subseteq Ops /\ NoOp \notin live
  BY PeerAssumption DEF IInv, TypeOK, PeerTypeOK
<1>8. OpenKinds \cap CloseKinds = {}
  BY DEF OpenKinds, CloseKinds
<1>9. /\ ok /\ kind[o] \in OpenKinds => live' = live \cup {h}
      /\ ok /\ kind[o] \in CloseKinds => live' = live \ {target[o]}
      /\ ~ok \/ kind[o] \notin OpenKinds \cup CloseKinds => live' = live
  <2>1. CASE ok /\ kind[o] \in OpenKinds
    BY <1>2, <1>8, <2>1 DEF LiveAfter
  <2>2. CASE ok /\ kind[o] \in CloseKinds
    BY <1>2, <1>8, <2>2 DEF LiveAfter
  <2>3. CASE ~ok \/ kind[o] \notin OpenKinds \cup CloseKinds
    BY <1>2, <2>3 DEF LiveAfter
  <2> QED
    BY <1>8, <2>1, <2>2, <2>3
<1>10. Handlers'
  <2>1. \A g \in live' : (g \in live /\ ~(Closes(L + 1, g)')) \/ Opens(L + 1, g)'
    <3> TAKE g \in live'
    <3>1. g \in Ops
      BY <1>7
    <3> QED
      BY <1>6, <1>8, <1>9, <3>1
  <2>2. \A g \in Ops : Closes(L + 1, g)' => g \in live
    BY <1>2, <1>6
  <2>3. m.type = "reply" /\ m.ok /\ m.key[1] \in CloseKinds => target[m.op] # NoOp
    BY <1>2, <1>3, <1>7
  <2> QED
    BY <1>0, <1>3, <1>4, <1>5, <2>1, <2>2, <2>3, HandlersGrow DEF HInv
<1>11. \A g \in live' : pc[g] # "idle"
  <2>1. \A g \in live : pc[g] # "idle"
    BY DEF HInv, KnownCalls
  <2>2. live' \subseteq live \cup {o}
    BY <1>2, <1>8, <1>9
  <2> QED
    BY <1>1, <2>1, <2>2
<1>12. Made(m.handle) /\ (m.ok /\ m.key[1] \in OpenKinds => m.handle # NoOp)
  <2>1. h = NoOp \/ h = o \/ h \in live
    BY <1>2
  <2>2. Made(h)
    BY <1>1, <2>1 DEF HInv, KnownCalls, Made
  <2> QED
    BY <1>2, <1>3, <1>7, <2>2, PeerAssumption
<1> QED
  BY <1>0, <1>3, <1>4, <1>5, <1>10, <1>11, <1>12, MessageAdded

\* The router pushes an INVOCATION or EVENT: for an id it has open, or a late one.
LEMMA RouterPushHandlers ==
    ASSUME IInv, IInv', HInv, NEW n \in Pushes, RouterPush(n), UNCHANGED localVars
    PROVE  HInv'
<1>0. /\ RouterUp /\ UNCHANGED <<kind, rid, target, toRouter, live, goodbyeSent>>
      /\ push[n] = NoPush /\ fromRouter' = Append(fromRouter, Pushed(n))
      /\ UNCHANGED <<pc, requests, future, endpoints, goodbyeRequest, goodbyes, task, reader,
                     connected>>
  BY DEF RouterPush, requestVars, localVars, dictVars, leaveVars
<1>1. PICK h \in Ops : /\ h \in live \/ ClosedBefore(h)
                       /\ push' = [push EXCEPT ![n] = [handle |-> h, late |-> h \notin live]]
  BY DEF RouterPush
<1>2. /\ push'[n].handle = h /\ (push'[n].late \/ h \in live)
      /\ \A k \in Pushes : k # n => push'[k] = push[k]
  BY <1>1 DEF IInv, TypeOK, PeerTypeOK
<1>3. Made(h)
  BY <1>1 DEF HInv, KnownCalls, ClosedBefore, Made
<1>4. PICK L \in Nat : L = Len(fromRouter)
  BY DEF IInv, TypeOK, PeerTypeOK
<1>5. PICK m : m = Pushed(n) /\ m.type = "push" /\ m.n = n
  <2>1. Pushed(n).type = "push" /\ Pushed(n).n = n
    BY DEF Pushed
  <2> QED
    BY <2>1
<1>6. fromRouter' = Append(fromRouter, m) /\ fromRouter'[L + 1] = m
  <2>1. fromRouter' = Append(fromRouter, m)
    BY <1>0, <1>5
  <2> QED
    BY <1>4, <2>1, Added
<1>7. \A g \in Ops : ~(Closes(L + 1, g)')
  BY <1>5, <1>6 DEF Closes
<1>8. \A i \in 1..L : fromRouter[i].type = "push" =>
         push'[fromRouter[i].n] = push[fromRouter[i].n]
  <2> SUFFICES ASSUME NEW i \in 1..Len(fromRouter), fromRouter[i].type = "push"
               PROVE  push'[fromRouter[i].n] = push[fromRouter[i].n]
    BY <1>4
  <2>1. fromRouter[i].n \in Pushes /\ push[fromRouter[i].n].handle # NoOp
    BY UnderWay DEF HInv, PushedOnce
  <2> QED
    BY <1>0, <1>2, <2>1 DEF NoPush
<1>9. live \subseteq Ops
  BY DEF IInv, TypeOK, PeerTypeOK
<1>10. Handlers'
  <2>1. \A g \in live' : g \in live /\ ~(Closes(L + 1, g)')
    BY <1>0, <1>7, <1>9
  <2>2. m.type # "reply" /\ (push'[m.n].late \/ push'[m.n].handle \in live)
    BY <1>2, <1>5
  <2> QED
    BY <1>0, <1>4, <1>6, <1>7, <1>8, <2>1, <2>2, HandlersGrow DEF HInv
<1>11. \A k \in Pushes : push'[k] = push[k] \/
          (push[k] = NoPush /\ push'[k].handle # NoOp /\ Made(push'[k].handle))
  BY <1>0, <1>2, <1>3, PeerAssumption
<1>12. \A g \in live' : pc[g] # "idle"
  BY <1>0 DEF HInv, KnownCalls
<1>13. /\ m.type # "reply" /\ m.type # "goodbye"
       /\ push[m.n] = NoPush /\ push'[m.n].handle # NoOp /\ m.n \in Pushes
  BY <1>0, <1>2, <1>5, PeerAssumption
<1> QED
  BY <1>0, <1>4, <1>6, <1>10, <1>11, <1>12, <1>13, MessageAdded

\* The router says GOODBYE, once.
LEMMA RouterGoodbyeHandlers ==
    ASSUME IInv, IInv', HInv, RouterGoodbye, UNCHANGED localVars
    PROVE  HInv'
<1>0. /\ RouterUp /\ UNCHANGED <<kind, rid, target, toRouter, live, push>> /\ goodbyeSent'
      /\ fromRouter' = Append(fromRouter, Goodbye) /\ Goodbye.type = "goodbye"
      /\ UNCHANGED <<pc, requests, future, endpoints, goodbyeRequest, goodbyes, task, reader,
                     connected>>
  BY DEF RouterGoodbye, requestVars, localVars, dictVars, leaveVars, Goodbye
<1>1. PICK L \in Nat : L = Len(fromRouter)
  BY DEF IInv, TypeOK, PeerTypeOK
<1>2. PICK m : m = Goodbye
  OBVIOUS
<1>3. fromRouter' = Append(fromRouter, m) /\ m.type = "goodbye"
  BY <1>0, <1>2
<1>4. fromRouter'[L + 1] = m
  BY <1>1, <1>3, Added
<1>5. \A g \in Ops : ~(Closes(L + 1, g)')
  BY <1>3, <1>4 DEF Closes
<1>6. live \subseteq Ops
  BY DEF IInv, TypeOK, PeerTypeOK
<1>7. Handlers'
  <2>1. \A g \in live' : g \in live /\ ~(Closes(L + 1, g)')
    BY <1>0, <1>5, <1>6
  <2> QED
    BY <1>0, <1>1, <1>3, <1>5, <2>1, HandlersGrow DEF HInv
<1>8. \A g \in live' : pc[g] # "idle"
  BY <1>0 DEF HInv, KnownCalls
<1> QED
  BY <1>0, <1>1, <1>3, <1>7, <1>8, MessageAdded

-----------------------------------------------------------------------------
(* The handlers are in place in every state.                               *)

LEMMA InitHandlers ==
    ASSUME Init
    PROVE  HInv
<1> USE PeerAssumption DEF Init, PeerInit
<1>1. /\ Len(fromRouter) = 0 /\ \A i \in 1..Len(fromRouter) : FALSE
      /\ live = {} /\ \A o \in Ops : ~Resolved(o)
  BY DEF Resolved, Unset
<1>2. AnsweredOnce /\ PushedOnce /\ GoodbyeLast
  BY <1>1 DEF AnsweredOnce, PushedOnce, GoodbyeLast, NoPush
<1>3. Resolution /\ Installed /\ PendingEntry
  BY <1>1 DEF Resolution, Installed, PendingEntry, Unset
<1>4. KnownCalls
  BY <1>1 DEF KnownCalls, Made, Unset, NoPush
<1>5. Handlers
  BY <1>1 DEF Handlers
<1>6. NoOrphan /\ ReceiveLoopSurvives
  BY DEF NoOrphan, ReceiveLoopSurvives
<1> QED
  BY <1>2, <1>3, <1>4, <1>5, <1>6 DEF HInv

\* Every step keeps the handlers in place.
LEMMA NextHandlers ==
    ASSUME IInv, HInv, [Next]_vars
    PROVE  HInv'
<1> USE DEF dictVars, leaveVars, netVars, requestVars, routerVars
<1>0. IInv'
  BY NextInv
<1>1. ASSUME NEW o \in Ops, UserStep(o)
      PROVE  HInv'
  BY <1>0, <1>1, UserChanges, UserHandlers DEF HInv
<1>2. CASE ReaderReply
  BY <1>0, <1>2, ReplyHandlers
<1>3. CASE ReaderDispatch \/ ReaderUnhandled
  BY <1>3, PushHandlers
<1>4. CASE ReaderGoodbye
  BY <1>4, GoodbyeHandlers
<1>5. CASE ReaderCheck \/ ReaderError \/ ReaderShutdown \/ ReaderStop
  <2>1. /\ UNCHANGED <<kind, rid, target, pc, requests, toRouter, fromRouter, future,
                       endpoints, live, push, goodbyeSent, goodbyes, goodbyeRequest>>
        /\ reader' # "crashed"
    BY <1>5 DEF ReaderCheck, ReaderError, ReaderShutdown, ReaderStop
  <2>2. connected' => connected
    BY <1>5 DEF ReaderCheck, ReaderError, ReaderShutdown, ReaderStop
  <2>3. \A n \in Pushes : task'[n] = task[n] \/
            (task[n] \notin Untaken /\ task'[n] \notin Untaken)
    BY <1>5 DEF ReaderCheck, ReaderError, ReaderShutdown, ReaderStop, Cancelled, Untaken
  <2> QED
    BY <2>1, <2>2, <2>3, QuietHandlers
<1>6. CASE RegisterCallback \/ CallbackFinish \/ WebSocketNotices
  <2>1. /\ UNCHANGED <<kind, rid, target, pc, requests, toRouter, fromRouter, future,
                       endpoints, live, push, goodbyeSent, goodbyes, goodbyeRequest, task,
                       reader>>
        /\ connected' => connected
    BY <1>6 DEF RegisterCallback, CallbackFinish, WebSocketNotices
  <2> QED
    BY <2>1, QuietHandlers
<1>7. ASSUME NEW n \in Pushes, WorkerStart(n) \/ WorkerFinish(n)
      PROVE  HInv'
  <2>1. PICK v \in {"running", "done", "unanswered"} : task' = [task EXCEPT ![n] = v]
    BY <1>7 DEF WorkerStart, WorkerFinish
  <2>2. /\ UNCHANGED <<kind, rid, target, pc, requests, toRouter, fromRouter, future,
                       endpoints, live, push, goodbyeSent, goodbyes, goodbyeRequest, reader>>
        /\ task[n] \in {"queued", "running"} /\ (connected' => connected)
    BY <1>7 DEF WorkerStart, WorkerFinish
  <2>3. \A k \in Pushes : task'[k] = task[k] \/
            (task[k] \notin Untaken /\ task'[k] \notin Untaken)
    BY <2>1, <2>2 DEF IInv, TypeOK, Untaken
  <2> QED
    BY <2>2, <2>3, QuietHandlers
<1>8. CASE PeerNext /\ UNCHANGED localVars
  <2>1. ASSUME NEW o \in Ops, RouterAnswers(o)
        PROVE  HInv'
    BY <1>0, <1>8, <2>1, AnswerHandlers
  <2>2. ASSUME NEW n \in Pushes, RouterPush(n)
        PROVE  HInv'
    BY <1>0, <1>8, <2>2, RouterPushHandlers
  <2>3. CASE RouterGoodbye
    BY <1>0, <1>8, <2>3, RouterGoodbyeHandlers
  <2>4. CASE LinkDown
    <3>1. UNCHANGED <<kind, rid, target, pc, requests, toRouter, fromRouter, future, endpoints,
                      live, push, goodbyeSent, goodbyes, goodbyeRequest, task, reader, connected>>
      BY <1>8, <2>4 DEF LinkDown, localVars
    <3> QED
      BY <3>1, QuietHandlers
  <2> QED
    BY <1>8, <2>1, <2>2, <2>3, <2>4 DEF PeerNext
<1>9. CASE UNCHANGED vars
  <2>1. UNCHANGED <<kind, rid, target, pc, requests, toRouter, fromRouter, future, endpoints,
                    live, push, goodbyeSent, goodbyes, goodbyeRequest, task, reader, connected>>
    BY <1>9 DEF vars, localVars, peerVars
  <2> QED
    BY <2>1, QuietHandlers
<1> QED
  BY <1>1, <1>2, <1>3, <1>4, <1>5, <1>6, <1>7, <1>8, <1>9 DEF Next, ReaderStep

LEMMA HandlersInv == Spec => [](IInv /\ HInv)
<1>1. Init => IInv /\ HInv
  BY InitInv, InitHandlers
<1>2. IInv /\ HInv /\ [Next]_vars => IInv' /\ HInv'
  BY NextInv, NextHandlers
<1> QED
  BY <1>1, <1>2, PTL DEF Spec

\* Every call that waits is in the dictionary under its id until its answer is
\* processed (session.py: store, then send).
THEOREM SessionPendingEntry == Spec => []PendingEntry
<1>1. HInv => PendingEntry
  BY DEF HInv
<1> QED
  BY HandlersInv, <1>1, PTL

-----------------------------------------------------------------------------
(* Whose handler is in place for an id.                                    *)

\* The call p was given the id h.
Owns(p, h) == kind[p] \in OpenKinds /\ Resolved(p) /\ future[p].ok /\ future[p].handle = h

\* The router gives a register() an id of its own, and a subscribe() that of a
\* subscription.
IdOf(o, h) == h \in Ops /\ kind[h] = kind[o] /\ (kind[o] = "register" => h = o)

Owners ==
    /\ \A h \in Ops : endpoints[h] # NoOp => Owns(endpoints[h], h)
    /\ \A o \in Ops :
          kind[o] \in OpenKinds /\ Resolved(o) /\ future[o].ok => IdOf(o, future[o].handle)
    /\ \A i \in 1..Len(fromRouter) :
          fromRouter[i].type = "reply" /\ fromRouter[i].ok
              /\ fromRouter[i].key[1] \in OpenKinds =>
                  IdOf(fromRouter[i].op, fromRouter[i].handle)

\* What is under way after a step was so before it, or is a good answer.
LEMMA OwnersStay ==
    ASSUME IInv, HInv, Owners, UNCHANGED <<endpoints, future>>,
           \A p \in Ops : pc[p] # "idle" => kind'[p] = kind[p],
           \A i \in 1..Len(fromRouter') :
               \/ \E j \in 1..Len(fromRouter) : fromRouter'[i] = fromRouter[j]
               \/ /\ fromRouter'[i].type = "reply" /\ fromRouter'[i].ok
                  /\ fromRouter'[i].key[1] \in OpenKinds
                  => /\ fromRouter'[i].op \in Ops /\ pc[fromRouter'[i].op] # "idle"
                     /\ IdOf(fromRouter'[i].op, fromRouter'[i].handle)
                     /\ pc[fromRouter'[i].handle] # "idle"
    PROVE  Owners'
<1>1. \A p \in Ops : Resolved(p) => pc[p] # "idle"
  BY DEF HInv, Resolution, Early
<1>2. ASSUME NEW h \in Ops, endpoints[h] # NoOp
      PROVE  Owns(endpoints[h], h)'
  <2>1. endpoints[h] \in Ops /\ Owns(endpoints[h], h)
    BY <1>2 DEF Owners, IInv, TypeOK
  <2> QED
    BY <1>1, <2>1 DEF Owns, Resolved
<1>3. ASSUME NEW o \in Ops, kind'[o] \in OpenKinds, Resolved(o), future[o].ok
      PROVE  IdOf(o, future[o].handle)'
  <2>1. kind'[o] = kind[o] /\ IdOf(o, future[o].handle)
    BY <1>1, <1>3 DEF Owners
  <2>2. pc[future[o].handle] # "idle"
    BY <2>1, PeerAssumption DEF IdOf, HInv, KnownCalls, Made
  <2> QED
    BY <2>1, <2>2 DEF IdOf
<1>4. ASSUME NEW i \in 1..Len(fromRouter'), fromRouter'[i].type = "reply", fromRouter'[i].ok,
             fromRouter'[i].key[1] \in OpenKinds
      PROVE  IdOf(fromRouter[i].op, fromRouter[i].handle)'
  <2>1. /\ fromRouter'[i].op \in Ops /\ pc[fromRouter'[i].op] # "idle"
        /\ IdOf(fromRouter'[i].op, fromRouter'[i].handle)
        /\ pc[fromRouter'[i].handle] # "idle"
    <3>1. ASSUME NEW j \in 1..Len(fromRouter), fromRouter'[i] = fromRouter[j]
          PROVE  /\ fromRouter[j].op \in Ops /\ pc[fromRouter[j].op] # "idle"
                 /\ IdOf(fromRouter[j].op, fromRouter[j].handle)
                 /\ pc[fromRouter[j].handle] # "idle"
      <4>1. fromRouter[j].op \in Ops /\ pc[fromRouter[j].op] # "idle"
        BY <1>4, <3>1, UnderWay
      <4>2. IdOf(fromRouter[j].op, fromRouter[j].handle)
        BY <1>4, <3>1 DEF Owners
      <4>3. pc[fromRouter[j].handle] # "idle"
        BY <1>4, <3>1, <4>2, PeerAssumption DEF IdOf, HInv, KnownCalls, Made
      <4> QED
        BY <4>1, <4>2, <4>3
    <3> QED
      BY <1>4, <3>1
  <2>2. PICK p, h : p = fromRouter'[i].op /\ h = fromRouter'[i].handle
    OBVIOUS
  <2>3. p \in Ops /\ h \in Ops /\ kind'[p] = kind[p] /\ kind'[h] = kind[h] /\ IdOf(p, h)
    BY <2>1, <2>2 DEF IdOf
  <2>4. IdOf(p, h)'
    BY <2>3 DEF IdOf
  <2> QED
    BY <2>2, <2>4
<1>5. \A o \in Ops : Resolved(o)' <=> Resolved(o)
  BY DEF Resolved
<1> QED
  BY <1>2, <1>3, <1>4, <1>5 DEF Owners

\* An answer puts the handler of its call in place, or takes one away.
LEMMA ReplyOwners ==
    ASSUME IInv, HInv, Owners, ReaderReply
    PROVE  Owners'
<1> DEFINE m == fromRouter[1]
           o == requests[m.key]
<1>1. /\ m = Head(fromRouter) /\ m.type = "reply" /\ o \in Ops /\ m.op = o
      /\ ~Resolved(o) /\ ~KeyErrorOn(m, o)
  BY ReplyFound DEF ReaderReply
<1>2. /\ fromRouter # <<>> /\ fromRouter' = Tail(fromRouter)
      /\ endpoints' = EndpointsAfter(m, o)
      /\ future' = [future EXCEPT ![o] = [op |-> m.op, ok |-> m.ok, handle |-> m.handle]]
      /\ UNCHANGED <<pc, kind>>
  BY <1>1 DEF ReaderReply, Receive, FutureAfter, requestVars
<1>3. /\ 1 \in 1..Len(fromRouter)
      /\ \A i \in 1..Len(fromRouter') :
            i + 1 \in 1..Len(fromRouter) /\ fromRouter'[i] = fromRouter[i + 1]
  BY <1>2, TakenFirst
<1>4. m.key[1] = kind[o] /\ (m.ok /\ kind[o] \in OpenKinds => IdOf(o, m.handle))
  BY <1>1, <1>3, UnderWay DEF Owners
<1> HIDE DEF m, o
<1>5. /\ future'[o] = [op |-> o, ok |-> m.ok, handle |-> m.handle]
      /\ \A p \in Ops : p # o => future'[p] = future[p]
  BY <1>1, <1>2 DEF IInv, TypeOK
<1>6. ASSUME NEW h \in Ops, endpoints'[h] # NoOp
      PROVE  Owns(endpoints[h], h)'
  <2>1. \/ endpoints'[h] = endpoints[h]
        \/ m.ok /\ kind[o] \in OpenKinds /\ m.handle = h /\ endpoints'[h] = o
    BY <1>2, <1>4, <1>6 DEF EndpointsAfter, IInv, TypeOK
  <2>2. CASE endpoints'[h] = endpoints[h]
    <3>1. endpoints[h] \in Ops /\ Owns(endpoints[h], h)
      BY <1>6, <2>2 DEF Owners, IInv, TypeOK
    <3>2. PICK p \in Ops : p = endpoints[h] /\ p # o
      BY <1>1, <3>1 DEF Owns
    <3>3. kind'[p] = kind[p] /\ future'[p] = future[p]
      BY <1>2, <1>5, <3>2
    <3>4. Owns(p, h)'
      BY <3>1, <3>2, <3>3 DEF Owns, Resolved
    <3> QED
      BY <2>2, <3>2, <3>4
  <2>3. CASE m.ok /\ kind[o] \in OpenKinds /\ m.handle = h /\ endpoints'[h] = o
    <3>1. PICK p \in Ops : p = o
      BY <1>1
    <3>2. /\ kind'[p] = kind[p] /\ future'[p].op = p /\ future'[p].ok /\ future'[p].handle = h
      BY <1>2, <1>5, <2>3, <3>1
    <3>3. Owns(p, h)'
      BY <2>3, <3>1, <3>2, PeerAssumption DEF Owns, Resolved
    <3> QED
      BY <2>3, <3>1, <3>3
  <2> QED
    BY <2>1, <2>2, <2>3
<1>7. ASSUME NEW p \in Ops, kind'[p] \in OpenKinds, Resolved(p)', future'[p].ok
      PROVE  IdOf(p, future[p].handle)'
  <2>1. kind[p] \in OpenKinds /\ kind' = kind
    BY <1>2, <1>7
  <2>2. PICK h : h = future'[p].handle
    OBVIOUS
  <2>3. CASE p = o
    BY <1>4, <1>5, <1>7, <2>1, <2>2, <2>3 DEF IdOf
  <2>4. CASE p # o
    <3>1. future'[p] = future[p]
      BY <1>5, <2>4
    <3>2. IdOf(p, h)
      BY <1>7, <2>1, <2>2, <3>1 DEF Owners, Resolved
    <3> QED
      BY <2>1, <2>2, <3>2 DEF IdOf
  <2> QED
    BY <2>3, <2>4
<1>8. ASSUME NEW i \in 1..Len(fromRouter'), fromRouter'[i].type = "reply", fromRouter'[i].ok,
             fromRouter'[i].key[1] \in OpenKinds
      PROVE  IdOf(fromRouter[i].op, fromRouter[i].handle)'
  <2>1. PICK p, h : p = fromRouter'[i].op /\ h = fromRouter'[i].handle
    OBVIOUS
  <2>2. IdOf(p, h)
    BY <1>3, <1>8, <2>1 DEF Owners
  <2>3. IdOf(p, h)'
    BY <1>2, <2>2 DEF IdOf
  <2> QED
    BY <2>1, <2>3
<1>9. \A i \in 1..Len(fromRouter') :
         /\ fromRouter'[i].type = "reply" /\ fromRouter'[i].ok
         /\ fromRouter'[i].key[1] \in OpenKinds
         => IdOf(fromRouter[i].op, fromRouter[i].handle)'
  BY <1>8
<1> HIDE DEF Owns, IdOf
<1> QED
  BY <1>6, <1>7, <1>9 DEF Owners

\* The router answers with an id of the right kind.
LEMMA AnswerOwners ==
    ASSUME IInv, HInv, Owners, NEW o \in Ops, RouterAnswers(o), UNCHANGED localVars
    PROVE  Owners'
<1>1. UNCHANGED <<pc, kind, future, endpoints>> /\ o \in toRouter /\ kind[o] \in ReplyKinds
  BY DEF RouterAnswers, RouterAccept, RouterRefuse, requestVars, localVars, dictVars
<1>2. PICK ok \in BOOLEAN, h \in Ops \cup {NoOp} :
         /\ fromRouter' = Append(fromRouter, Reply(o, ok, h))
         /\ ok /\ kind[o] \in OpenKinds => IdOf(o, h) /\ pc[h] # "idle"
  <2>1. pc[o] # "idle" /\ live \subseteq Ops /\ \A h \in live : pc[h] # "idle"
    BY <1>1 DEF HInv, AnsweredOnce, KnownCalls, Early, IInv, TypeOK, PeerTypeOK
  <2>2. CASE RouterRefuse(o)
    BY <2>2 DEF RouterRefuse
  <2>3. CASE RouterAccept(o)
    <3>1. PICK h \in AnswerHandles(o) : fromRouter' = Append(fromRouter, Reply(o, TRUE, h))
      BY <2>3 DEF RouterAccept
    <3>2. CASE kind[o] = "register"
      BY <2>1, <3>1, <3>2 DEF AnswerHandles, IdOf
    <3>3. CASE kind[o] = "subscribe"
      BY <2>1, <3>1, <3>3 DEF AnswerHandles, IdOf
    <3>4. CASE kind[o] \notin OpenKinds
      BY <3>1, <3>4 DEF AnswerHandles, OpenKinds
    <3> QED
      BY <3>2, <3>3, <3>4 DEF OpenKinds
  <2> QED
    BY <2>2, <2>3 DEF RouterAnswers
<1>3. PICK L \in Nat : L = Len(fromRouter)
  BY DEF IInv, TypeOK, PeerTypeOK
<1>4. PICK m : m = Reply(o, ok, h) /\ m.op = o /\ m.ok = ok /\ m.handle = h /\ m.key[1] = kind[o]
  <2>1. /\ Reply(o, ok, h).op = o /\ Reply(o, ok, h).ok = ok /\ Reply(o, ok, h).handle = h
        /\ Reply(o, ok, h).key[1] = kind[o]
    BY DEF Reply
  <2> QED
    BY <2>1
<1>5. fromRouter' = Append(fromRouter, m)
  BY <1>2, <1>4
<1>6. ASSUME NEW i \in 1..Len(fromRouter'), ~ \E j \in 1..Len(fromRouter) : fromRouter'[i] = fromRouter[j]
      PROVE  fromRouter'[i] = m
  BY <1>3, <1>5, <1>6, Added
<1>7. pc[o] # "idle"
  BY <1>1 DEF HInv, AnsweredOnce, Early
<1> QED
  BY <1>1, <1>2, <1>4, <1>6, <1>7, OwnersStay

LEMMA NextOwners ==
    ASSUME IInv, HInv, Owners, [Next]_vars
    PROVE  Owners'
<1> USE DEF dictVars, leaveVars, netVars, requestVars, routerVars
<1>1. ASSUME NEW o \in Ops, UserStep(o)
      PROVE  Owners'
  <2>1. /\ UNCHANGED <<endpoints, future, fromRouter>>
        /\ \A p \in Ops : pc[p] # "idle" => kind'[p] = kind[p]
    BY <1>1, UserChanges DEF HInv, UserChange
  <2> QED
    BY <2>1, OwnersStay
<1>2. CASE ReaderReply
  BY <1>2, ReplyOwners
<1>3. CASE ReaderDispatch \/ ReaderUnhandled \/ ReaderGoodbye
  <2>1. UNCHANGED <<endpoints, future, kind>> /\ fromRouter # <<>> /\ fromRouter' = Tail(fromRouter)
    BY <1>3 DEF ReaderDispatch, ReaderUnhandled, ReaderGoodbye, Receive
  <2>2. \A i \in 1..Len(fromRouter') :
           i + 1 \in 1..Len(fromRouter) /\ fromRouter'[i] = fromRouter[i + 1]
    BY <2>1, TakenFirst
  <2> QED
    BY <2>1, <2>2, OwnersStay
<1>4. CASE PeerNext /\ UNCHANGED localVars
  <2>1. ASSUME NEW o \in Ops, RouterAnswers(o)
        PROVE  Owners'
    BY <1>4, <2>1, AnswerOwners
  <2>2. ASSUME NEW m, m.type \in {"push", "goodbye"}, fromRouter' = Append(fromRouter, m),
               UNCHANGED <<endpoints, future, kind>>
        PROVE  Owners'
    <3>1. PICK L \in Nat : L = Len(fromRouter)
      BY DEF IInv, TypeOK, PeerTypeOK
    <3>2. \A i \in 1..Len(fromRouter') :
             fromRouter'[i] = m \/ \E j \in 1..Len(fromRouter) : fromRouter'[i] = fromRouter[j]
      BY <2>2, <3>1, Added
    <3> QED
      BY <2>2, <3>2, OwnersStay
  <2>3. ASSUME NEW n \in Pushes, RouterPush(n)
        PROVE  Owners'
    <3>1. Pushed(n).type = "push" /\ fromRouter' = Append(fromRouter, Pushed(n))
      BY <2>3 DEF RouterPush, Pushed
    <3> QED
      BY <1>4, <2>2, <2>3, <3>1 DEF RouterPush, localVars
  <2>4. CASE RouterGoodbye
    <3>1. Goodbye.type = "goodbye" /\ fromRouter' = Append(fromRouter, Goodbye)
      BY <2>4 DEF RouterGoodbye, Goodbye
    <3> QED
      BY <1>4, <2>2, <2>4, <3>1 DEF RouterGoodbye, localVars
  <2>5. CASE LinkDown
    BY <1>4, <2>5, OwnersStay DEF LinkDown, localVars
  <2> QED
    BY <1>4, <2>1, <2>3, <2>4, <2>5 DEF PeerNext
<1>5. ASSUME UNCHANGED <<endpoints, future, kind, fromRouter>>
      PROVE  Owners'
  BY <1>5, OwnersStay
<1>6. CASE ReaderCheck \/ ReaderError \/ ReaderShutdown \/ ReaderStop
  BY <1>5, <1>6 DEF ReaderCheck, ReaderError, ReaderShutdown, ReaderStop
<1>7. CASE RegisterCallback \/ CallbackFinish \/ WebSocketNotices
  BY <1>5, <1>7 DEF RegisterCallback, CallbackFinish, WebSocketNotices
<1>8. CASE \E n \in Pushes : WorkerStart(n) \/ WorkerFinish(n)
  BY <1>5, <1>8 DEF WorkerStart, WorkerFinish
<1>9. CASE UNCHANGED vars
  BY <1>5, <1>9 DEF vars, localVars, peerVars
<1> QED
  BY <1>1, <1>2, <1>3, <1>4, <1>6, <1>7, <1>8, <1>9 DEF Next, ReaderStep

\* A call that has returned has its answer, a success, and was given an id: whoever has
\* the handler of that id was given it too.
LEMMA ReturnedInstalled ==
    ASSUME IInv, HInv, Owners
    PROVE  HandlerInstalled
<1> SUFFICES ASSUME NEW o \in Ops, pc[o] = "returned", kind[o] \in OpenKinds,
                    ~ \E p \in Ops : /\ kind[p] \in CloseKinds
                                     /\ target[p] = future[o].handle
                                     /\ future[p].ok
             PROVE  LET p == endpoints[future[o].handle]
                    IN /\ p # NoOp /\ kind[p] = kind[o]
                       /\ future[p].ok /\ future[p].handle = future[o].handle
                       /\ kind[o] = "register" => p = o
  BY DEF HandlerInstalled
<1>1. Resolved(o) /\ future[o].ok
  BY DEF HInv, Resolution, OpenKinds, ReplyKinds
<1>2. PICK h \in Ops : h = future[o].handle /\ IdOf(o, h) /\ endpoints[h] # NoOp
  BY <1>1 DEF Owners, IdOf, HInv, Installed
<1>3. PICK p \in Ops : p = endpoints[h] /\ Owns(p, h)
  BY <1>2 DEF Owners, IInv, TypeOK
<1>4. IdOf(p, h)
  BY <1>3 DEF Owners, Owns
<1> QED
  BY <1>2, <1>3, <1>4 DEF IdOf, Owns, PeerAssumption

LEMMA OwnersInv == Spec => [](IInv /\ HInv /\ Owners)
<1>1. Init => IInv /\ HInv /\ Owners
  <2>1. Init => IInv /\ HInv
    BY InitInv, InitHandlers
  <2>2. Init => Owners
    BY EmptySeq DEF Init, PeerInit, Owners, Resolved, Unset
  <2> QED
    BY <2>1, <2>2
<1>2. IInv /\ HInv /\ Owners /\ [Next]_vars => IInv' /\ HInv' /\ Owners'
  BY NextInv, NextHandlers, NextOwners
<1> QED
  BY <1>1, <1>2, PTL DEF Spec

\* A register() that returned has its own handler in place, and a subscribe() its own or
\* that of a later subscribe() that was given the same id, until the router has confirmed
\* a close of the id, however the answers and the closes of the threads are interleaved.
THEOREM SessionHandlerInstalled == Spec => []HandlerInstalled
<1>1. IInv /\ HInv /\ Owners => HandlerInstalled
  BY ReturnedInstalled
<1> QED
  BY OwnersInv, <1>1, PTL

\* A message the router sent while the id was open always finds its handler.
THEOREM SessionNoOrphan == Spec => []NoOrphan
<1>1. HInv => NoOrphan
  BY DEF HInv
<1> QED
  BY HandlersInv, <1>1, PTL

\* No message of a router that follows the protocol ends the reader thread, but for an
\* INVOCATION that is late, or that the executor refuses because the main thread has
\* ended: its ERROR is written to a connection that is gone.
THEOREM SessionReceiveLoopSurvives == Spec => []ReceiveLoopSurvives
<1>1. HInv => ReceiveLoopSurvives
  BY DEF HInv
<1> QED
  BY HandlersInv, <1>1, PTL

-----------------------------------------------------------------------------
(* What becomes of the handlers in the pool.                               *)

\* The receive loop has been left, by its own test or by a failing receive(), only on
\* a connection that is lost or closed; what cancels handlers comes after the loop.
Lost == link = "down" \/ ~connected
LeftOnLoss == reader = "shutdown" => Lost

LEMMA LossStays ==
    ASSUME IInv, Lost, [Next]_vars
    PROVE  Lost'
<1>1. CASE \E o \in Ops : UserStep(o)
  BY <1>1 DEF UserStep, Issue, IssueClose, RefuseClose, Store, Send, SendUnacknowledged,
     Return, LeaveBegin, LeaveSend, LeaveWait, LeaveReturn, Close, Lost, netVars
<1>2. CASE ReaderStep
  BY <1>2 DEF ReaderStep, ReaderCheck, ReaderReply, ReaderDispatch, ReaderUnhandled,
     ReaderGoodbye, ReaderError, ReaderShutdown, ReaderStop, Lost, netVars
<1>3. CASE RegisterCallback \/ CallbackFinish \/ WebSocketNotices
           \/ \E n \in Pushes : WorkerStart(n) \/ WorkerFinish(n)
  BY <1>3 DEF RegisterCallback, CallbackFinish, WebSocketNotices, WorkerStart,
     WorkerFinish, Lost, netVars
<1>4. CASE PeerNext /\ UNCHANGED localVars
  BY <1>4 DEF PeerNext, RouterAnswers, RouterAccept, RouterRefuse, RouterPush,
     RouterGoodbye, LinkDown, localVars, Lost
<1>5. CASE UNCHANGED vars
  BY <1>5 DEF vars, localVars, peerVars, netVars, Lost
<1> QED
  BY <1>1, <1>2, <1>3, <1>4, <1>5 DEF Next

LEMMA NextDropped ==
    ASSUME IInv, NoneDropped, LeftOnLoss, [Next]_vars
    PROVE  (NoneDropped /\ LeftOnLoss)'
<1> DEFINE Gone(n) == task[n] \in {"cancelled", "unanswered"}
<1>0. Lost => Lost'
  BY LossStays
<1>1. SUFFICES /\ reader' = "shutdown" => reader = "shutdown" \/ Lost'
               /\ \A n \in Pushes : Gone(n)' => Gone(n) \/ Lost'
  BY <1>0, <1>1 DEF NoneDropped, LeftOnLoss, Lost
<1>2. CASE ReaderCheck \/ ReaderError
  <2>1. task' = task
    BY <1>2 DEF ReaderCheck, ReaderError
  <2>2. CASE ReaderCheck
    BY <2>1, <2>2 DEF ReaderCheck, Lost
  <2>3. CASE ReaderError
    <3>1. Lost
      BY <2>3 DEF ReaderError, Lost
    <3> QED
      BY <1>0, <2>1, <3>1
  <2> QED
    BY <1>2, <2>2, <2>3
<1>3. CASE ReaderReply \/ ReaderGoodbye \/ ReaderStop
  BY <1>3 DEF ReaderReply, ReaderGoodbye, ReaderStop
<1>4. ASSUME NEW n, NEW v \in {"queued", "orphan", "refused", "running", "done"},
             task' = [task EXCEPT ![n] = v], reader' \in {reader, "check", "crashed"}
      PROVE  /\ reader' = "shutdown" => reader = "shutdown" \/ Lost'
             /\ \A k \in Pushes : Gone(k)' => Gone(k) \/ Lost'
  BY <1>4 DEF IInv, TypeOK
<1>5. CASE ReaderDispatch \/ ReaderUnhandled
  <2>1. \E n : \E v \in {"queued", "orphan", "refused"} :
          task' = [task EXCEPT ![n] = v] /\ reader' \in {"check", "crashed"}
    BY <1>5 DEF ReaderDispatch, ReaderUnhandled
  <2> QED
    BY <2>1, <1>4
<1>6. CASE ReaderShutdown
  <2>1. Lost'
    BY <1>0, <1>6 DEF ReaderShutdown, LeftOnLoss
  <2> QED
    BY <2>1
<1>7. ASSUME NEW n \in Pushes, WorkerStart(n) \/ WorkerFinish(n)
      PROVE  /\ reader' = "shutdown" => reader = "shutdown" \/ Lost'
             /\ \A k \in Pushes : Gone(k)' => Gone(k) \/ Lost'
  <2>1. CASE ~connected'
    BY <1>7, <2>1 DEF WorkerStart, WorkerFinish, Lost
  <2>2. CASE connected'
    <3>1. /\ \E v \in {"running", "done"} : task' = [task EXCEPT ![n] = v]
          /\ reader' = reader
      BY <1>7, <2>2 DEF WorkerStart, WorkerFinish
    <3> QED
      BY <3>1, <1>4
  <2> QED
    BY <2>1, <2>2
<1>8. CASE UNCHANGED <<task, reader>>
  BY <1>8
<1>9. ASSUME NEW o \in Ops, UserStep(o)
      PROVE  UNCHANGED <<task, reader>>
  BY <1>9 DEF UserStep, Issue, IssueClose, RefuseClose, Store, Send, SendUnacknowledged,
     Return, LeaveBegin, LeaveSend, LeaveWait, LeaveReturn
<1>10. CASE \/ RegisterCallback \/ CallbackFinish \/ WebSocketNotices
            \/ PeerNext /\ UNCHANGED localVars
            \/ UNCHANGED vars
  BY <1>8, <1>10 DEF RegisterCallback, CallbackFinish, WebSocketNotices, localVars, vars
<1> QED
  BY <1>2, <1>3, <1>5, <1>6, <1>7, <1>8, <1>9, <1>10 DEF Next, ReaderStep

\* Only a connection that is lost or closed makes the session drop a handler that waits
\* for a worker, or leave an invocation whose handler ran unanswered.
THEOREM SessionNoneDropped == Spec => []NoneDropped
<1>1. Init => NoneDropped /\ LeftOnLoss
  BY DEF Init, NoneDropped, LeftOnLoss
<1>2. IInv /\ NoneDropped /\ LeftOnLoss /\ [Next]_vars => (NoneDropped /\ LeftOnLoss)'
  BY NextDropped
<1> QED
  BY HandlersInv, <1>1, <1>2, PTL DEF Spec

-----------------------------------------------------------------------------
(* The session keeps the promise of ClientPromise.                         *)

\* A call whose request or answer is under way waits for it, so that it cannot fail
\* before the answer is in its future; and one that ended before that has no answer.
Awaited ==
    /\ \A o \in toRouter : kind[o] \in ReplyKinds => pc[o] = "waiting"
    /\ \A i \in 1..Len(fromRouter) :
          fromRouter[i].type = "reply" => pc[fromRouter[i].op] = "waiting"

\* Nothing but its answer makes a call end that waits for one.
LEMMA WaitsOn ==
    ASSUME IInv, HInv, NEW o \in Ops, UserStep(o), NEW p \in Ops, pc[p] = "waiting",
           kind[p] \in ReplyKinds, ~Resolved(p)
    PROVE  pc'[p] = "waiting"
<1>1. CASE p = o
  BY <1>1 DEF UserStep, Issue, IssueClose, RefuseClose, Store, Send, SendUnacknowledged,
              Return, LeaveBegin, LeaveSend, LeaveWait, LeaveReturn, ReplyKinds
<1>2. CASE p # o
  BY <1>2, UserChanges DEF HInv, UserChange
<1> QED
  BY <1>1, <1>2

LEMMA NextAwaited ==
    ASSUME IInv, HInv, Awaited, [Next]_vars
    PROVE  Awaited'
<1> USE DEF dictVars, leaveVars, netVars, requestVars, routerVars
<1>1. ASSUME NEW o \in Ops, UserStep(o)
      PROVE  Awaited'
  <2>1. UserChange(o) /\ fromRouter' = fromRouter
    BY <1>1, UserChanges DEF HInv, UserChange
  <2>2. ASSUME NEW p \in toRouter', kind'[p] \in ReplyKinds
        PROVE  pc'[p] = "waiting"
    <3>1. CASE p \in toRouter
      <4>1. p \in Ops /\ pc[p] # "idle" /\ kind'[p] = kind[p]
        BY <2>1, <3>1 DEF UserChange, IInv, TypeOK, PeerTypeOK, KeyInv, SentByCalls
      <4>2. pc[p] = "waiting" /\ ~Resolved(p)
        BY <2>2, <3>1, <4>1 DEF Awaited, HInv, AnsweredOnce, Resolution
      <4> QED
        BY <1>1, <2>2, <4>1, <4>2, WaitsOn
    <3>2. CASE p \notin toRouter
      <4>1. p = o /\ (kind[o] \in ReplyKinds => pc[o] = "stored") /\ kind'[o] = kind[o]
        BY <2>1, <3>2 DEF UserChange
      <4>2. Send(o)
        BY <1>1, <2>2, <4>1 DEF UserStep, Issue, IssueClose, RefuseClose, Store, Send,
              SendUnacknowledged, Return, LeaveBegin, LeaveSend, LeaveWait, LeaveReturn
      <4>3. pc' = [pc EXCEPT ![o] = "waiting"]
        BY <3>2, <4>1, <4>2 DEF Send
      <4> QED
        BY <4>1, <4>3 DEF IInv, TypeOK
    <3> QED
      BY <3>1, <3>2
  <2>3. ASSUME NEW i \in 1..Len(fromRouter), fromRouter[i].type = "reply"
        PROVE  pc'[fromRouter[i].op] = "waiting"
    <3>1. PICK p \in Ops : /\ p = fromRouter[i].op /\ kind[p] \in ReplyKinds
                           /\ fromRouter[i].key = <<kind[p], rid[p]>>
      BY <2>3, UnderWay
    <3>2. pc[p] = "waiting"
      BY <2>3, <3>1 DEF Awaited
    <3>3. requests[<<kind[p], rid[p]>>] = p
      BY <2>3, <3>1 DEF HInv, AnsweredOnce
    <3>4. ~Resolved(p)
      BY <3>3 DEF HInv, Resolution
    <3> QED
      BY <1>1, <3>1, <3>2, <3>4, WaitsOn
  <2> QED
    BY <2>1, <2>2, <2>3 DEF Awaited
<1>2. CASE ReaderReply \/ ReaderDispatch \/ ReaderUnhandled \/ ReaderGoodbye
  <2>1. /\ fromRouter # <<>> /\ fromRouter' = Tail(fromRouter)
        /\ UNCHANGED <<pc, kind, toRouter>>
    BY <1>2 DEF ReaderReply, ReaderDispatch, ReaderUnhandled, ReaderGoodbye, Receive
  <2>2. \A i \in 1..Len(fromRouter') :
           i + 1 \in 1..Len(fromRouter) /\ fromRouter'[i] = fromRouter[i + 1]
    BY <2>1, TakenFirst
  <2> QED
    BY <2>1, <2>2 DEF Awaited
<1>3. ASSUME UNCHANGED <<pc, kind, toRouter, fromRouter>>
      PROVE  Awaited'
  BY <1>3 DEF Awaited
<1>4. CASE ReaderCheck \/ ReaderError \/ ReaderShutdown \/ ReaderStop
  BY <1>3, <1>4 DEF ReaderCheck, ReaderError, ReaderShutdown, ReaderStop
<1>5. CASE RegisterCallback \/ CallbackFinish \/ WebSocketNotices
           \/ \E n \in Pushes : WorkerStart(n) \/ WorkerFinish(n)
  BY <1>3, <1>5 DEF RegisterCallback, CallbackFinish, WebSocketNotices, WorkerStart, WorkerFinish
<1>6. CASE PeerNext /\ UNCHANGED localVars
  <2>1. PICK L \in Nat : L = Len(fromRouter)
    BY DEF IInv, TypeOK, PeerTypeOK
  <2>2. ASSUME NEW m, fromRouter' = Append(fromRouter, m), toRouter' \subseteq toRouter,
               UNCHANGED kind, m.type = "reply" => pc[m.op] = "waiting"
        PROVE  Awaited'
    <3>1. /\ \A i \in 1..L : fromRouter'[i] = fromRouter[i]
          /\ fromRouter'[L + 1] = m
          /\ \A i \in 1..Len(fromRouter') : i = L + 1 \/ i \in 1..L
      BY <2>1, <2>2, Added
    <3>2. pc' = pc
      BY <1>6 DEF localVars
    <3> QED
      BY <2>1, <2>2, <3>1, <3>2 DEF Awaited
  <2>3. ASSUME NEW o \in Ops, RouterAnswers(o)
        PROVE  Awaited'
    <3>0. \E ok, h : fromRouter' = Append(fromRouter, Reply(o, ok, h))
      BY <2>3 DEF RouterAnswers, RouterAccept, RouterRefuse
    <3>1. PICK m : fromRouter' = Append(fromRouter, m) /\ m.op = o
      BY <3>0 DEF Reply
    <3>2. /\ toRouter' \subseteq toRouter /\ UNCHANGED kind
          /\ o \in toRouter /\ kind[o] \in ReplyKinds
      BY <2>3 DEF RouterAnswers, RouterAccept, RouterRefuse
    <3> QED
      BY <2>2, <3>1, <3>2 DEF Awaited
  <2>4. ASSUME NEW n \in Pushes, RouterPush(n)
        PROVE  Awaited'
    <3>1. Pushed(n).type # "reply"
      BY DEF Pushed
    <3> QED
      BY <2>2, <2>4, <3>1 DEF RouterPush
  <2>5. CASE RouterGoodbye
    <3>1. Goodbye.type # "reply"
      BY DEF Goodbye
    <3> QED
      BY <2>2, <2>5, <3>1 DEF RouterGoodbye
  <2>6. CASE LinkDown
    BY <1>3, <1>6, <2>6 DEF LinkDown, localVars
  <2> QED
    BY <1>6, <2>3, <2>4, <2>5, <2>6 DEF PeerNext
<1>7. CASE UNCHANGED vars
  BY <1>3, <1>7 DEF vars, localVars, peerVars
<1> QED
  BY <1>1, <1>2, <1>4, <1>5, <1>6, <1>7 DEF Next, ReaderStep

\* The answer a to the call o is under way, or in the future of the call.
UnderWayTo(o, a) ==
    \E i \in 1..Len(fromRouter) :
        fromRouter[i].type = "reply" /\ fromRouter[i].op = o /\ fromRouter[i].ok = a
Given(o, a) == UnderWayTo(o, a) \/ (Resolved(o) /\ future[o].ok = a)

LEMMA AnswersAre == IInv => \A o \in Ops : \A a : a \in AnswersTo(o) <=> Given(o, a)
<1> SUFFICES ASSUME IInv, NEW o \in Ops, NEW a
             PROVE  a \in AnswersTo(o) <=> Given(o, a)
  OBVIOUS
<1>1. DOMAIN fromRouter = 1..Len(fromRouter)
  BY DEF IInv, TypeOK, PeerTypeOK
<1>2. \A q \in Ops : future[q].op = o <=> (q = o /\ Resolved(q))
  BY PeerAssumption DEF IInv, Correlation, Resolved
<1>3. a \in {m.ok : m \in {x \in ToSet(fromRouter) : x.type = "reply" /\ x.op = o}} <=>
         UnderWayTo(o, a)
  BY <1>1 DEF ToSet, UnderWayTo
<1>4. a \in {future[p].ok : p \in {q \in Ops : future[q].op = o}} <=>
         Resolved(o) /\ future[o].ok = a
  BY <1>2
<1> QED
  BY <1>3, <1>4 DEF AnswersTo, Given

\* A call gets one answer, and gets it when its request is off the router's list.
LEMMA OneAnswer ==
    ASSUME IInv, HInv, NEW o \in Ops, NEW a, Given(o, a)
    PROVE  /\ o \notin toRouter /\ kind[o] \in ReplyKinds /\ pc[o] \notin Early
           /\ \A b : Given(o, b) => b = a
           /\ a \in BOOLEAN
<1>1. ASSUME NEW i \in 1..Len(fromRouter), fromRouter[i].type = "reply", fromRouter[i].op = o
      PROVE  /\ o \notin toRouter /\ kind[o] \in ReplyKinds /\ pc[o] \notin Early /\ ~Resolved(o)
             /\ fromRouter[i].ok \in BOOLEAN
             /\ \A b : UnderWayTo(o, b) => b = fromRouter[i].ok
  <2>1. /\ kind[o] \in ReplyKinds /\ fromRouter[i].key = <<kind[o], rid[o]>>
        /\ fromRouter[i].ok \in BOOLEAN
    BY <1>1, UnderWay
  <2>2. o \notin toRouter /\ pc[o] \notin Early /\ ~Resolved(o)
    BY <1>1, <2>1 DEF HInv, AnsweredOnce, Resolution
  <2>3. \A b : UnderWayTo(o, b) => b = fromRouter[i].ok
    BY <1>1 DEF UnderWayTo, HInv, AnsweredOnce
  <2> QED
    BY <2>1, <2>2, <2>3
<1>2. CASE UnderWayTo(o, a)
  <2>1. PICK i \in 1..Len(fromRouter) :
           fromRouter[i].type = "reply" /\ fromRouter[i].op = o /\ fromRouter[i].ok = a
    BY <1>2 DEF UnderWayTo
  <2> QED
    BY <1>1, <2>1 DEF Given
<1>3. CASE Resolved(o) /\ future[o].ok = a
  <2>1. \A b : ~UnderWayTo(o, b)
    BY <1>1, <1>3 DEF UnderWayTo
  <2>2. kind[o] \in ReplyKinds /\ pc[o] \notin Early /\ requests[<<kind[o], rid[o]>>] # o
    BY <1>3 DEF HInv, Resolution
  <2>3. o \notin toRouter
    BY <2>2 DEF HInv, AnsweredOnce
  <2>4. a \in BOOLEAN
    BY <1>3 DEF IInv, TypeOK
  <2> QED
    BY <1>3, <2>1, <2>2, <2>3, <2>4 DEF Given
<1> QED
  BY <1>2, <1>3 DEF Given

\* What the abstract state is, in terms of the answers given.
Abstraction ==
    \A o \in Ops :
        /\ o \in Asked <=> ((o \in toRouter /\ kind[o] \in ReplyKinds) \/ \E a : Given(o, a))
        /\ Answer[o] = IF Given(o, TRUE) THEN "ok" ELSE IF Given(o, FALSE) THEN "error" ELSE "none"

LEMMA AbstractionHolds == IInv /\ HInv => Abstraction
<1> SUFFICES ASSUME IInv, HInv, NEW o \in Ops
             PROVE  /\ o \in Asked <=> \/ o \in toRouter /\ kind[o] \in ReplyKinds
                                       \/ \E a : Given(o, a)
                    /\ Answer[o] = IF Given(o, TRUE) THEN "ok"
                                   ELSE IF Given(o, FALSE) THEN "error" ELSE "none"
  BY DEF Abstraction
<1>1. \A a : a \in AnswersTo(o) <=> Given(o, a)
  BY AnswersAre
<1>2. \A a : Given(o, a) => a \in BOOLEAN
  BY OneAnswer
<1>3. o \in Asked <=> (o \in toRouter /\ kind[o] \in ReplyKinds) \/ \E a : Given(o, a)
  BY <1>1 DEF Asked, Awaiting
<1>4. AnswersTo(o) = {} <=> ~Given(o, TRUE) /\ ~Given(o, FALSE)
  BY <1>1, <1>2
<1>5. Answer[o] = AnswerOf(o)
  BY DEF Answer
<1> QED
  BY <1>1, <1>3, <1>4, <1>5 DEF AnswerOf

LEMMA AbstractionNext == (IInv /\ HInv)' => Abstraction'
BY AbstractionHolds, PTL

\* The same answers make the same abstract answers.
LEMMA SameAnswers ==
    ASSUME IInv, HInv, IInv', HInv', \A o \in Ops : \A a : Given(o, a)' <=> Given(o, a)
    PROVE  Answer' = Answer
<1>1. Abstraction /\ Abstraction'
  BY AbstractionHolds, AbstractionNext
<1>2. \A o \in Ops : Answer'[o] = Answer[o]
  BY <1>1 DEF Abstraction
<1>3. Answer = [o \in Ops |-> Answer[o]] /\ Answer' = [o \in Ops |-> Answer'[o]]
  BY DEF Answer
<1> QED
  BY <1>2, <1>3

\* The same answers and the same requests mean that the router was asked the same.
LEMMA SameAsked ==
    ASSUME IInv, HInv, IInv', HInv', \A o \in Ops : \A a : Given(o, a)' <=> Given(o, a),
           \A o \in Ops : (o \in toRouter' /\ kind'[o] \in ReplyKinds) <=>
                          (o \in toRouter /\ kind[o] \in ReplyKinds)
    PROVE  Asked' = Asked
<1>1. Abstraction /\ Abstraction'
  BY AbstractionHolds, AbstractionNext
<1>2. \A o \in Ops : o \in Asked' <=> o \in Asked
  BY <1>1 DEF Abstraction
<1>3. Asked \subseteq Ops /\ Asked' \subseteq Ops
  BY DEF Asked, IInv, TypeOK, PeerTypeOK
<1> QED
  BY <1>2, <1>3

\* What a call does is to ask, to finish with its answer, to fail unasked, or nothing
\* that the promise knows of.
LEMMA UserPromise ==
    ASSUME IInv, HInv, IInv', HInv', NEW o \in Ops, UserStep(o)
    PROVE  Promise!Next \/ UNCHANGED Promise!vars
<1> USE DEF dictVars, leaveVars, netVars, requestVars, routerVars
<1>0. UserChange(o) /\ UNCHANGED <<fromRouter, future>>
  BY UserChanges DEF HInv, UserChange
<1>1. ASSUME NEW p \in Ops, NEW a
      PROVE  Given(p, a)' <=> Given(p, a)
  BY <1>0 DEF Given, UnderWayTo, Resolved
<1>2. Answer' = Answer /\ Abstraction /\ Abstraction'
  BY <1>1, SameAnswers, AbstractionHolds, AbstractionNext
<1>3. ASSUME NEW p \in Ops, p # o
      PROVE  Outcome'[p] = Outcome[p]
  BY <1>0, <1>3 DEF UserChange, Outcome, OutcomeOf, Awaiting, Resolved
<1>4. \A v : Outcome'[o] = v => Outcome' = [Outcome EXCEPT ![o] = v]
  BY <1>3 DEF Outcome
<1>5. /\ Outcome[o] = OutcomeOf(o) /\ Outcome'[o] = OutcomeOf(o)'
      /\ Resolved(o)' <=> Resolved(o)
  BY <1>0 DEF Outcome, Resolved
<1>6. ASSUME OutcomeOf(o) = "open", OutcomeOf(o)' = "open"
      PROVE  Outcome' = Outcome
  BY <1>4, <1>5, <1>6 DEF Outcome
<1>7. ASSUME toRouter' = toRouter \/ kind[o] \notin ReplyKinds
      PROVE  Asked' = Asked
  <2> SUFFICES ASSUME NEW p \in Ops
               PROVE  (p \in toRouter' /\ kind'[p] \in ReplyKinds) <=>
                      (p \in toRouter /\ kind[p] \in ReplyKinds)
    BY <1>1, SameAsked
  <2>1. p \in toRouter => pc[p] # "idle"
    BY DEF HInv, AnsweredOnce, Early
  <2>2. pc[p] # "idle" => kind'[p] = kind[p]
    BY <1>0 DEF UserChange
  <2>3. p \in toRouter' /\ p \notin toRouter => p = o /\ pc[o] # "idle" /\ kind[o] \notin ReplyKinds
    BY <1>0, <1>7 DEF UserChange
  <2>4. p \in toRouter => p \in toRouter'
    BY <1>0 DEF UserChange
  <2> QED
    BY <2>1, <2>2, <2>3, <2>4
<1>8. ASSUME Asked' = Asked, OutcomeOf(o) = "open", OutcomeOf(o)' = "open"
      PROVE  UNCHANGED Promise!vars
  BY <1>2, <1>6, <1>8 DEF Promise!vars
<1>9. ASSUME Asked' = Asked, OutcomeOf(o) = "open", OutcomeOf(o)' = "failed", o \notin Asked
      PROVE  Promise!Next
  <2>1. Promise!Fail(o)
    BY <1>2, <1>4, <1>5, <1>9 DEF Promise!Fail
  <2> QED
    BY <2>1 DEF Promise!Next
<1>10. pc[o] \in Early => ~Resolved(o) /\ o \notin Asked
  <2>1. pc[o] \in Early => ~Resolved(o) /\ o \notin toRouter /\ \A a : ~Given(o, a)
    BY OneAnswer DEF HInv, AnsweredOnce, Resolution
  <2> QED
    BY <1>2, <2>1 DEF Abstraction
<1>11. CASE \/ \E k \in ActiveKinds \ (CloseKinds \cup {"leave"}) : Issue(o, k)
            \/ \E k \in ActiveKinds \cap CloseKinds : IssueClose(o, k)
  <2>1. /\ pc[o] = "idle" /\ pc' = [pc EXCEPT ![o] = "allocated"] /\ toRouter' = toRouter
    BY <1>11 DEF Issue, IssueClose
  <2>2. OutcomeOf(o) = "open" /\ OutcomeOf(o)' = "open"
    BY <2>1 DEF OutcomeOf, IInv, TypeOK
  <2> QED
    BY <1>7, <1>8, <2>1, <2>2
<1>12. ASSUME NEW k \in ActiveKinds \cap CloseKinds, RefuseClose(o, k)
       PROVE  Promise!Next
  <2>1. /\ pc[o] = "idle" /\ pc' = [pc EXCEPT ![o] = "raised"] /\ toRouter' = toRouter
        /\ kind' = [kind EXCEPT ![o] = k] /\ k \in ReplyKinds
    BY <1>12 DEF RefuseClose, CloseKinds, ReplyKinds
  <2>2. OutcomeOf(o) = "open" /\ ~Resolved(o) /\ o \notin Asked
    BY <1>10, <2>1 DEF OutcomeOf, Early
  <2>3. OutcomeOf(o)' = "failed"
    BY <1>5, <2>1, <2>2 DEF OutcomeOf, Awaiting, IInv, TypeOK, PeerTypeOK
  <2> QED
    BY <1>7, <1>9, <2>1, <2>2, <2>3
<1>13. CASE Store(o)
  <2>1. pc[o] = "allocated" /\ pc' = [pc EXCEPT ![o] = "stored"] /\ toRouter' = toRouter
    BY <1>13 DEF Store
  <2>2. OutcomeOf(o) = "open" /\ OutcomeOf(o)' = "open"
    BY <2>1 DEF OutcomeOf, IInv, TypeOK
  <2> QED
    BY <1>7, <1>8, <2>1, <2>2
<1>14. CASE Send(o)
  <2>0. pc[o] = "stored" /\ kind' = kind /\ OutcomeOf(o) = "open" /\ ~Resolved(o) /\ o \notin Asked
    BY <1>10, <1>14 DEF Send, OutcomeOf, Early
  <2>1. ASSUME pc' = [pc EXCEPT ![o] = "raised"], toRouter' = toRouter
        PROVE  Promise!Next \/ UNCHANGED Promise!vars
    <3>1. CASE kind[o] \in ReplyKinds
      <4>1. OutcomeOf(o)' = "failed"
        BY <1>5, <2>0, <2>1, <3>1 DEF OutcomeOf, Awaiting, IInv, TypeOK
      <4> QED
        BY <1>7, <1>9, <2>0, <2>1, <4>1
    <3>2. CASE kind[o] \notin ReplyKinds
      <4>1. OutcomeOf(o)' = "open"
        BY <2>0, <3>2 DEF OutcomeOf, Awaiting
      <4> QED
        BY <1>7, <1>8, <2>0, <2>1, <4>1
    <3> QED
      BY <3>1, <3>2
  <2>2. ASSUME pc' = [pc EXCEPT ![o] = "waiting"], toRouter' \in {toRouter, toRouter \cup {o}}
        PROVE  Promise!Next \/ UNCHANGED Promise!vars
    <3>1. OutcomeOf(o)' = "open"
      BY <2>2 DEF OutcomeOf, IInv, TypeOK
    <3>2. CASE toRouter' = toRouter \/ kind[o] \notin ReplyKinds
      BY <1>7, <1>8, <2>0, <3>1, <3>2
    <3>3. CASE toRouter' = toRouter \cup {o} /\ kind[o] \in ReplyKinds
      <4>1. \A p \in Ops : p \in Asked' <=> p \in Asked \/ p = o
        BY <1>1, <1>2, <2>0, <3>3 DEF Abstraction
      <4>2. Asked \subseteq Ops /\ Asked' \subseteq Ops
        BY DEF Asked, IInv, TypeOK, PeerTypeOK
      <4>3. Asked' = Asked \cup {o}
        BY <4>1, <4>2
      <4>4. Outcome' = Outcome
        BY <1>6, <2>0, <3>1
      <4>5. Promise!Ask(o)
        BY <1>2, <1>5, <2>0, <4>3, <4>4 DEF Promise!Ask
      <4> QED
        BY <4>5 DEF Promise!Next
    <3> QED
      BY <2>2, <3>2, <3>3
  <2>3. \/ pc' = [pc EXCEPT ![o] = "raised"] /\ toRouter' = toRouter
        \/ pc' = [pc EXCEPT ![o] = "waiting"] /\ toRouter' \in {toRouter, toRouter \cup {o}}
    BY <1>14 DEF Send, Transmit
  <2> QED
    BY <2>1, <2>2, <2>3
<1>15. CASE Return(o)
  <2>1. /\ pc[o] = "waiting" /\ kind[o] \in ReplyKinds /\ Resolved(o) /\ kind' = kind
        /\ pc' = [pc EXCEPT ![o] = IF future[o].ok THEN "returned" ELSE "raised"]
        /\ toRouter' = toRouter
    BY <1>15 DEF Return
  <2>2. OutcomeOf(o) = "open" /\ OutcomeOf(o)' = IF future[o].ok THEN "ok" ELSE "error"
    BY <1>5, <2>1 DEF OutcomeOf, Awaiting, IInv, TypeOK
  <2>3. Given(o, future[o].ok) /\ future[o].ok \in BOOLEAN
    BY <2>1 DEF Given, IInv, TypeOK
  <2>4. Answer[o] = IF future[o].ok THEN "ok" ELSE "error"
    <3>1. \A b : Given(o, b) => b = future[o].ok
      BY <2>3, OneAnswer
    <3>2. future[o].ok = TRUE \/ future[o].ok = FALSE
      BY <2>3
    <3> QED
      BY <1>2, <2>3, <3>1, <3>2 DEF Abstraction
  <2>5. Promise!Finish(o)
    BY <1>2, <1>4, <1>5, <1>7, <2>1, <2>2, <2>4 DEF Promise!Finish
  <2> QED
    BY <2>5 DEF Promise!Next
<1>16. ASSUME kind[o] \notin ReplyKinds, kind'[o] \notin ReplyKinds
       PROVE  UNCHANGED Promise!vars
  <2>1. OutcomeOf(o) = "open" /\ OutcomeOf(o)' = "open"
    BY <1>16 DEF OutcomeOf, Awaiting
  <2> QED
    BY <1>7, <1>8, <1>16, <2>1
<1>17. CASE SendUnacknowledged(o)
  <2>1. kind[o] \notin ReplyKinds /\ kind' = kind
    BY <1>17 DEF SendUnacknowledged, ReplyKinds
  <2> QED
    BY <1>16, <2>1
<1>18. CASE LeaveBegin(o)
  <2>1. pc[o] = "idle" /\ pc' = [pc EXCEPT ![o] = "leaving"] /\ toRouter' = toRouter
    BY <1>18 DEF LeaveBegin
  <2>2. OutcomeOf(o) = "open" /\ OutcomeOf(o)' = "open"
    BY <2>1 DEF OutcomeOf, IInv, TypeOK
  <2> QED
    BY <1>7, <1>8, <2>1, <2>2
<1>19. CASE LeaveSend(o) \/ LeaveWait(o) \/ LeaveReturn(o)
  <2>1. kind[o] = "leave" /\ kind' = kind
    BY <1>19 DEF LeaveSend, LeaveWait, LeaveReturn, IInv, KeyInv, IdTaken, HInv, Resolution
  <2>2. kind[o] \notin ReplyKinds
    BY <2>1 DEF ReplyKinds
  <2> QED
    BY <1>16, <2>1, <2>2
<1> QED
  BY <1>11, <1>12, <1>13, <1>14, <1>15, <1>17, <1>18, <1>19 DEF UserStep

\* Taking a message is no step of the promise: an answer moves to the future of its
\* call.
LEMMA TakePromise ==
    ASSUME IInv, HInv, Awaited, IInv', HInv',
           ReaderReply \/ ReaderDispatch \/ ReaderUnhandled \/ ReaderGoodbye
    PROVE  UNCHANGED Promise!vars
<1> USE DEF dictVars, leaveVars, netVars, requestVars, routerVars
<1>1. /\ fromRouter # <<>> /\ fromRouter' = Tail(fromRouter)
      /\ UNCHANGED <<pc, kind, toRouter>>
  BY DEF ReaderReply, ReaderDispatch, ReaderUnhandled, ReaderGoodbye, Receive
<1>2. /\ Len(fromRouter) \in Nat /\ Len(fromRouter') = Len(fromRouter) - 1
      /\ 1 \in 1..Len(fromRouter) /\ Head(fromRouter) = fromRouter[1]
      /\ \A i \in 1..Len(fromRouter') :
            i + 1 \in 1..Len(fromRouter) /\ i + 1 # 1 /\ fromRouter'[i] = fromRouter[i + 1]
  BY <1>1, TakenFirst
<1>3. \A j \in 1..Len(fromRouter) : j = 1 \/ \E i \in 1..Len(fromRouter') : j = i + 1
  <2> SUFFICES ASSUME NEW j \in 1..Len(fromRouter), j # 1
               PROVE  \E i \in 1..Len(fromRouter') : j = i + 1
    OBVIOUS
  <2>1. j - 1 \in 1..Len(fromRouter') /\ j = (j - 1) + 1
    BY <1>2
  <2> QED
    BY <2>1
<1>4. ASSUME NEW p, NEW a
      PROVE  UnderWayTo(p, a) <=>
                 \/ UnderWayTo(p, a)'
                 \/ fromRouter[1].type = "reply" /\ fromRouter[1].op = p /\ fromRouter[1].ok = a
  <2>1. UnderWayTo(p, a)' => UnderWayTo(p, a)
    BY <1>2 DEF UnderWayTo
  <2>2. UnderWayTo(p, a) => UnderWayTo(p, a)' \/ (fromRouter[1].type = "reply" /\
                                   fromRouter[1].op = p /\ fromRouter[1].ok = a)
    <3> SUFFICES ASSUME NEW j \in 1..Len(fromRouter), fromRouter[j].type = "reply",
                        fromRouter[j].op = p, fromRouter[j].ok = a, j # 1
                 PROVE  UnderWayTo(p, a)'
      BY DEF UnderWayTo
    <3>1. PICK i \in 1..Len(fromRouter') : j = i + 1
      BY <1>3
    <3>2. fromRouter'[i] = fromRouter[j]
      BY <1>2, <3>1
    <3> QED
      BY <3>2 DEF UnderWayTo
  <2>3. fromRouter[1].type = "reply" /\ fromRouter[1].op = p /\ fromRouter[1].ok = a
            => UnderWayTo(p, a)
    BY <1>2 DEF UnderWayTo
  <2> QED
    BY <2>1, <2>2, <2>3
<1>5. \/ fromRouter[1].type # "reply" /\ future' = future
      \/ \E o \in Ops :
            /\ fromRouter[1].type = "reply" /\ fromRouter[1].op = o /\ ~Resolved(o)
            /\ pc[o] = "waiting"
            /\ Resolved(o)' /\ future'[o].ok = fromRouter[1].ok
            /\ \A p \in Ops : p # o => future'[p] = future[p]
  <2>1. CASE ReaderReply
    <3> DEFINE m == fromRouter[1]
               o == requests[m.key]
    <3>1. /\ m = Head(fromRouter) /\ m.type = "reply" /\ o \in Ops /\ m.op = o
          /\ ~Resolved(o) /\ ~KeyErrorOn(m, o)
      BY <2>1, ReplyFound DEF ReaderReply
    <3>2. future' = [future EXCEPT ![o] = [op |-> m.op, ok |-> m.ok, handle |-> m.handle]]
      BY <2>1, <3>1 DEF ReaderReply, FutureAfter
    <3>3. pc[o] = "waiting"
      BY <1>2, <3>1 DEF Awaited
    <3> HIDE DEF m, o
    <3>4. /\ future'[o] = [op |-> o, ok |-> m.ok, handle |-> m.handle]
          /\ \A p \in Ops : p # o => future'[p] = future[p]
      BY <3>1, <3>2 DEF IInv, TypeOK
    <3>5. PICK q \in Ops : q = o
      BY <3>1
    <3>6. Resolved(q)' /\ future'[q].ok = m.ok
      BY <3>4, <3>5, PeerAssumption DEF Resolved
    <3> QED
      BY <3>1, <3>3, <3>4, <3>5, <3>6 DEF m
  <2>2. CASE ReaderDispatch \/ ReaderUnhandled \/ ReaderGoodbye
    BY <1>2, <2>2 DEF ReaderDispatch, ReaderUnhandled, ReaderGoodbye, Receive
  <2> QED
    BY <2>1, <2>2
<1>6. \A p \in Ops : \A a : Given(p, a)' <=> Given(p, a)
  <2>1. CASE fromRouter[1].type # "reply" /\ future' = future
    BY <1>4, <2>1 DEF Given, Resolved
  <2>2. ASSUME NEW o \in Ops,
               fromRouter[1].type = "reply", fromRouter[1].op = o, ~Resolved(o),
               Resolved(o)', future'[o].ok = fromRouter[1].ok,
               \A p \in Ops : p # o => future'[p] = future[p]
        PROVE  \A p \in Ops : \A a : Given(p, a)' <=> Given(p, a)
    <3> SUFFICES ASSUME NEW p \in Ops, NEW a
                 PROVE  Given(p, a)' <=> Given(p, a)
      OBVIOUS
    <3>1. CASE p = o
      BY <1>4, <2>2, <3>1 DEF Given
    <3>2. CASE p # o
      BY <1>4, <2>2, <3>2 DEF Given, Resolved
    <3> QED
      BY <3>1, <3>2
  <2> QED
    BY <1>5, <2>1, <2>2
<1>7. Answer' = Answer /\ Asked' = Asked
  BY <1>1, <1>6, SameAnswers, SameAsked
<1>8. ASSUME NEW p \in Ops
      PROVE  OutcomeOf(p)' = OutcomeOf(p)
  <2>1. pc[p] = "waiting" \/ (Resolved(p)' <=> Resolved(p))
    BY <1>5 DEF Resolved
  <2> QED
    BY <1>1, <2>1 DEF OutcomeOf, Awaiting
<1>9. Outcome' = Outcome
  BY <1>8 DEF Outcome
<1> QED
  BY <1>7, <1>9 DEF Promise!vars

\* The router's decision is the promise's; its other messages are no answers.
LEMMA RouterPromise ==
    ASSUME IInv, HInv, IInv', HInv', PeerNext, UNCHANGED localVars
    PROVE  Promise!Next \/ UNCHANGED Promise!vars
<1> USE DEF requestVars, routerVars
<1>0. UNCHANGED <<pc, future, kind>>
  BY DEF localVars, dictVars, PeerNext, RouterAnswers, RouterAccept, RouterRefuse, RouterPush,
         RouterGoodbye, LinkDown
<1>1. Outcome' = Outcome
  BY <1>0 DEF Outcome, OutcomeOf, Awaiting, Resolved
<1>2. PICK L \in Nat : L = Len(fromRouter)
  BY DEF IInv, TypeOK, PeerTypeOK
<1>3. ASSUME NEW m, fromRouter' = Append(fromRouter, m)
      PROVE  \A p, a : UnderWayTo(p, a)' <=>
                           UnderWayTo(p, a) \/ (m.type = "reply" /\ m.op = p /\ m.ok = a)
  <2>1. /\ \A i \in 1..L : fromRouter'[i] = fromRouter[i] /\ i \in 1..Len(fromRouter')
        /\ fromRouter'[L + 1] = m /\ L + 1 \in 1..Len(fromRouter')
        /\ \A i \in 1..Len(fromRouter') : i = L + 1 \/ i \in 1..L
    BY <1>2, <1>3, Added
  <2> SUFFICES ASSUME NEW p, NEW a
               PROVE  UnderWayTo(p, a)' <=>
                          UnderWayTo(p, a) \/ (m.type = "reply" /\ m.op = p /\ m.ok = a)
    OBVIOUS
  <2>2. UnderWayTo(p, a) => UnderWayTo(p, a)'
    BY <1>2, <2>1 DEF UnderWayTo
  <2>3. m.type = "reply" /\ m.op = p /\ m.ok = a => UnderWayTo(p, a)'
    BY <2>1 DEF UnderWayTo
  <2>4. UnderWayTo(p, a)' => UnderWayTo(p, a) \/ (m.type = "reply" /\ m.op = p /\ m.ok = a)
    BY <1>2, <2>1 DEF UnderWayTo
  <2> QED
    BY <2>2, <2>3, <2>4
<1>4. ASSUME NEW m, fromRouter' = Append(fromRouter, m), m.type # "reply", toRouter' = toRouter
      PROVE  UNCHANGED Promise!vars
  <2>1. \A p \in Ops : \A a : Given(p, a)' <=> Given(p, a)
    BY <1>0, <1>3, <1>4 DEF Given, Resolved
  <2> QED
    BY <1>0, <1>1, <1>4, <2>1, SameAnswers, SameAsked DEF Promise!vars
<1>5. ASSUME NEW o \in Ops, RouterAnswers(o)
      PROVE  Promise!Next
  <2>1. PICK ok \in BOOLEAN : \E h : fromRouter' = Append(fromRouter, Reply(o, ok, h))
    BY <1>5 DEF RouterAnswers, RouterAccept, RouterRefuse
  <2>2. PICK m : fromRouter' = Append(fromRouter, m) /\ m.type = "reply" /\ m.op = o /\ m.ok = ok
    BY <2>1 DEF Reply
  <2>3. o \in toRouter /\ kind[o] \in ReplyKinds /\ toRouter' = toRouter \ {o}
    BY <1>5 DEF RouterAnswers, RouterAccept, RouterRefuse
  <2>4. \A a : ~Given(o, a)
    BY <2>3, OneAnswer
  <2>5. ASSUME NEW p \in Ops, NEW a
        PROVE  Given(p, a)' <=> Given(p, a) \/ (p = o /\ a = ok)
    BY <1>0, <1>3, <2>2 DEF Given, Resolved
  <2>6. Abstraction /\ Abstraction'
    BY AbstractionHolds, AbstractionNext
  <2>7. \A p \in Ops : p \in Asked' <=> p \in Asked
    BY <1>0, <2>3, <2>5, <2>6 DEF Abstraction
  <2>8. Asked' = Asked
    <3>1. Asked \subseteq Ops /\ Asked' \subseteq Ops
      BY DEF Asked, IInv, TypeOK, PeerTypeOK
    <3> QED
      BY <2>7, <3>1
  <2>9. o \in Asked /\ Answer[o] = "none"
    BY <2>3, <2>4, <2>6 DEF Abstraction
  <2> DEFINE v == IF ok THEN "ok" ELSE "error"
  <2>10. Answer'[o] = v /\ \A p \in Ops : p # o => Answer'[p] = Answer[p]
    BY <2>4, <2>5, <2>6 DEF Abstraction
  <2> HIDE DEF v
  <2>11. Answer' = [Answer EXCEPT ![o] = v]
    BY <2>10 DEF Answer
  <2>12. Promise!Decide(o, v)
    BY <1>1, <2>8, <2>9, <2>11 DEF Promise!Decide
  <2>13. v \in {"ok", "error"}
    BY DEF v
  <2> QED
    BY <2>12, <2>13 DEF Promise!Next
<1>6. ASSUME NEW n \in Pushes, RouterPush(n)
      PROVE  UNCHANGED Promise!vars
  <2>1. Pushed(n).type # "reply"
    BY DEF Pushed
  <2> QED
    BY <1>4, <1>6, <2>1 DEF RouterPush
<1>7. CASE RouterGoodbye
  <2>1. Goodbye.type # "reply"
    BY DEF Goodbye
  <2> QED
    BY <1>4, <1>7, <2>1 DEF RouterGoodbye
<1>8. CASE LinkDown
  <2>1. \A p \in Ops : \A a : Given(p, a)' <=> Given(p, a)
    BY <1>0, <1>8 DEF LinkDown, Given, UnderWayTo, Resolved
  <2> QED
    BY <1>0, <1>1, <1>8, <2>1, SameAnswers, SameAsked DEF LinkDown, Promise!vars
<1> QED
  BY <1>5, <1>6, <1>7, <1>8 DEF PeerNext

LEMMA NextPromise ==
    ASSUME IInv, HInv, Awaited, [Next]_vars
    PROVE  [Promise!Next]_Promise!vars
<1> USE DEF dictVars, leaveVars, netVars, requestVars, routerVars
<1>0. IInv' /\ HInv'
  BY NextInv, NextHandlers
<1>1. ASSUME UNCHANGED <<pc, kind, toRouter, fromRouter, future>>
      PROVE  UNCHANGED Promise!vars
  <2>1. \A p \in Ops : \A a : Given(p, a)' <=> Given(p, a)
    BY <1>1 DEF Given, UnderWayTo, Resolved
  <2>2. Outcome' = Outcome
    BY <1>1 DEF Outcome, OutcomeOf, Awaiting, Resolved
  <2> QED
    BY <1>0, <1>1, <2>1, <2>2, SameAnswers, SameAsked DEF Promise!vars
<1>2. ASSUME NEW o \in Ops, UserStep(o)
      PROVE  [Promise!Next]_Promise!vars
  BY <1>0, <1>2, UserPromise
<1>3. CASE ReaderReply \/ ReaderDispatch \/ ReaderUnhandled \/ ReaderGoodbye
  BY <1>0, <1>3, TakePromise
<1>4. CASE \/ ReaderCheck \/ ReaderError \/ ReaderShutdown \/ ReaderStop
           \/ RegisterCallback \/ CallbackFinish \/ WebSocketNotices
           \/ \E n \in Pushes : WorkerStart(n) \/ WorkerFinish(n)
  BY <1>1, <1>4 DEF ReaderCheck, ReaderError, ReaderShutdown, ReaderStop, RegisterCallback,
     CallbackFinish, WebSocketNotices, WorkerStart, WorkerFinish
<1>5. CASE PeerNext /\ UNCHANGED localVars
  BY <1>0, <1>5, RouterPromise
<1>6. CASE UNCHANGED vars
  BY <1>1, <1>6 DEF vars, localVars, peerVars
<1> QED
  BY <1>2, <1>3, <1>4, <1>5, <1>6 DEF Next, ReaderStep

LEMMA InitPromise ==
    ASSUME Init
    PROVE  Awaited /\ Promise!Init
<1> USE DEF Init, PeerInit
<1>1. IInv /\ HInv
  BY InitInv, InitHandlers
<1>2. Len(fromRouter) = 0 /\ \A i \in 1..Len(fromRouter) : FALSE
  OBVIOUS
<1>3. Awaited
  BY <1>2 DEF Awaited
<1>4. \A o \in Ops : \A a : ~Given(o, a)
  BY <1>2 DEF Given, UnderWayTo, Resolved, Unset
<1>5. Abstraction
  BY <1>1, AbstractionHolds
<1>6. Asked = {}
  <2>1. \A o \in Ops : o \notin Asked
    BY <1>4, <1>5 DEF Abstraction
  <2> QED
    BY <2>1 DEF Asked
<1>7. Answer = [o \in Ops |-> "none"]
  <2>1. \A o \in Ops : Answer[o] = "none"
    BY <1>4, <1>5 DEF Abstraction
  <2> QED
    BY <2>1 DEF Answer
<1>8. Outcome = [o \in Ops |-> "open"]
  BY DEF Outcome, OutcomeOf
<1> QED
  BY <1>3, <1>6, <1>7, <1>8 DEF Promise!Init

\* The session implements the promise: a call ends with the router's answer to that
\* very call, or it fails without the router having received it, or it stays open.
THEOREM SessionKeepsPromise == Spec => KeepsPromise
<1>1. Init => Awaited /\ Promise!Init
  BY InitPromise
<1>2. IInv /\ HInv /\ Awaited /\ [Next]_vars => Awaited'
  BY NextAwaited
<1>3. IInv /\ HInv /\ Awaited /\ [Next]_vars => [Promise!Next]_Promise!vars
  BY NextPromise
<1> QED
  BY HandlersInv, <1>1, <1>2, <1>3, PTL DEF Spec, KeepsPromise, Promise!Spec
=============================================================================
