------------------------- MODULE AsyncSessionProofs -------------------------
(***************************************************************************)
(* For any number of calls and pushes: the asyncio session keeps its       *)
(* types, the answer a call gets is the router's answer to that very call, *)
(* a leave() that returned has closed the connection and ended the reader, *)
(* and an exception ends the receive loop for the three reasons only that  *)
(* AsyncSession names.                                                     *)
(***************************************************************************)
EXTENDS AsyncSession, SequenceTheorems, TLAPS

\* The ids of two calls differ, and none is beyond the generator's.
IdsDistinct ==
    /\ \A o \in Ops : rid[o] <= idgen
    /\ \A o, p \in Ops : rid[o] # 0 /\ rid[o] = rid[p] => o = p

\* What the router got was sent by a call that runs or ran, under its id.
SentByCalls ==
    \A o \in toRouter : pc[o] # "idle" /\ (kind[o] = "leave" \/ rid[o] # 0)

\* An entry of the dictionaries is under the key of the call that stored it.
EntryKeys ==
    \A k \in Keys : requests[k] # NoOp =>
        /\ pc[requests[k]] # "idle"
        /\ k = <<kind[requests[k]], rid[requests[k]]>>

\* An answer on its way carries the key of the call it answers.
AnswerKeys ==
    \A i \in 1..Len(fromRouter) : fromRouter[i].type = "reply" =>
        /\ pc[fromRouter[i].op] # "idle"
        /\ fromRouter[i].key = <<kind[fromRouter[i].op], rid[fromRouter[i].op]>>

KeyInv == IdsDistinct /\ SentByCalls /\ EntryKeys /\ AnswerKeys

\* The goodbye future in use, and the one a leave() waits for, was made by a leave().
IsLeave(o) == o \in Ops /\ kind[o] = "leave" /\ pc[o] # "idle"
GoodbyeCalls ==
    /\ goodbyeRequest # NoOp => IsLeave(goodbyeRequest)
    /\ \A o \in Ops :
          /\ pc[o] \in {"leaving", "timed_out", "stopping"} => kind[o] = "leave"
          /\ pc[o] = "leaving" => goodbyeRequest # NoOp
          /\ pc[o] = "sending" => kind[o] # "leave"
          /\ pc[o] = "waiting" => kind[o] # "notify"
          /\ pc[o] = "waiting" /\ kind[o] = "leave" => IsLeave(target[o])

\* Once a leave() has stopped the reader, it stays stopped.
ReaderStopped ==
    \A o \in Ops : pc[o] = "stopping" => reader \notin {"recv", "callbacks"}

IInv == TypeOK /\ KeyInv /\ GoodbyeCalls /\ ReaderStopped /\ Correlation /\ LeaveCloses

-----------------------------------------------------------------------------
(* Types                                                                   *)

\* The inductive invariant holds at the start.
LEMMA InitInv == Init => IInv
<1> SUFFICES ASSUME Init
             PROVE  IInv
  OBVIOUS
<1> USE PeerAssumption DEF Init, PeerInit
<1>1. PeerTypeOK
  <2>1. kind \in [Ops -> Kinds]
    BY DEF Kinds, ReplyKinds
  <2>2. push \in [Pushes -> [handle : Ops \cup {NoOp}, late : BOOLEAN]]
    BY DEF NoPush
  <2>3. fromRouter \in Seq(Messages)
    OBVIOUS
  <2>4. rid \in [Ops -> 0..IdMax] /\ target \in [Ops -> Ops \cup {NoOp}]
    OBVIOUS
  <2>5. toRouter \subseteq Ops /\ live \subseteq Ops
    OBVIOUS
  <2>6. link \in {"up", "down"} /\ goodbyeSent \in BOOLEAN
    OBVIOUS
  <2> HIDE DEF Init, PeerInit
  <2> QED
    BY <2>1, <2>2, <2>3, <2>4, <2>5, <2>6 DEF PeerTypeOK
<1>2. TypeOK
  BY <1>1 DEF TypeOK, Unset
<1>3. KeyInv
  BY DEF KeyInv, IdsDistinct, SentByCalls, EntryKeys, AnswerKeys
<1>4. GoodbyeCalls /\ ReaderStopped
  BY DEF GoodbyeCalls, ReaderStopped
<1>5. Correlation /\ LeaveCloses
  BY DEF Correlation, Resolved, Unset, LeaveCloses
<1> QED
  BY <1>2, <1>3, <1>4, <1>5 DEF IInv

\* What the router does keeps the types.
LEMMA PeerType ==
    ASSUME PeerTypeOK, SentByCalls, PeerNext
    PROVE  PeerTypeOK'
<1> USE PeerAssumption DEF PeerTypeOK, requestVars, routerVars
<1>1. ASSUME NEW o \in Ops, RouterAccept(o)
      PROVE  PeerTypeOK'
  <2>1. PICK h \in AnswerHandles(o) :
             /\ fromRouter' = Append(fromRouter, Reply(o, TRUE, h))
             /\ live' = LiveAfter(o, h)
    BY <1>1 DEF RouterAccept
  <2>2. h \in Ops \cup {NoOp} /\ (kind[o] \in OpenKinds => h \in Ops)
    BY <2>1 DEF AnswerHandles, OpenKinds
  <2>3. <<kind[o], rid[o]>> \in Keys
    BY <1>1 DEF RouterAccept, SentByCalls, Keys, ReplyKinds
  <2>4. Reply(o, TRUE, h) \in Messages
    BY <2>2, <2>3 DEF Reply, Messages
  <2>5. live' \subseteq Ops
    BY <2>1, <2>2 DEF LiveAfter
  <2>6. fromRouter' \in Seq(Messages)
    BY <2>1, <2>4, AppendProperties
  <2> QED
    BY <1>1, <2>5, <2>6 DEF RouterAccept
<1>2. ASSUME NEW o \in Ops, RouterRefuse(o)
      PROVE  PeerTypeOK'
  <2>1. <<kind[o], rid[o]>> \in Keys
    BY <1>2 DEF RouterRefuse, SentByCalls, Keys, ReplyKinds
  <2>2. Reply(o, FALSE, NoOp) \in Messages
    BY <2>1 DEF Reply, Messages
  <2>3. fromRouter' \in Seq(Messages)
    BY <1>2, <2>2, AppendProperties DEF RouterRefuse
  <2> QED
    BY <1>2, <2>3 DEF RouterRefuse
<1>3. ASSUME NEW n \in Pushes, RouterPush(n)
      PROVE  PeerTypeOK'
  <2>1. Pushed(n) \in Messages
    BY DEF Pushed, Messages
  <2> QED
    BY <1>3, <2>1 DEF RouterPush
<1>4. ASSUME RouterGoodbye
      PROVE  PeerTypeOK'
  <2>1. Goodbye \in Messages
    BY DEF Messages
  <2> QED
    BY <1>4, <2>1 DEF RouterGoodbye
<1>5. ASSUME LinkDown
      PROVE  PeerTypeOK'
  BY <1>5 DEF LinkDown
<1> QED
  BY <1>1, <1>2, <1>3, <1>4, <1>5 DEF PeerNext, RouterAnswers

\* What the API coroutines do keeps the types.
LEMMA UserType ==
    ASSUME TypeOK, GoodbyeCalls, NEW o \in Ops, UserStep(o)
    PROVE  TypeOK'
<1> USE PeerAssumption
    DEF TypeOK, PeerTypeOK, requestVars, netVars, routerVars, dictVars, leaveVars
<1>1. ASSUME NEW k \in Kinds, Start(o, k), target' \in [Ops -> Ops \cup {NoOp}]
      PROVE  TypeOK'
  <2>1. idgen' \in 1..IdMax /\ NextId = idgen'
    BY <1>1 DEF Start, NextId
  <2>2. requests' \in [Keys -> Ops \cup {NoOp}]
    BY <1>1 DEF Start
  <2>3. rid' \in [Ops -> 0..IdMax] /\ kind' \in [Ops -> Kinds]
    BY <1>1, <2>1 DEF Start
  <2>4. toRouter' \subseteq Ops
    BY <1>1 DEF Start, Transmit
  <2>5. PICK v \in {"sending", "raised"} : pc' = [pc EXCEPT ![o] = v]
    BY <1>1 DEF Start
  <2>6. connected' \in BOOLEAN
    BY <1>1 DEF Start
  <2>7. UNCHANGED <<future, cancelled, endpoints, leaveVars, reader, task, link, fromRouter,
                    routerVars>>
    BY <1>1 DEF Start
  <2> QED
    BY <1>1, <2>1, <2>2, <2>3, <2>4, <2>5, <2>6, <2>7
<1>2. ASSUME NEW k \in Kinds, Issue(o, k)
      PROVE  TypeOK'
  BY <1>1, <1>2 DEF Issue
<1>3. ASSUME NEW k \in Kinds, IssueClose(o, k)
      PROVE  TypeOK'
  <2>1. PICK p \in Ops : target' = [target EXCEPT ![o] = future[p].handle]
    BY <1>3 DEF IssueClose
  <2>2. future[p].handle \in Ops \cup {NoOp}
    OBVIOUS
  <2>3. target' \in [Ops -> Ops \cup {NoOp}]
    BY <2>1, <2>2
  <2>4. Start(o, k)
    BY <1>3 DEF IssueClose
  <2> QED
    BY <1>1, <2>3, <2>4
<1>4. ASSUME NEW k \in Kinds, RefuseClose(o, k)
      PROVE  TypeOK'
  BY <1>4 DEF RefuseClose
<1>5. CASE Sent(o)
  <2>1. PICK v \in {"returned", "waiting", "raised"} : pc' = [pc EXCEPT ![o] = v]
    BY <1>5 DEF Sent, DrainFails
  <2>2. connected' \in BOOLEAN
    BY <1>5 DEF Sent, DrainFails
  <2>3. UNCHANGED <<idgen, requestVars, dictVars, leaveVars, reader, task, netVars>>
    BY <1>5 DEF Sent
  <2> QED
    BY <2>1, <2>2, <2>3
<1>6. CASE Return(o)
  BY <1>6 DEF Return
<1>7. CASE Cancel(o)
  <2>1. pc[o] = "waiting" => Awaited(o) \in Ops
    BY DEF Awaited, GoodbyeCalls, IsLeave
  <2> QED
    BY <1>7, <2>1 DEF Cancel
<1>8. CASE LeaveBegin(o)
  <2>1. toRouter' \subseteq Ops
    BY <1>8 DEF LeaveBegin, Transmit
  <2>2. PICK v \in {"leaving", "raised"} : pc' = [pc EXCEPT ![o] = v]
    BY <1>8 DEF LeaveBegin
  <2>3. connected' \in BOOLEAN
    BY <1>8 DEF LeaveBegin
  <2>4. kind' \in [Ops -> Kinds]
    BY <1>8 DEF LeaveBegin, Kinds
  <2>5. /\ UNCHANGED <<idgen, rid, target, dictVars, goodbyes, reader, task, link, fromRouter,
                       routerVars>>
        /\ goodbyeRequest' = o
    BY <1>8 DEF LeaveBegin
  <2> QED
    BY <2>1, <2>2, <2>3, <2>4, <2>5
<1>9. CASE LeaveWait(o)
  <2>1. PICK v \in {"waiting", "raised"} : pc' = [pc EXCEPT ![o] = v]
    BY <1>9 DEF LeaveWait, DrainFails
  <2>2. connected' \in BOOLEAN
    BY <1>9 DEF LeaveWait, DrainFails
  <2>4. target' \in [Ops -> Ops \cup {NoOp}]
    <3>1. target' = target \/ target' = [target EXCEPT ![o] = goodbyeRequest]
      BY <1>9 DEF LeaveWait
    <3> QED
      BY <3>1
  <2>3. UNCHANGED <<idgen, kind, rid, dictVars, leaveVars, reader, task, netVars>>
    BY <1>9 DEF LeaveWait
  <2> QED
    BY <2>1, <2>2, <2>3, <2>4
<1>10. CASE LeaveTimeout(o)
  <2>1. target[o] \in Ops
    BY <1>10 DEF LeaveTimeout, GoodbyeCalls, IsLeave
  <2> QED
    BY <1>10, <2>1 DEF LeaveTimeout
<1>11. CASE LeaveCancelled(o)
  BY <1>11 DEF LeaveCancelled
<1>12. CASE LeaveStopReader(o)
  BY <1>12 DEF LeaveStopReader
<1>13. CASE LeaveClose(o)
  <2>1. PICK v \in {"returned", "raised"} : pc' = [pc EXCEPT ![o] = v]
    BY <1>13 DEF LeaveClose
  <2>2. connected' \in BOOLEAN /\ link' \in {"up", "down"}
    BY <1>13 DEF LeaveClose
  <2> QED
    BY <1>13, <2>1, <2>2 DEF LeaveClose
<1> HIDE DEF TypeOK
<1> QED
  BY <1>2, <1>3, <1>4, <1>5, <1>6, <1>7, <1>8, <1>9, <1>10, <1>11, <1>12, <1>13,
     AsyncSessionAssumption
  DEF UserStep, CallProceeds

\* What the reader task does keeps the types.
LEMMA ReaderType ==
    ASSUME TypeOK, ReaderStep
    PROVE  TypeOK'
<1> USE PeerAssumption
    DEF TypeOK, PeerTypeOK, requestVars, netVars, routerVars, dictVars, leaveVars
<1>1. ASSUME NEW type, NEW succeeds \in BOOLEAN, Receive(type, succeeds)
      PROVE  /\ fromRouter # <<>> /\ fromRouter' = Tail(fromRouter)
             /\ Head(fromRouter) \in Messages /\ Head(fromRouter).type = type
             /\ fromRouter' \in Seq(Messages)
             /\ reader' \in {"recv", "callbacks", "ended", "cancelled", "crashed"}
  BY <1>1, HeadTailProperties DEF Receive, AfterLoop
<1>2. CASE ReaderReply
  <2> DEFINE m == Head(fromRouter)
             o == requests[m.key]
             found == ~KeyErrorOn(m, o) /\ o \notin cancelled
  <2>1. Receive("reply", found) /\ found \in BOOLEAN
    BY <1>2 DEF ReaderReply
  <2> HIDE DEF found
  <2>2. /\ m \in Messages /\ m.type = "reply"
        /\ fromRouter' \in Seq(Messages)
        /\ reader' \in {"recv", "callbacks", "ended", "cancelled", "crashed"}
    BY <1>1, <2>1
  <2>3. m.key \in Keys /\ m.op \in Ops /\ m.ok \in BOOLEAN /\ m.handle \in Ops \cup {NoOp}
    BY <2>2 DEF Messages, Goodbye
  <2>4. o \in Ops \cup {NoOp}
    BY <2>3
  <2>5. requests' \in [Keys -> Ops \cup {NoOp}]
    BY <1>2 DEF ReaderReply
  <2>6. endpoints' \in [Ops -> Ops \cup {NoOp}]
    <3>1. CASE KeyErrorOn(m, o)
      BY <1>2, <3>1 DEF ReaderReply
    <3>2. CASE ~KeyErrorOn(m, o)
      <4>1. o \in Ops /\ endpoints' = EndpointsAfter(m, o)
        BY <1>2, <2>4, <3>2 DEF ReaderReply, KeyErrorOn
      <4> QED
        BY <4>1 DEF EndpointsAfter
    <3> QED
      BY <3>1, <3>2
  <2>7. future' \in [Ops -> [op : Ops \cup {NoOp}, ok : BOOLEAN, handle : Ops \cup {NoOp}]]
    <3>1. CASE KeyErrorOn(m, o) \/ o \in cancelled
      BY <1>2, <3>1 DEF ReaderReply
    <3>2. CASE ~(KeyErrorOn(m, o) \/ o \in cancelled)
      <4>1. o \in Ops
        BY <2>4, <3>2 DEF KeyErrorOn
      <4>2. future' = [future EXCEPT ![o] = [op |-> m.op, ok |-> m.ok, handle |-> m.handle]]
        BY <1>2, <3>2 DEF ReaderReply, FutureAfter
      <4> QED
        BY <2>3, <4>1, <4>2
    <3> QED
      BY <3>1, <3>2
  <2>8. UNCHANGED <<idgen, pc, requestVars, cancelled, leaveVars, task, connected, link,
                    toRouter, routerVars>>
    BY <1>2 DEF ReaderReply
  <2> HIDE DEF m, o
  <2> QED
    BY <2>2, <2>5, <2>6, <2>7, <2>8
<1>3. CASE ReaderPush
  <2> DEFINE n == Head(fromRouter).n
             found == endpoints[push[n].handle] # NoOp
  <2>1. Receive("push", found) /\ found \in BOOLEAN
    BY <1>3 DEF ReaderPush
  <2>2. task' = [task EXCEPT ![n] = IF found THEN "running" ELSE "orphan"]
    BY <1>3 DEF ReaderPush
  <2>3. UNCHANGED <<idgen, pc, requestVars, dictVars, leaveVars, connected, link,
                    toRouter, routerVars>>
    BY <1>3 DEF ReaderPush
  <2> HIDE DEF found
  <2>4. /\ fromRouter' \in Seq(Messages)
        /\ reader' \in {"recv", "callbacks", "ended", "cancelled", "crashed"}
    BY <1>1, <2>1
  <2> QED
    BY <2>2, <2>3, <2>4
<1>4. CASE ReaderGoodbye
  <2> DEFINE free == goodbyeRequest \notin goodbyes \cup cancelled
  <2>1. Receive("goodbye", free) /\ free \in BOOLEAN
    BY <1>4 DEF ReaderGoodbye
  <2> HIDE DEF free
  <2>2. /\ fromRouter' \in Seq(Messages)
        /\ reader' \in {"recv", "callbacks", "ended", "cancelled", "crashed"}
    BY <1>1, <2>1
  <2> QED
    BY <1>4, <2>2 DEF ReaderGoodbye
<1>5. CASE ReaderError
  BY <1>5 DEF ReaderError, AfterLoop
<1> QED
  BY <1>2, <1>3, <1>4, <1>5 DEF ReaderStep

\* What the callback, the handler tasks and the WebSocket library do keeps the types.
LEMMA TaskType ==
    ASSUME TypeOK,
           CallbackFinish \/ WebSocketNotices \/ \E n \in Pushes : TaskFinish(n)
    PROVE  TypeOK'
<1> USE DEF TypeOK, PeerTypeOK, peerVars, requestVars, netVars, routerVars, dictVars, leaveVars
<1>1. CASE CallbackFinish
  BY <1>1 DEF CallbackFinish
<1>2. CASE WebSocketNotices
  BY <1>2 DEF WebSocketNotices
<1>3. ASSUME NEW n \in Pushes, TaskFinish(n)
      PROVE  TypeOK'
  <2>1. PICK how \in {"done", "unanswered"} : task' = [task EXCEPT ![n] = how]
    BY <1>3 DEF TaskFinish
  <2>2. connected' \in BOOLEAN
    BY <1>3 DEF TaskFinish
  <2>3. UNCHANGED <<idgen, pc, dictVars, leaveVars, reader, peerVars>>
    BY <1>3 DEF TaskFinish
  <2> QED
    BY <2>1, <2>2, <2>3
<1> HIDE DEF TypeOK
<1> QED
  BY <1>1, <1>2, <1>3

LEMMA NextType ==
    ASSUME TypeOK, SentByCalls, GoodbyeCalls, [Next]_vars
    PROVE  TypeOK'
<1>1. CASE PeerNext /\ UNCHANGED localVars
  <2>1. PeerTypeOK'
    BY <1>1, PeerType DEF TypeOK
  <2> QED
    BY <1>1, <2>1 DEF TypeOK, localVars, dictVars, leaveVars
<1>2. CASE UNCHANGED vars
  BY <1>2 DEF TypeOK, PeerTypeOK, vars, localVars, dictVars, leaveVars, peerVars,
              requestVars, netVars, routerVars
<1> QED
  BY <1>1, <1>2, UserType, ReaderType, TaskType DEF Next

-----------------------------------------------------------------------------
(* What an API coroutine does                                              *)

\* It asks the router: the id, the entry under it, and the request.
Asks(o) ==
    /\ pc[o] = "idle" /\ pc'[o] \in {"sending", "raised"}
    /\ kind'[o] \in ReplyKinds \cup {"notify"}
    /\ idgen' = idgen + 1 /\ idgen' \in 1..IdMax /\ rid'[o] = idgen'
    /\ requests' = IF kind'[o] \in ReplyKinds
                   THEN [requests EXCEPT ![<<kind'[o], rid'[o]>>] = o] ELSE requests
    /\ \/ toRouter' = toRouter
       \/ kind'[o] \in ReplyKinds /\ toRouter' = toRouter \cup {o}
    /\ target'[o] = target[o] \/ \E p \in Ops : target'[o] = future[p].handle
    /\ cancelled' = cancelled /\ goodbyeRequest' = goodbyeRequest /\ reader' = reader

\* It is refused before it takes an id.
Refused(o) ==
    /\ pc[o] = "idle" /\ pc'[o] = "raised"
    /\ kind'[o] \in CloseKinds /\ rid'[o] = rid[o] /\ target'[o] = target[o]
    /\ UNCHANGED <<idgen, requests, toRouter, cancelled, goodbyeRequest, reader>>

\* It begins a leave().
Leaves(o) ==
    /\ pc[o] = "idle" /\ pc'[o] \in {"leaving", "raised"}
    /\ kind'[o] = "leave" /\ rid'[o] = rid[o] /\ target'[o] = target[o]
    /\ UNCHANGED <<idgen, requests, cancelled, reader>>
    /\ toRouter' \subseteq toRouter \cup {o} /\ toRouter \subseteq toRouter'
    /\ goodbyeRequest' = o

\* It goes on after a suspension.
GoesOn(o) ==
    /\ pc[o] \notin {"idle", "cancelled"}
    /\ UNCHANGED <<idgen, kind, rid, requests, toRouter, goodbyeRequest>>
    /\ target'[o] # target[o] => pc[o] = "leaving" /\ target'[o] = goodbyeRequest
    /\ \/ cancelled' = cancelled
       \/ pc[o] = "waiting" /\ kind[o] \in ReplyKinds /\ ~Resolved(o)
             /\ pc'[o] = "cancelled" /\ cancelled' = cancelled \cup {o}
       \/ pc[o] = "waiting" /\ kind[o] = "leave" /\ cancelled' = cancelled \cup {target[o]}
    /\ reader' = reader \/ (reader \in {"recv", "callbacks"} /\ reader' = "cancelled")

UserChange(o) ==
    /\ UNCHANGED <<future, endpoints, task, fromRouter, live, push, goodbyeSent, goodbyes>>
    /\ connected' => connected
    /\ pc'[o] # "idle"
    /\ \A p \in Ops : p # o =>
          pc'[p] = pc[p] /\ kind'[p] = kind[p] /\ rid'[p] = rid[p] /\ target'[p] = target[p]
    /\ Asks(o) \/ Refused(o) \/ Leaves(o) \/ GoesOn(o)

LEMMA StartChanges ==
    ASSUME TypeOK, NEW o \in Ops, NEW k \in ReplyKinds \cup {"notify"}, Start(o, k),
           pc[o] = "idle",
           \A p \in Ops : p # o => target'[p] = target[p],
           target'[o] = target[o] \/ \E p \in Ops : target'[o] = future[p].handle
    PROVE  UserChange(o)
<1> USE DEF TypeOK, PeerTypeOK
<1>1. /\ idgen' = idgen + 1 /\ idgen' \in 1..IdMax
      /\ rid' = [rid EXCEPT ![o] = idgen'] /\ kind' = [kind EXCEPT ![o] = k]
      /\ requests' = IF k \in ReplyKinds THEN [requests EXCEPT ![<<k, idgen'>>] = o]
                     ELSE requests
  BY PeerAssumption DEF Start, NextId
<1>2. PICK v \in {"sending", "raised"} : pc' = [pc EXCEPT ![o] = v]
  BY DEF Start
<1>3. toRouter' = toRouter \/ (k \in ReplyKinds /\ toRouter' = toRouter \cup {o})
  BY DEF Start, Transmit
<1>4. connected' => connected
  BY DEF Start
<1>5. UNCHANGED <<future, endpoints, task, fromRouter, live, push, goodbyeSent, goodbyes,
                  cancelled, goodbyeRequest, reader>>
  BY DEF Start, leaveVars, routerVars
<1>6. /\ pc'[o] = v /\ kind'[o] = k /\ rid'[o] = idgen'
      /\ \A p \in Ops : p # o => pc'[p] = pc[p] /\ kind'[p] = kind[p] /\ rid'[p] = rid[p]
  BY <1>1, <1>2
<1>7. Asks(o)
  BY <1>1, <1>3, <1>5, <1>6 DEF Asks
<1> QED
  BY <1>4, <1>5, <1>6, <1>7 DEF UserChange

\* Whatever an API coroutine does is one of these.
LEMMA UserChanges ==
    ASSUME TypeOK, GoodbyeCalls, NEW o \in Ops, UserStep(o)
    PROVE  UserChange(o)
<1> USE DEF requestVars, netVars, routerVars, dictVars, leaveVars
<1>1. ASSUME NEW k \in ReplyKinds \cup {"notify"}, Issue(o, k)
      PROVE  UserChange(o)
  BY <1>1, StartChanges DEF Issue
<1>2. ASSUME NEW k \in CloseKinds, IssueClose(o, k)
      PROVE  UserChange(o)
  <2>1. PICK p \in Ops : target' = [target EXCEPT ![o] = future[p].handle]
    BY <1>2 DEF IssueClose
  <2>2. /\ \A q \in Ops : q # o => target'[q] = target[q]
        /\ target'[o] = future[p].handle
    BY <2>1 DEF TypeOK, PeerTypeOK
  <2>3. Start(o, k) /\ pc[o] = "idle" /\ k \in ReplyKinds
    BY <1>2 DEF IssueClose, CloseKinds, ReplyKinds
  <2> QED
    BY <2>2, <2>3, StartChanges
<1> USE DEF TypeOK, PeerTypeOK
<1>3. ASSUME NEW k \in CloseKinds, RefuseClose(o, k)
      PROVE  UserChange(o)
  BY <1>3 DEF RefuseClose, UserChange, Refused
<1>4. CASE LeaveBegin(o)
  <2>1. toRouter' = toRouter \/ toRouter' = toRouter \cup {o}
    BY <1>4 DEF LeaveBegin, Transmit
  <2>2. PICK v \in {"leaving", "raised"} : pc' = [pc EXCEPT ![o] = v]
    BY <1>4 DEF LeaveBegin
  <2>3. connected' => connected
    BY <1>4 DEF LeaveBegin
  <2>4. /\ UNCHANGED <<idgen, rid, target, future, cancelled, requests, endpoints, goodbyes,
                       reader, task, fromRouter, live, push, goodbyeSent>>
        /\ goodbyeRequest' = o /\ pc[o] = "idle" /\ kind' = [kind EXCEPT ![o] = "leave"]
    BY <1>4 DEF LeaveBegin
  <2> QED
    BY <2>1, <2>2, <2>3, <2>4 DEF UserChange, Leaves
<1>5. CASE Sent(o) \/ Return(o) \/ LeaveCancelled(o)
  <2>1. PICK v \in {"returned", "waiting", "raised"} : pc' = [pc EXCEPT ![o] = v]
    BY <1>5 DEF Sent, DrainFails, Return, LeaveCancelled
  <2>2. /\ UNCHANGED <<idgen, requestVars, dictVars, leaveVars, reader, task, netVars>>
        /\ pc[o] \in {"sending", "waiting"} /\ (connected' => connected)
    BY <1>5 DEF Sent, DrainFails, Return, LeaveCancelled
  <2> QED
    BY <2>1, <2>2 DEF UserChange, GoesOn
<1>6. CASE Cancel(o)
  <2>1. /\ pc' = [pc EXCEPT ![o] = "cancelled"]
        /\ pc[o] \in {"sending", "waiting", "leaving", "timed_out", "stopping"}
        /\ UNCHANGED <<idgen, requestVars, future, requests, endpoints, leaveVars, reader,
                       task, connected, netVars>>
    BY <1>6 DEF Cancel
  <2>2. \/ cancelled' = cancelled
        \/ /\ pc[o] = "waiting" /\ ~Settled(Awaited(o))
           /\ cancelled' = cancelled \cup {Awaited(o)}
    BY <1>6 DEF Cancel
  <2>3. pc[o] = "waiting" /\ kind[o] # "leave" => kind[o] \in ReplyKinds
    BY DEF GoodbyeCalls, Kinds
  <2>4. \/ cancelled' = cancelled
        \/ pc[o] = "waiting" /\ kind[o] \in ReplyKinds /\ ~Resolved(o)
              /\ cancelled' = cancelled \cup {o}
        \/ pc[o] = "waiting" /\ kind[o] = "leave" /\ cancelled' = cancelled \cup {target[o]}
    BY <2>2, <2>3 DEF Awaited, Settled
  <2> QED
    BY <2>1, <2>4 DEF UserChange, GoesOn
<1>7. CASE LeaveWait(o)
  <2>1. PICK v \in {"waiting", "raised"} : pc' = [pc EXCEPT ![o] = v]
    BY <1>7 DEF LeaveWait, DrainFails
  <2>2. target' = target \/ target' = [target EXCEPT ![o] = goodbyeRequest]
    BY <1>7 DEF LeaveWait
  <2>3. /\ UNCHANGED <<idgen, kind, rid, dictVars, leaveVars, reader, task, netVars>>
        /\ pc[o] = "leaving" /\ (connected' => connected)
    BY <1>7 DEF LeaveWait, DrainFails
  <2> QED
    BY <2>1, <2>2, <2>3 DEF UserChange, GoesOn
<1>8. CASE LeaveTimeout(o)
  BY <1>8 DEF LeaveTimeout, UserChange, GoesOn
<1>9. CASE LeaveStopReader(o)
  BY <1>9 DEF LeaveStopReader, UserChange, GoesOn
<1>10. CASE LeaveClose(o)
  <2>1. PICK v \in {"returned", "raised"} : pc' = [pc EXCEPT ![o] = v]
    BY <1>10 DEF LeaveClose
  <2>2. connected' => connected
    BY <1>10 DEF LeaveClose
  <2>3. /\ UNCHANGED <<idgen, requestVars, dictVars, leaveVars, reader, task, toRouter,
                       fromRouter, routerVars>>
        /\ pc[o] = "stopping"
    BY <1>10 DEF LeaveClose
  <2> QED
    BY <2>1, <2>2, <2>3 DEF UserChange, GoesOn
<1> HIDE DEF TypeOK, PeerTypeOK, requestVars, netVars, routerVars, dictVars, leaveVars
<1>11. ASSUME NEW k \in ActiveKinds \ (CloseKinds \cup {"leave"})
       PROVE  k \in ReplyKinds \cup {"notify"}
  BY AsyncSessionAssumption DEF Kinds
<1> QED
  BY <1>1, <1>2, <1>3, <1>4, <1>5, <1>6, <1>7, <1>8, <1>9, <1>10, <1>11
  DEF UserStep, CallProceeds

-----------------------------------------------------------------------------
(* Keys                                                                    *)

\* A step that issues no id, stores nothing and makes the router say nothing keeps
\* the keys in order.
LEMMA KeyFrame ==
    ASSUME TypeOK, KeyInv, UNCHANGED <<idgen, rid>>,
           \A o \in Ops : pc[o] # "idle" => pc'[o] # "idle" /\ kind'[o] = kind[o],
           \A k \in Keys : requests'[k] \in {requests[k], NoOp},
           \A o \in toRouter' :
               \/ o \in toRouter
               \/ o \in Ops /\ pc'[o] # "idle" /\ (kind'[o] = "leave" \/ rid[o] # 0),
           \/ fromRouter' = fromRouter
           \/ fromRouter # <<>> /\ fromRouter' = Tail(fromRouter)
    PROVE  KeyInv'
<1> USE DEF KeyInv, TypeOK, PeerTypeOK
<1>1. IdsDistinct'
  BY DEF IdsDistinct
<1>2. SentByCalls'
  BY DEF SentByCalls
<1>3. EntryKeys'
  BY DEF EntryKeys
<1>4. AnswerKeys'
  <2>1. CASE fromRouter' = fromRouter
    <3> SUFFICES ASSUME NEW i \in 1..Len(fromRouter), fromRouter[i].type = "reply"
                 PROVE  /\ pc'[fromRouter[i].op] # "idle"
                        /\ fromRouter[i].key =
                               <<kind'[fromRouter[i].op], rid'[fromRouter[i].op]>>
      BY <2>1 DEF AnswerKeys
    <3>1. fromRouter[i] \in Messages
      BY ElementOfSeq
    <3>2. fromRouter[i].op \in Ops
      BY <3>1 DEF Messages, Goodbye
    <3> QED
      BY <3>2 DEF AnswerKeys
  <2>2. CASE fromRouter # <<>> /\ fromRouter' = Tail(fromRouter)
    <3> SUFFICES ASSUME NEW i \in 1..Len(fromRouter'), fromRouter'[i].type = "reply"
                 PROVE  /\ pc'[fromRouter'[i].op] # "idle"
                        /\ fromRouter'[i].key =
                               <<kind'[fromRouter'[i].op], rid'[fromRouter'[i].op]>>
      BY DEF AnswerKeys
    <3>1. i + 1 \in 1..Len(fromRouter) /\ fromRouter'[i] = fromRouter[i + 1]
      BY <2>2, HeadTailProperties
    <3>2. fromRouter[i + 1] \in Messages
      BY <3>1, ElementOfSeq
    <3>3. fromRouter[i + 1].op \in Ops
      BY <3>1, <3>2 DEF Messages, Goodbye
    <3> QED
      BY <3>1, <3>3 DEF AnswerKeys
  <2> QED
    BY <2>1, <2>2
<1> QED
  BY <1>1, <1>2, <1>3, <1>4

\* A message of the router keeps the keys in order, if it carries the right one.
LEMMA KeyAnswer ==
    ASSUME TypeOK, KeyInv, NEW m \in Messages,
           m.type = "reply" =>
               pc[m.op] # "idle" /\ m.key = <<kind[m.op], rid[m.op]>>,
           fromRouter' = Append(fromRouter, m),
           toRouter' \subseteq toRouter,
           UNCHANGED <<idgen, rid, kind, pc, requests>>
    PROVE  KeyInv'
<1> USE DEF KeyInv, TypeOK, PeerTypeOK
<1>1. IdsDistinct' /\ SentByCalls' /\ EntryKeys'
  BY DEF IdsDistinct, SentByCalls, EntryKeys
<1>2. AnswerKeys'
  <2> SUFFICES ASSUME NEW i \in 1..Len(fromRouter'), fromRouter'[i].type = "reply"
               PROVE  /\ pc[fromRouter'[i].op] # "idle"
                      /\ fromRouter'[i].key =
                             <<kind[fromRouter'[i].op], rid[fromRouter'[i].op]>>
    BY DEF AnswerKeys
  <2>1. (i \in 1..Len(fromRouter) /\ fromRouter'[i] = fromRouter[i]) \/ fromRouter'[i] = m
    BY AppendProperties
  <2> QED
    BY <2>1 DEF AnswerKeys
<1> QED
  BY <1>1, <1>2

\* A call that asks under the next id keeps the keys in order.
LEMMA KeyNew ==
    ASSUME TypeOK, KeyInv, NEW o \in Ops, UserChange(o), Asks(o)
    PROVE  KeyInv'
<1> USE PeerAssumption DEF KeyInv, TypeOK, PeerTypeOK
<1>1. /\ \A p \in Ops : p # o => pc'[p] = pc[p] /\ kind'[p] = kind[p] /\ rid'[p] = rid[p]
      /\ fromRouter' = fromRouter
  BY DEF UserChange
<1>2. /\ pc[o] = "idle" /\ pc'[o] # "idle" /\ rid'[o] = idgen + 1 /\ idgen' = idgen + 1
      /\ idgen \in Nat
  BY DEF Asks
<1>3. IdsDistinct'
  <2>1. \A p \in Ops : rid[p] \in Nat /\ rid[p] <= idgen
    BY DEF IdsDistinct
  <2>2. \A p \in Ops : rid'[p] <= idgen'
    <3> TAKE p \in Ops
    <3>1. CASE p = o
      BY <1>2, <3>1
    <3>2. CASE p # o
      <4>1. rid'[p] = rid[p] /\ rid[p] \in Nat /\ rid[p] <= idgen
        BY <1>1, <2>1, <3>2
      <4> QED
        BY <1>2, <4>1
    <3> QED
      BY <3>1, <3>2
  <2>3. \A p, q \in Ops : rid'[p] # 0 /\ rid'[p] = rid'[q] => p = q
    BY <1>1, <1>2, <2>1 DEF IdsDistinct
  <2> QED
    BY <2>2, <2>3 DEF IdsDistinct
<1>4. SentByCalls'
  <2> SUFFICES ASSUME NEW p \in toRouter'
               PROVE  pc'[p] # "idle" /\ (kind'[p] = "leave" \/ rid'[p] # 0)
    BY DEF SentByCalls
  <2>1. CASE p = o
    BY <1>2, <2>1
  <2>2. CASE p # o
    <3>1. p \in toRouter /\ p \in Ops
      BY <2>2 DEF Asks
    <3> QED
      BY <1>1, <2>2, <3>1 DEF SentByCalls
  <2> QED
    BY <2>1, <2>2
<1>5. EntryKeys'
  <2>1. ASSUME NEW k \in Keys, requests'[k] # NoOp
        PROVE  pc'[requests'[k]] # "idle" /\ k = <<kind'[requests'[k]], rid'[requests'[k]]>>
    <3>1. CASE requests'[k] = requests[k]
      <4>1. pc[requests[k]] # "idle" /\ k = <<kind[requests[k]], rid[requests[k]]>>
        BY <2>1, <3>1 DEF EntryKeys
      <4>2. requests[k] # o /\ requests[k] \in Ops
        BY <1>2, <2>1, <3>1, <4>1
      <4> QED
        BY <1>1, <3>1, <4>1, <4>2
    <3>2. CASE requests'[k] # requests[k]
      <4>1. requests' = [requests EXCEPT ![<<kind'[o], rid'[o]>>] = o]
        BY <3>2 DEF Asks
      <4>2. k = <<kind'[o], rid'[o]>> /\ requests'[k] = o
        BY <3>2, <4>1
      <4> QED
        BY <1>2, <4>2
    <3> QED
      BY <3>1, <3>2
  <2> QED
    BY <2>1 DEF EntryKeys
<1>6. AnswerKeys'
  <2> SUFFICES ASSUME NEW i \in 1..Len(fromRouter), fromRouter[i].type = "reply"
               PROVE  /\ pc'[fromRouter[i].op] # "idle"
                      /\ fromRouter[i].key =
                             <<kind'[fromRouter[i].op], rid'[fromRouter[i].op]>>
    BY <1>1 DEF AnswerKeys
  <2>1. fromRouter[i] \in Messages
    BY ElementOfSeq
  <2>2. fromRouter[i].op \in Ops
    BY <2>1 DEF Messages, Goodbye
  <2>3. pc[fromRouter[i].op] # "idle"
    BY DEF AnswerKeys
  <2> QED
    BY <1>1, <1>2, <2>2, <2>3 DEF AnswerKeys
<1> QED
  BY <1>3, <1>4, <1>5, <1>6

\* What the API coroutines do keeps the keys in order and resolves no future.
LEMMA UserKeys ==
    ASSUME TypeOK, TypeOK', KeyInv, NEW o \in Ops, UserChange(o)
    PROVE  KeyInv' /\ future' = future
<1>1. future' = future /\ fromRouter' = fromRouter
  BY DEF UserChange
<1>2. CASE Asks(o)
  BY <1>1, <1>2, KeyNew
<1>3. CASE Refused(o) \/ Leaves(o) \/ GoesOn(o)
  <2>1. rid' = rid
    <3>1. \A p \in Ops : rid'[p] = rid[p]
      BY <1>3 DEF UserChange, Refused, Leaves, GoesOn
    <3> QED
      BY <3>1 DEF TypeOK, PeerTypeOK
  <2>2. idgen' = idgen /\ requests' = requests
    BY <1>3 DEF Refused, Leaves, GoesOn
  <2>3. \A p \in Ops : pc[p] # "idle" => pc'[p] # "idle" /\ kind'[p] = kind[p]
    BY <1>3 DEF UserChange, Refused, Leaves, GoesOn
  <2>4. \A p \in toRouter' : p \in toRouter \/ (p = o /\ pc'[o] # "idle" /\ kind'[o] = "leave")
    BY <1>3 DEF Refused, Leaves, GoesOn
  <2> QED
    BY <1>1, <2>1, <2>2, <2>3, <2>4, KeyFrame
<1> QED
  BY <1>2, <1>3 DEF UserChange

\* The answer the reader pops a call for is the answer to that call.
LEMMA ReplyKeys ==
    ASSUME TypeOK, KeyInv, Correlation, ReaderReply
    PROVE  KeyInv' /\ Correlation'
<1> DEFINE m == Head(fromRouter)
           o == requests[m.key]
<1>1. fromRouter # <<>> /\ m.type = "reply" /\ fromRouter' = Tail(fromRouter)
  BY DEF ReaderReply, Receive
<1>2. m = fromRouter[1] /\ 1 \in 1..Len(fromRouter) /\ m \in Messages
  BY <1>1, HeadTailProperties, ElementOfSeq DEF TypeOK, PeerTypeOK
<1>3. m.key \in Keys /\ m.op \in Ops /\ m.ok \in BOOLEAN /\ m.handle \in Ops \cup {NoOp}
  BY <1>1, <1>2 DEF Messages, Goodbye
<1>4. KeyInv'
  <2>1. requests' = [requests EXCEPT ![m.key] = NoOp]
    BY DEF ReaderReply
  <2>2. UNCHANGED <<idgen, kind, rid, pc, toRouter>>
    BY DEF ReaderReply, requestVars
  <2>3. \A k \in Keys : requests'[k] \in {requests[k], NoOp}
    BY <2>1 DEF TypeOK
  <2> QED
    BY <1>1, <2>2, <2>3, KeyFrame DEF TypeOK, PeerTypeOK
<1>5. Correlation'
  <2>1. CASE KeyErrorOn(m, o) \/ o \in cancelled
    BY <2>1 DEF ReaderReply, Correlation, Resolved
  <2>2. CASE ~(KeyErrorOn(m, o) \/ o \in cancelled)
    <3>1. o \in Ops
      BY <1>3, <2>2 DEF KeyErrorOn, TypeOK
    <3>2. m.key = <<kind[o], rid[o]>>
      BY <1>3, <3>1, PeerAssumption DEF KeyInv, EntryKeys
    <3>3. m.key = <<kind[m.op], rid[m.op]>>
      BY <1>1, <1>2 DEF KeyInv, AnswerKeys
    <3>4. rid[o] = rid[m.op] /\ rid[o] # 0
      BY <1>3, <3>2, <3>3 DEF Keys
    <3>5. m.op = o
      BY <1>3, <3>1, <3>4 DEF KeyInv, IdsDistinct
    <3>6. future' = [future EXCEPT ![o] = [op |-> m.op, ok |-> m.ok, handle |-> m.handle]]
      BY <2>2 DEF ReaderReply, FutureAfter
    <3> QED
      BY <3>1, <3>5, <3>6 DEF Correlation, Resolved, TypeOK
  <2> QED
    BY <2>1, <2>2
<1> QED
  BY <1>4, <1>5

\* The other steps of the reader keep the keys in order and resolve no future.
LEMMA ReaderKeys ==
    ASSUME TypeOK, KeyInv, ReaderPush \/ ReaderGoodbye \/ ReaderError
    PROVE  KeyInv' /\ future' = future
<1>1. UNCHANGED <<idgen, kind, rid, pc, requests, future, toRouter>>
  BY DEF ReaderPush, ReaderGoodbye, ReaderError, dictVars, netVars, requestVars
<1>2. \/ fromRouter' = fromRouter
      \/ fromRouter # <<>> /\ fromRouter' = Tail(fromRouter)
  BY DEF ReaderPush, ReaderGoodbye, ReaderError, Receive, netVars
<1> QED
  BY <1>1, <1>2, KeyFrame

\* What the router does keeps the keys in order.
LEMMA PeerKeys ==
    ASSUME TypeOK, KeyInv, PeerNext, UNCHANGED localVars
    PROVE  KeyInv' /\ future' = future
<1> USE DEF requestVars, routerVars
<1>1. UNCHANGED <<idgen, pc, requests, future>>
  BY DEF localVars, dictVars
<1>2. ASSUME NEW o \in Ops, RouterAccept(o) \/ RouterRefuse(o)
      PROVE  KeyInv'
  <2>0. \E ok, h : fromRouter' = Append(fromRouter, Reply(o, ok, h))
    BY <1>2 DEF RouterAccept, RouterRefuse
  <2>1. PICK m : /\ fromRouter' = Append(fromRouter, m)
                 /\ m.type = "reply"
                 /\ m.op = o
                 /\ m.key = <<kind[o], rid[o]>>
    BY <2>0 DEF Reply
  <2>2. pc[o] # "idle"
    BY <1>2 DEF RouterAccept, RouterRefuse, KeyInv, SentByCalls
  <2>3. UNCHANGED <<kind, rid>> /\ toRouter' \subseteq toRouter
    BY <1>2 DEF RouterAccept, RouterRefuse
  <2>4. fromRouter' \in Seq(Messages)
    BY PeerType DEF TypeOK, PeerTypeOK, KeyInv
  <2>5. m \in Messages
    <3>1. Len(fromRouter') = Len(fromRouter) + 1 /\ fromRouter'[Len(fromRouter) + 1] = m
      BY <2>1 DEF TypeOK, PeerTypeOK
    <3>2. Len(fromRouter) + 1 \in 1..Len(fromRouter')
      BY <3>1 DEF TypeOK, PeerTypeOK
    <3> QED
      BY <2>4, <3>1, <3>2, ElementOfSeq
  <2> QED
    BY <1>1, <2>1, <2>2, <2>3, <2>5, KeyAnswer
<1>3. ASSUME NEW n \in Pushes, RouterPush(n)
      PROVE  KeyInv'
  <2>1. Pushed(n) \in Messages /\ Pushed(n).type = "push"
    BY DEF Pushed, Messages
  <2> QED
    BY <1>1, <1>3, <2>1, KeyAnswer DEF RouterPush
<1>4. CASE RouterGoodbye
  <2>1. Goodbye \in Messages /\ Goodbye.type = "goodbye"
    BY DEF Goodbye, Messages
  <2> QED
    BY <1>1, <1>4, <2>1, KeyAnswer DEF RouterGoodbye
<1>5. CASE LinkDown
  BY <1>1, <1>5, KeyFrame DEF LinkDown
<1> QED
  BY <1>1, <1>2, <1>3, <1>4, <1>5 DEF PeerNext, RouterAnswers

-----------------------------------------------------------------------------
(* leave()                                                                 *)

LeaveInv == GoodbyeCalls /\ ReaderStopped /\ LeaveCloses

\* A step that leaves the calls alone, revives neither the reader nor the connection
\* and replaces no goodbye future keeps what the leave() calls rely on.
LEMMA LeaveFrame ==
    ASSUME LeaveInv, UNCHANGED <<kind, pc, target, goodbyeRequest>>,
           connected' => connected,
           reader \notin {"recv", "callbacks"} => reader' = reader
    PROVE  LeaveInv'
<1>1. GoodbyeCalls'
  BY DEF LeaveInv, GoodbyeCalls, IsLeave
<1>2. ReaderStopped' /\ LeaveCloses'
  BY DEF LeaveInv, ReaderStopped, LeaveCloses
<1> QED
  BY <1>1, <1>2 DEF LeaveInv

\* The state a call comes to keeps what the leave() calls rely on.
LEMMA LeaveStep ==
    ASSUME TypeOK, TypeOK', LeaveInv, NEW o \in Ops, UserChange(o),
           pc'[o] \in {"leaving", "timed_out", "stopping"} => kind'[o] = "leave",
           pc'[o] = "leaving" => goodbyeRequest' # NoOp,
           pc'[o] = "sending" => kind'[o] # "leave",
           pc'[o] = "waiting" => kind'[o] # "notify",
           pc'[o] = "waiting" /\ kind'[o] = "leave" => IsLeave(target[o])',
           pc'[o] = "stopping" => reader' \notin {"recv", "callbacks"},
           kind'[o] = "leave" /\ pc'[o] = "returned" =>
               ~connected' /\ reader' \in {"ended", "cancelled"}
    PROVE  LeaveInv'
<1>1. /\ \A p \in Ops : p # o =>
            pc'[p] = pc[p] /\ kind'[p] = kind[p] /\ target'[p] = target[p]
      /\ pc'[o] # "idle" /\ (connected' => connected)
  BY DEF UserChange
<1>2. pc[o] # "idle" => kind'[o] = kind[o]
  BY DEF UserChange, Asks, Refused, Leaves, GoesOn
<1>3. \A p : IsLeave(p) => IsLeave(p)'
  BY <1>1, <1>2 DEF IsLeave
<1>4. goodbyeRequest' = goodbyeRequest \/ (goodbyeRequest' = o /\ kind'[o] = "leave")
  BY DEF UserChange, Asks, Refused, Leaves, GoesOn
<1>5. GoodbyeCalls'
  <2>1. goodbyeRequest' # NoOp => IsLeave(goodbyeRequest)'
    BY <1>1, <1>3, <1>4 DEF LeaveInv, GoodbyeCalls, IsLeave
  <2>2. goodbyeRequest # NoOp => goodbyeRequest' # NoOp
    BY <1>4, PeerAssumption
  <2>3. ASSUME NEW p \in Ops
        PROVE  /\ pc'[p] \in {"leaving", "timed_out", "stopping"} => kind'[p] = "leave"
               /\ pc'[p] = "leaving" => goodbyeRequest' # NoOp
               /\ pc'[p] = "sending" => kind'[p] # "leave"
               /\ pc'[p] = "waiting" => kind'[p] # "notify"
               /\ pc'[p] = "waiting" /\ kind'[p] = "leave" => IsLeave(target[p])'
    <3>1. CASE p = o
      BY <3>1
    <3>2. CASE p # o
      <4>1. pc'[p] = pc[p] /\ kind'[p] = kind[p] /\ target'[p] = target[p]
        BY <1>1, <3>2
      <4>2. /\ pc[p] \in {"leaving", "timed_out", "stopping"} => kind[p] = "leave"
            /\ pc[p] = "leaving" => goodbyeRequest # NoOp
            /\ pc[p] = "sending" => kind[p] # "leave"
            /\ pc[p] = "waiting" => kind[p] # "notify"
            /\ pc[p] = "waiting" /\ kind[p] = "leave" => IsLeave(target[p])
        BY DEF LeaveInv, GoodbyeCalls
      <4>3. IsLeave(target[p]) => IsLeave(target[p])'
        <5> DEFINE t == target[p]
        <5>1. IsLeave(t) => t \in Ops /\ kind'[t] = "leave" /\ pc'[t] # "idle"
          BY <1>3 DEF IsLeave
        <5> QED
          BY <4>1, <5>1 DEF IsLeave
      <4> QED
        BY <2>2, <4>1, <4>2, <4>3
    <3> QED
      BY <3>1, <3>2
  <2> QED
    BY <2>1, <2>3 DEF GoodbyeCalls
<1>6. reader' = reader \/ (reader \in {"recv", "callbacks"} /\ reader' = "cancelled")
  BY DEF UserChange, Asks, Refused, Leaves, GoesOn
<1>7. ReaderStopped' /\ LeaveCloses'
  BY <1>1, <1>6 DEF LeaveInv, ReaderStopped, LeaveCloses
<1> QED
  BY <1>5, <1>7 DEF LeaveInv

\* What the API coroutines do keeps it.
LEMMA UserLeave ==
    ASSUME TypeOK, TypeOK', LeaveInv, NEW o \in Ops, UserStep(o)
    PROVE  LeaveInv'
<1>1. UserChange(o)
  BY UserChanges DEF LeaveInv
<1>2. CASE Asks(o)
  BY <1>1, <1>2, LeaveStep DEF Asks, ReplyKinds
<1>3. CASE Refused(o)
  BY <1>1, <1>3, LeaveStep DEF Refused, CloseKinds
<1>4. CASE Leaves(o)
  BY <1>1, <1>4, LeaveStep, PeerAssumption DEF Leaves
<1> USE DEF TypeOK, PeerTypeOK, requestVars
<1>5. ASSUME GoesOn(o), Sent(o) \/ Return(o) \/ Cancel(o) \/ LeaveTimeout(o) \/ LeaveCancelled(o)
      PROVE  LeaveInv'
  <2>1. PICK v \in {"returned", "waiting", "raised", "cancelled", "timed_out"} :
             /\ pc' = [pc EXCEPT ![o] = v]
             /\ v = "returned" => kind[o] \in ReplyKinds \cup {"notify"}
             /\ v = "waiting" => pc[o] = "sending" /\ kind[o] # "notify"
             /\ v = "timed_out" => kind[o] = "leave"
    BY <1>5 DEF Sent, DrainFails, Return, Cancel, LeaveTimeout, LeaveCancelled, Kinds
  <2>2. pc'[o] = v /\ kind' = kind
    BY <1>5, <2>1 DEF GoesOn
  <2>3. v = "returned" => kind[o] # "leave"
    BY <2>1 DEF ReplyKinds
  <2>4. v = "waiting" => kind[o] # "leave"
    BY <2>1 DEF LeaveInv, GoodbyeCalls
  <2>5. /\ pc'[o] \in {"leaving", "timed_out", "stopping"} => kind'[o] = "leave"
        /\ pc'[o] \notin {"leaving", "sending", "stopping"}
        /\ kind'[o] = "leave" => pc'[o] \notin {"returned", "waiting"}
        /\ pc'[o] = "waiting" => kind'[o] # "notify"
    BY <2>1, <2>2, <2>3, <2>4
  <2> HIDE DEF TypeOK, PeerTypeOK, requestVars
  <2> QED
    BY <1>1, <2>5, LeaveStep
<1>6. CASE LeaveWait(o) /\ DrainFails(o)
  <2>1. pc'[o] = "raised"
    BY <1>6 DEF DrainFails
  <2> QED
    BY <1>1, <2>1, LeaveStep
<1>10. CASE LeaveWait(o) /\ ~DrainFails(o)
  <2>1. /\ pc[o] = "leaving" /\ target'[o] = goodbyeRequest /\ pc'[o] = "waiting"
        /\ kind' = kind /\ \A p \in Ops : pc[p] # "idle" => pc'[p] # "idle"
    BY <1>10 DEF LeaveWait
  <2>2. IsLeave(goodbyeRequest)
    BY <2>1 DEF LeaveInv, GoodbyeCalls
  <2>3. IsLeave(target[o])'
    <3> DEFINE g == goodbyeRequest
    <3>1. g \in Ops /\ kind'[g] = "leave" /\ pc'[g] # "idle"
      BY <2>1, <2>2 DEF IsLeave
    <3> QED
      BY <2>1, <3>1 DEF IsLeave
  <2>4. kind'[o] = "leave"
    BY <2>1 DEF LeaveInv, GoodbyeCalls
  <2> QED
    BY <1>1, <2>1, <2>3, <2>4, LeaveStep
<1>7. CASE LeaveStopReader(o)
  <2>1. pc'[o] = "stopping" /\ reader' \notin {"recv", "callbacks"} /\ kind'[o] = "leave"
    BY <1>7 DEF LeaveStopReader, LeaveInv, GoodbyeCalls
  <2> QED
    BY <1>1, <2>1, LeaveStep
<1>8. CASE LeaveClose(o)
  <2>1. reader' = reader /\ reader \notin {"recv", "callbacks"}
    BY <1>8 DEF LeaveClose, LeaveInv, ReaderStopped
  <2>2. CASE reader \in {"crashed", "failed"}
    <3>1. pc'[o] = "raised"
      BY <1>8, <2>2 DEF LeaveClose
    <3> QED
      BY <1>1, <3>1, LeaveStep
  <2>3. CASE reader \notin {"crashed", "failed"}
    <3>1. pc'[o] = "returned" /\ ~connected' /\ reader' \in {"ended", "cancelled"}
      BY <1>8, <2>1, <2>3 DEF LeaveClose
    <3> QED
      BY <1>1, <3>1, LeaveStep
  <2> QED
    BY <2>2, <2>3
<1> HIDE DEF TypeOK, PeerTypeOK, requestVars
<1>9. CASE GoesOn(o)
  <2>1. pc[o] # "idle"
    BY <1>9 DEF GoesOn
  <2>2. \/ Sent(o) \/ Return(o) \/ LeaveWait(o) \/ LeaveTimeout(o) \/ LeaveCancelled(o)
        \/ LeaveStopReader(o) \/ LeaveClose(o) \/ Cancel(o)
    BY <2>1 DEF UserStep, CallProceeds, Issue, IssueClose, RefuseClose, LeaveBegin
  <2> QED
    BY <1>5, <1>6, <1>7, <1>8, <1>9, <1>10, <2>2
<1> QED
  BY <1>1, <1>2, <1>3, <1>4, <1>9 DEF UserChange

\* What the reader, the other tasks and the router do keeps it.
LEMMA OtherLeave ==
    ASSUME LeaveInv,
           \/ ReaderStep \/ CallbackFinish \/ WebSocketNotices
           \/ \E n \in Pushes : TaskFinish(n)
           \/ PeerNext /\ UNCHANGED localVars
    PROVE  LeaveInv'
<1> USE DEF leaveVars, requestVars, peerVars, routerVars
<1>1. CASE ReaderStep
  BY <1>1, LeaveFrame DEF ReaderStep, ReaderReply, ReaderPush, ReaderGoodbye, ReaderError, Receive
<1>2. CASE CallbackFinish \/ WebSocketNotices
  BY <1>2, LeaveFrame DEF CallbackFinish, WebSocketNotices
<1>3. ASSUME NEW n \in Pushes, TaskFinish(n)
      PROVE  LeaveInv'
  <2>1. UNCHANGED <<kind, pc, target, goodbyeRequest, reader>> /\ (connected' => connected)
    BY <1>3 DEF TaskFinish
  <2> QED
    BY <2>1, LeaveFrame
<1>4. CASE PeerNext /\ UNCHANGED localVars
  <2>1. UNCHANGED <<kind, target>>
    BY <1>4 DEF PeerNext, RouterAnswers, RouterAccept, RouterRefuse, RouterPush, RouterGoodbye,
                LinkDown
  <2> QED
    BY <1>4, <2>1, LeaveFrame DEF localVars
<1> QED
  BY <1>1, <1>2, <1>3, <1>4

-----------------------------------------------------------------------------
(* The inductive invariant                                                 *)

LEMMA NextInv ==
    ASSUME IInv, [Next]_vars
    PROVE  IInv'
<1> USE DEF IInv
<1>1. TypeOK'
  BY NextType DEF KeyInv
<1>2. ASSUME KeyInv', future' = future, LeaveInv'
      PROVE  IInv'
  BY <1>1, <1>2 DEF Correlation, Resolved, LeaveInv
<1>3. ASSUME NEW o \in Ops, UserStep(o)
      PROVE  IInv'
  <2>1. UserChange(o)
    BY <1>3, UserChanges
  <2>2. KeyInv' /\ future' = future
    BY <1>1, <2>1, UserKeys
  <2>3. LeaveInv'
    BY <1>1, <1>3, UserLeave DEF LeaveInv
  <2> QED
    BY <1>2, <2>2, <2>3
<1>4. CASE ReaderReply
  <2>1. KeyInv' /\ Correlation'
    BY <1>4, ReplyKeys
  <2>2. LeaveInv'
    BY <1>4, OtherLeave DEF ReaderStep, LeaveInv
  <2> QED
    BY <1>1, <2>1, <2>2 DEF LeaveInv
<1>5. CASE ReaderPush \/ ReaderGoodbye \/ ReaderError
  <2>1. KeyInv' /\ future' = future
    BY <1>5, ReaderKeys
  <2>2. LeaveInv'
    BY <1>5, OtherLeave DEF ReaderStep, LeaveInv
  <2> QED
    BY <1>2, <2>1, <2>2
<1>6. CASE CallbackFinish \/ WebSocketNotices \/ \E n \in Pushes : TaskFinish(n)
  <2>1. UNCHANGED <<idgen, kind, rid, pc, requests, future, toRouter, fromRouter>>
    BY <1>6 DEF CallbackFinish, WebSocketNotices, TaskFinish, dictVars, peerVars, netVars,
                requestVars
  <2>2. KeyInv'
    BY <2>1, KeyFrame
  <2>3. LeaveInv'
    BY <1>6, OtherLeave DEF LeaveInv
  <2> QED
    BY <1>2, <2>1, <2>2, <2>3
<1>7. CASE PeerNext /\ UNCHANGED localVars
  <2>1. KeyInv' /\ future' = future
    BY <1>7, PeerKeys
  <2>2. LeaveInv'
    BY <1>7, OtherLeave DEF LeaveInv
  <2> QED
    BY <1>2, <2>1, <2>2
<1>8. CASE UNCHANGED vars
  <2>1. /\ UNCHANGED <<idgen, kind, rid, pc, requests, future, toRouter, fromRouter>>
        /\ UNCHANGED <<target, goodbyeRequest, connected, reader>>
    BY <1>8 DEF vars, localVars, peerVars, requestVars, netVars, dictVars, leaveVars
  <2>2. KeyInv'
    BY <2>1, KeyFrame
  <2>3. LeaveInv'
    BY <2>1, LeaveFrame DEF LeaveInv
  <2> QED
    BY <1>2, <2>1, <2>2, <2>3
<1> QED
  BY <1>3, <1>4, <1>5, <1>6, <1>7, <1>8 DEF Next, ReaderStep

\* The asyncio session never takes a call, a message or a dictionary entry for
\* something of another kind.
THEOREM AsyncSessionTypeOK == Spec => []TypeOK
<1>1. IInv => TypeOK
  BY DEF IInv
<1> QED
  BY InitInv, NextInv, <1>1, PTL DEF Spec

\* The answer a call gets is the router's answer to that very call, also when other
\* calls have been cancelled and their entries are still in the dictionary
\* (async_session.py, _process_incoming_message).
THEOREM AsyncSessionCorrelation == Spec => []Correlation
<1>1. IInv => Correlation
  BY DEF IInv
<1> QED
  BY InitInv, NextInv, <1>1, PTL DEF Spec

\* When a leave() has returned, the connection is closed and the reader task is gone,
\* whichever of several leave() calls closed it and however it ended.
THEOREM AsyncSessionLeaveCloses == Spec => []LeaveCloses
<1>1. IInv => LeaveCloses
  BY DEF IInv
<1> QED
  BY InitInv, NextInv, <1>1, PTL DEF Spec

-----------------------------------------------------------------------------
(* The answers, the handlers and the pushed messages under way.            *)

\* A request is answered once: the one that waits for the router has its entry, and
\* an answer under way finds it.  A cancelled call leaves its entry where it is.
AnsweredOnce ==
    /\ \A o \in toRouter :
          pc[o] # "idle" /\ (kind[o] \in ReplyKinds => requests[<<kind[o], rid[o]>>] = o)
    /\ \A i \in 1..Len(fromRouter) : fromRouter[i].type = "reply" =>
          /\ pc[fromRouter[i].op] # "idle"
          /\ fromRouter[i].op \notin toRouter
          /\ requests[fromRouter[i].key] = fromRouter[i].op
    /\ \A i, j \in 1..Len(fromRouter) :
          fromRouter[i].type = "reply" /\ fromRouter[j].type = "reply"
              /\ fromRouter[i].op = fromRouter[j].op => i = j

\* A call that has its answer has lost its entry; it returns with a success only.
Resolution ==
    \A o \in Ops :
        /\ Resolved(o) =>
              /\ pc[o] # "idle" /\ kind[o] \in ReplyKinds /\ rid[o] # 0
              /\ requests[<<kind[o], rid[o]>>] # o
        /\ ~Resolved(o) => ~future[o].ok
        /\ pc[o] = "returned" /\ kind[o] \in ReplyKinds => Resolved(o) /\ future[o].ok
        /\ kind[o] \in OpenKinds /\ future[o].ok => future[o].handle # NoOp
        /\ pc[o] \in {"sending", "waiting", "cancelled"} /\ kind[o] \in ReplyKinds => rid[o] # 0

\* A cancelled future is that of a call the caller gave up before its answer came, or
\* the goodbye future of a leave().
GivenUp ==
    \A o \in cancelled :
        \/ IsLeave(o)
        \/ kind[o] \in ReplyKinds /\ pc[o] = "cancelled" /\ ~Resolved(o)

\* Whatever id or call is referred to, that call was made.
Made(o) == o = NoOp \/ pc[o] # "idle"
KnownCalls ==
    /\ \A h \in live : pc[h] # "idle"
    /\ \A o \in Ops : Made(future[o].handle) /\ Made(target[o])
    /\ \A o \in Ops : pc[o] = "idle" => target[o] = NoOp
    /\ \A n \in Pushes : Made(push[n].handle)
    /\ \A i \in 1..Len(fromRouter) : fromRouter[i].type = "reply" =>
          /\ Made(fromRouter[i].handle)
          /\ fromRouter[i].ok /\ fromRouter[i].key[1] \in OpenKinds =>
                fromRouter[i].handle # NoOp

\* The i-th message under way makes the session install a handler for the id h, or
\* remove it.
Opens(i, h) ==
    /\ fromRouter[i].type = "reply" /\ fromRouter[i].ok
    /\ fromRouter[i].key[1] \in OpenKinds /\ fromRouter[i].handle = h
Closes(i, h) ==
    /\ fromRouter[i].type = "reply" /\ fromRouter[i].ok
    /\ fromRouter[i].key[1] \in CloseKinds /\ target[fromRouter[i].op] = h

\* When the i-th message under way is processed, there will be a handler for h.
HandlerAt(h, i) ==
    \/ endpoints[h] # NoOp /\ \A k \in 1..Len(fromRouter) : k < i => ~Closes(k, h)
    \/ \E j \in 1..Len(fromRouter) :
          /\ j < i /\ Opens(j, h)
          /\ \A k \in 1..Len(fromRouter) : j < k /\ k < i => ~Closes(k, h)

\* The session's view of the open ids, once it has read what is under way, contains
\* the router's; and each message finds the handler it needs.
Handlers ==
    /\ \A i \in 1..(Len(fromRouter) + 1), h \in live :
          i = Len(fromRouter) + 1 => HandlerAt(h, i)
    /\ \A i \in 1..Len(fromRouter), h \in Ops : Closes(i, h) => HandlerAt(h, i)
    /\ \A i \in 1..Len(fromRouter), h \in Ops :
          fromRouter[i].type = "push" /\ ~push[fromRouter[i].n].late
              /\ push[fromRouter[i].n].handle = h => HandlerAt(h, i)
    /\ \A i \in 1..Len(fromRouter) :
          fromRouter[i].type = "reply" /\ fromRouter[i].ok
              /\ fromRouter[i].key[1] \in CloseKinds => target[fromRouter[i].op] # NoOp

\* A message is pushed once, and taken up once.
PushedOnce ==
    /\ \A n \in Pushes :
          push[n].handle = NoOp => push[n] = NoPush /\ task[n] = "none"
    /\ \A i \in 1..Len(fromRouter) : fromRouter[i].type = "push" =>
          /\ push[fromRouter[i].n].handle # NoOp
          /\ task[fromRouter[i].n] = "none"
    /\ \A i, j \in 1..Len(fromRouter) :
          fromRouter[i].type = "push" /\ fromRouter[j].type = "push"
              /\ fromRouter[i].n = fromRouter[j].n => i = j

\* GOODBYE is the router's last message.
GoodbyeLast ==
    /\ ~goodbyeSent => goodbyes = {}
    /\ \A i \in 1..Len(fromRouter) : fromRouter[i].type = "goodbye" =>
          goodbyeSent /\ i = Len(fromRouter) /\ goodbyes = {}

HInv ==
    /\ AnsweredOnce /\ Resolution /\ GivenUp /\ KnownCalls /\ Handlers /\ PushedOnce
    /\ GoodbyeLast /\ CrashExplained

\* What the i-th message under way is.
LEMMA UnderWay ==
    ASSUME IInv, NEW i \in 1..Len(fromRouter)
    PROVE  /\ fromRouter[i] \in Messages
           /\ fromRouter[i].type \in {"reply", "push", "goodbye"}
           /\ fromRouter[i].type = "push" => fromRouter[i].n \in Pushes
           /\ fromRouter[i].type = "reply" =>
                 /\ fromRouter[i].op \in Ops /\ fromRouter[i].ok \in BOOLEAN
                 /\ fromRouter[i].handle \in Ops \cup {NoOp} /\ fromRouter[i].key \in Keys
                 /\ fromRouter[i].key = <<kind[fromRouter[i].op], rid[fromRouter[i].op]>>
                 /\ fromRouter[i].key[1] = kind[fromRouter[i].op]
                 /\ kind[fromRouter[i].op] \in ReplyKinds
                 /\ rid[fromRouter[i].op] # 0
                 /\ pc[fromRouter[i].op] # "idle"
<1>1. fromRouter[i] \in Messages
  BY ElementOfSeq DEF IInv, TypeOK, PeerTypeOK
<1>2. /\ fromRouter[i].type \in {"reply", "push", "goodbye"}
      /\ fromRouter[i].type = "push" => fromRouter[i].n \in Pushes
      /\ fromRouter[i].type = "reply" =>
            /\ fromRouter[i].op \in Ops /\ fromRouter[i].ok \in BOOLEAN
            /\ fromRouter[i].handle \in Ops \cup {NoOp} /\ fromRouter[i].key \in Keys
  BY <1>1 DEF Messages, Goodbye
<1>3. fromRouter[i].type = "reply" =>
         /\ pc[fromRouter[i].op] # "idle"
         /\ fromRouter[i].key = <<kind[fromRouter[i].op], rid[fromRouter[i].op]>>
  BY DEF IInv, KeyInv, AnswerKeys
<1>4. ASSUME fromRouter[i].type = "reply"
      PROVE  /\ fromRouter[i].key[1] = kind[fromRouter[i].op]
             /\ kind[fromRouter[i].op] \in ReplyKinds
             /\ rid[fromRouter[i].op] # 0
  <2> DEFINE k == kind[fromRouter[i].op]
             r == rid[fromRouter[i].op]
  <2>1. fromRouter[i].key = <<k, r>> /\ fromRouter[i].key \in Keys
    BY <1>2, <1>3, <1>4
  <2> HIDE DEF k, r
  <2>2. PICK k2 \in ReplyKinds, r2 \in 1..IdMax : fromRouter[i].key = <<k2, r2>>
    BY <2>1 DEF Keys
  <2>3. k = k2 /\ r = r2
    BY <2>1, <2>2
  <2>4. fromRouter[i].key[1] = k
    BY <2>1
  <2>5. r2 # 0
    BY PeerAssumption
  <2>6. k \in ReplyKinds /\ r # 0 /\ fromRouter[i].key[1] = k
    BY <2>3, <2>4, <2>5
  <2> QED
    BY <2>6 DEF k, r
<1> QED
  BY <1>1, <1>2, <1>3, <1>4

\* Whether a message finds its handler depends on the messages under way, on the
\* handlers, and on what the calls that close an id refer to.
LEMMA HandlerStays ==
    ASSUME IInv, UNCHANGED <<fromRouter, endpoints>>,
           \A p \in Ops : kind[p] \in CloseKinds /\ pc[p] # "idle" => target'[p] = target[p]
    PROVE  /\ \A i \in 1..Len(fromRouter), h \in Ops : Closes(i, h)' <=> Closes(i, h)
           /\ \A i, h : HandlerAt(h, i) => HandlerAt(h, i)'
<1>1. ASSUME NEW i \in 1..Len(fromRouter), NEW h
      PROVE  Closes(i, h)' <=> Closes(i, h)
  BY UnderWay DEF Closes
<1>2. ASSUME NEW i, NEW h
      PROVE  Opens(i, h)' <=> Opens(i, h)
  BY DEF Opens
<1>3. ASSUME NEW i, NEW h, HandlerAt(h, i)
      PROVE  HandlerAt(h, i)'
  <2>1. CASE endpoints[h] # NoOp /\ \A k \in 1..Len(fromRouter) : k < i => ~Closes(k, h)
    BY <1>1, <2>1 DEF HandlerAt
  <2>2. ASSUME NEW j \in 1..Len(fromRouter), j < i, Opens(j, h),
               \A k \in 1..Len(fromRouter) : j < k /\ k < i => ~Closes(k, h)
        PROVE  HandlerAt(h, i)'
    <3>1. Opens(j, h)' /\ \A k \in 1..Len(fromRouter) : j < k /\ k < i => ~(Closes(k, h)')
      BY <1>1, <1>2, <2>2
    <3> QED
      BY <2>2, <3>1 DEF HandlerAt
  <2> QED
    BY <1>3, <2>1, <2>2 DEF HandlerAt
<1> QED
  BY <1>1, <1>3

\* A step that leaves the messages, the handlers and the router's ids alone keeps
\* all handlers in place.
LEMMA HandlersStay ==
    ASSUME IInv, KnownCalls, Handlers, UNCHANGED <<fromRouter, endpoints, live, push>>,
           \A p \in Ops : kind[p] \in CloseKinds /\ pc[p] # "idle" => target'[p] = target[p]
    PROVE  Handlers'
<1>1. \A i \in 1..(Len(fromRouter) + 1), h \in live :
         i = Len(fromRouter) + 1 => HandlerAt(h, i)'
  BY HandlerStays DEF Handlers
<1>2. \A i \in 1..Len(fromRouter), h \in Ops : Closes(i, h)' => HandlerAt(h, i)'
  BY HandlerStays DEF Handlers
<1>3. \A i \in 1..Len(fromRouter), h \in Ops :
         fromRouter[i].type = "push" /\ ~push[fromRouter[i].n].late
             /\ push[fromRouter[i].n].handle = h => HandlerAt(h, i)'
  BY HandlerStays DEF Handlers
<1>4. \A i \in 1..Len(fromRouter) :
         fromRouter[i].type = "reply" /\ fromRouter[i].ok
             /\ fromRouter[i].key[1] \in CloseKinds => target'[fromRouter[i].op] # NoOp
  BY UnderWay DEF Handlers
<1> QED
  BY <1>1, <1>2, <1>3, <1>4 DEF Handlers

\* What a call that goes on comes to.
LEMMA GoesOnTo ==
    ASSUME IInv, Resolution, NEW o \in Ops, UserStep(o), GoesOn(o)
    PROVE  /\ pc'[o] = "returned" /\ kind[o] \in ReplyKinds => Resolved(o) /\ future[o].ok
           /\ pc'[o] \in {"sending", "waiting", "cancelled"} =>
                 pc[o] \in {"sending", "waiting"} \/ kind[o] = "leave"
<1> USE DEF IInv, TypeOK, PeerTypeOK
<1>1. CASE Sent(o) \/ Return(o)
  BY <1>1 DEF Sent, DrainFails, Return, ReplyKinds
<1>4. CASE Cancel(o)
  <2>1. pc'[o] = "cancelled" /\ (pc[o] \in {"sending", "waiting"} \/ kind[o] = "leave")
    BY <1>4 DEF Cancel, GoodbyeCalls
  <2> QED
    BY <2>1
<1>2. CASE LeaveWait(o) \/ LeaveTimeout(o) \/ LeaveCancelled(o) \/ LeaveStopReader(o)
           \/ LeaveClose(o)
  <2>1. kind[o] = "leave"
    BY <1>2 DEF LeaveWait, LeaveTimeout, LeaveCancelled, LeaveStopReader, LeaveClose, GoodbyeCalls
  <2> QED
    BY <2>1 DEF ReplyKinds
<1>3. pc[o] # "idle"
  BY DEF GoesOn
<1> QED
  BY <1>1, <1>2, <1>3, <1>4
  DEF UserStep, CallProceeds, Issue, IssueClose, RefuseClose, LeaveBegin

\* What the API coroutines do keeps the handlers in place.
LEMMA UserHandlers ==
    ASSUME IInv, IInv', HInv, NEW o \in Ops, UserStep(o)
    PROVE  HInv'
<1> USE PeerAssumption
<1>0. UserChange(o)
  BY UserChanges DEF IInv
<1>1. ASSUME NEW p \in Ops, pc[p] # "idle"
      PROVE  /\ pc'[p] # "idle" /\ kind'[p] = kind[p] /\ rid'[p] = rid[p]
             /\ kind[p] # "leave" => target'[p] = target[p]
             /\ pc[p] = "cancelled" => pc'[p] = "cancelled"
  <2>1. CASE p = o
    <3>1. GoesOn(o)
      BY <1>0, <1>1, <2>1 DEF UserChange, Asks, Refused, Leaves
    <3>2. pc[o] = "leaving" => kind[o] = "leave"
      BY DEF IInv, GoodbyeCalls
    <3> QED
      BY <1>0, <2>1, <3>1, <3>2 DEF GoesOn, UserChange
  <2>2. CASE p # o
    BY <1>0, <1>1, <2>2 DEF UserChange
  <2> QED
    BY <2>1, <2>2
<1>2. UNCHANGED <<future, endpoints, task, fromRouter, live, push, goodbyeSent, goodbyes>>
  BY <1>0 DEF UserChange
<1>3. \A p \in Ops : p # o =>
         pc'[p] = pc[p] /\ kind'[p] = kind[p] /\ rid'[p] = rid[p] /\ target'[p] = target[p]
  BY <1>0 DEF UserChange
<1>4. ASSUME NEW p \in Ops, pc[p] # "idle", rid[p] # 0, kind[p] \in ReplyKinds
      PROVE  requests'[<<kind[p], rid[p]>>] = requests[<<kind[p], rid[p]>>]
  <2>1. CASE requests' = requests
    BY <2>1
  <2>2. CASE requests' # requests
    <3>1. Asks(o) /\ requests' = [requests EXCEPT ![<<kind'[o], idgen + 1>>] = o]
      BY <1>0, <2>2 DEF UserChange, Asks, Refused, Leaves, GoesOn
    <3>2. rid[p] # idgen + 1
      BY DEF IInv, TypeOK, PeerTypeOK, KeyInv, IdsDistinct
    <3>3. <<kind[p], rid[p]>> \in Keys /\ <<kind[p], rid[p]>> # <<kind'[o], idgen + 1>>
      BY <1>4, <3>2 DEF IInv, TypeOK, PeerTypeOK, Keys
    <3> QED
      BY <3>1, <3>3 DEF IInv, TypeOK
  <2> QED
    BY <2>1, <2>2
<1>5. AnsweredOnce'
  <2>1. ASSUME NEW p \in toRouter'
        PROVE  /\ pc'[p] # "idle"
               /\ kind'[p] \in ReplyKinds => requests'[<<kind'[p], rid'[p]>>] = p
    <3>1. CASE p \in toRouter
      <4>1. /\ p \in Ops /\ pc[p] # "idle"
            /\ kind[p] \in ReplyKinds => requests[<<kind[p], rid[p]>>] = p /\ rid[p] # 0
        BY <3>1 DEF HInv, AnsweredOnce, IInv, TypeOK, PeerTypeOK, KeyInv, SentByCalls, ReplyKinds
      <4> QED
        BY <1>1, <1>4, <4>1
    <3>2. CASE p \notin toRouter
      <4>1. p = o /\ (Asks(o) \/ Leaves(o))
        BY <1>0, <3>2 DEF UserChange, Asks, Refused, Leaves, GoesOn
      <4>2. CASE Asks(o)
        <5>1. kind'[o] \in ReplyKinds =>
                 /\ requests' = [requests EXCEPT ![<<kind'[o], rid'[o]>>] = o]
                 /\ <<kind'[o], rid'[o]>> \in Keys
          BY <4>2 DEF Asks, Keys
        <5> QED
          BY <1>0, <4>1, <5>1 DEF UserChange, IInv, TypeOK
      <4>3. CASE Leaves(o)
        BY <1>0, <4>1, <4>3 DEF UserChange, Leaves, ReplyKinds
      <4> QED
        BY <4>1, <4>2, <4>3
    <3> QED
      BY <3>1, <3>2
  <2>2. ASSUME NEW i \in 1..Len(fromRouter), fromRouter[i].type = "reply"
        PROVE  /\ pc'[fromRouter[i].op] # "idle"
               /\ fromRouter[i].op \notin toRouter'
               /\ requests'[fromRouter[i].key] = fromRouter[i].op
    <3> DEFINE p == fromRouter[i].op
    <3>1. /\ p \in Ops /\ fromRouter[i].key = <<kind[p], rid[p]>> /\ kind[p] \in ReplyKinds
          /\ rid[p] # 0 /\ pc[p] # "idle"
      BY <2>2, UnderWay
    <3>2. p \notin toRouter /\ requests[fromRouter[i].key] = p
      BY <2>2 DEF HInv, AnsweredOnce
    <3> HIDE DEF p
    <3>3. requests'[<<kind[p], rid[p]>>] = requests[<<kind[p], rid[p]>>]
      BY <1>4, <3>1
    <3>4. p \notin toRouter'
      BY <1>0, <3>1, <3>2 DEF UserChange, Asks, Refused, Leaves, GoesOn
    <3> QED
      BY <1>1, <3>1, <3>2, <3>3, <3>4 DEF p
  <2> QED
    BY <1>2, <2>1, <2>2 DEF HInv, AnsweredOnce
<1>6. Resolution'
  <2> SUFFICES ASSUME NEW p \in Ops
               PROVE  /\ Resolved(p)' =>
                            /\ pc'[p] # "idle" /\ kind'[p] \in ReplyKinds /\ rid'[p] # 0
                            /\ requests'[<<kind'[p], rid'[p]>>] # p
                      /\ ~Resolved(p)' => ~future'[p].ok
                      /\ pc'[p] = "returned" /\ kind'[p] \in ReplyKinds =>
                            Resolved(p)' /\ future'[p].ok
                      /\ kind'[p] \in OpenKinds /\ future'[p].ok => future'[p].handle # NoOp
                      /\ pc'[p] \in {"sending", "waiting", "cancelled"}
                             /\ kind'[p] \in ReplyKinds => rid'[p] # 0
    BY DEF Resolution
  <2>1. (Resolved(p)' <=> Resolved(p)) /\ future'[p] = future[p]
    BY <1>2 DEF Resolved
  <2>2. ASSUME Resolved(p)
        PROVE  /\ pc'[p] # "idle" /\ kind'[p] \in ReplyKinds /\ rid'[p] # 0
               /\ requests'[<<kind'[p], rid'[p]>>] # p
    <3>1. /\ pc[p] # "idle" /\ kind[p] \in ReplyKinds /\ rid[p] # 0
          /\ requests[<<kind[p], rid[p]>>] # p
      BY <2>2 DEF HInv, Resolution
    <3>2. requests'[<<kind[p], rid[p]>>] = requests[<<kind[p], rid[p]>>]
      BY <1>4, <3>1
    <3> QED
      BY <1>1, <3>1, <3>2
  <2>3. ~Resolved(p) => ~future[p].ok
    BY DEF HInv, Resolution
  <2>4. ASSUME pc'[p] \in {"returned", "sending", "waiting", "cancelled"},
               kind'[p] \in ReplyKinds
        PROVE  /\ pc'[p] = "returned" => Resolved(p) /\ future[p].ok
               /\ pc'[p] # "returned" => rid'[p] # 0
    <3>1. CASE p # o
      <4>1. pc'[p] = pc[p] /\ kind'[p] = kind[p] /\ rid'[p] = rid[p]
        BY <1>3, <3>1
      <4>2. /\ pc[p] = "returned" /\ kind[p] \in ReplyKinds => Resolved(p) /\ future[p].ok
            /\ pc[p] \in {"sending", "waiting", "cancelled"} /\ kind[p] \in ReplyKinds =>
                  rid[p] # 0
        BY DEF HInv, Resolution
      <4> QED
        BY <2>4, <4>1, <4>2
    <3>2. CASE p = o /\ Asks(o)
      BY <2>4, <3>2 DEF Asks
    <3>3. CASE p = o /\ GoesOn(o)
      <4>1. pc[o] # "idle" /\ kind'[o] = kind[o] /\ rid'[o] = rid[o] /\ kind[o] # "leave"
        BY <2>4, <3>3 DEF GoesOn, ReplyKinds
      <4>2. /\ pc'[o] = "returned" /\ kind[o] \in ReplyKinds => Resolved(o) /\ future[o].ok
            /\ pc'[o] \in {"sending", "waiting", "cancelled"} =>
                  pc[o] \in {"sending", "waiting"}
        BY <3>3, <4>1, GoesOnTo DEF HInv
      <4>3. pc[o] \in {"sending", "waiting"} /\ kind[o] \in ReplyKinds => rid[o] # 0
        BY DEF HInv, Resolution
      <4> QED
        BY <2>4, <3>3, <4>1, <4>2, <4>3
    <3>4. CASE p = o /\ (Refused(o) \/ Leaves(o))
      BY <2>4, <3>4 DEF Refused, Leaves
    <3> QED
      BY <1>0, <3>1, <3>2, <3>3, <3>4 DEF UserChange
  <2>5. kind'[p] \in OpenKinds /\ future[p].ok => future[p].handle # NoOp
    <3>1. future[p].ok => kind'[p] = kind[p]
      BY <1>1, <2>3 DEF HInv, Resolution
    <3> QED
      BY <3>1 DEF HInv, Resolution
  <2> QED
    BY <2>1, <2>2, <2>3, <2>4, <2>5
<1>7. GivenUp'
  <2> SUFFICES ASSUME NEW p \in cancelled'
               PROVE  \/ IsLeave(p)'
                      \/ kind'[p] \in ReplyKinds /\ pc'[p] = "cancelled" /\ ~Resolved(p)'
    BY DEF GivenUp
  <2>0. p \in Ops /\ (Resolved(p)' <=> Resolved(p))
    BY <1>2 DEF IInv, TypeOK, Resolved
  <2>1. ASSUME NEW q \in Ops, IsLeave(q)
        PROVE  IsLeave(q)'
    BY <1>1, <2>1 DEF IsLeave
  <2>2. CASE p \in cancelled
    <3>1. CASE IsLeave(p)
      BY <2>0, <2>1, <3>1
    <3>2. CASE kind[p] \in ReplyKinds /\ pc[p] = "cancelled" /\ ~Resolved(p)
      BY <1>1, <2>0, <3>2
    <3> QED
      BY <2>2, <3>1, <3>2 DEF HInv, GivenUp
  <2>3. CASE p \notin cancelled
    <3>1. /\ GoesOn(o)
          /\ \/ p = o /\ kind[o] \in ReplyKinds /\ ~Resolved(o) /\ pc'[o] = "cancelled"
             \/ p = target[o] /\ pc[o] = "waiting" /\ kind[o] = "leave"
      BY <1>0, <2>3 DEF UserChange, Asks, Refused, Leaves, GoesOn
    <3>2. CASE p = target[o] /\ pc[o] = "waiting" /\ kind[o] = "leave"
      <4>1. IsLeave(p)
        BY <3>2 DEF IInv, GoodbyeCalls
      <4> QED
        BY <2>0, <2>1, <4>1
    <3> QED
      BY <2>0, <3>1, <3>2 DEF GoesOn
  <2> QED
    BY <2>2, <2>3
<1>8. KnownCalls'
  <2>1. ASSUME NEW p \in Ops \cup {NoOp}, Made(p)
        PROVE  Made(p)'
    BY <1>1, <2>1 DEF Made
  <2>2. \A p \in Ops : Made(target[p]) /\ Made(future[p].handle)
    BY DEF HInv, KnownCalls
  <2>3. Made(goodbyeRequest)
    BY DEF IInv, GoodbyeCalls, IsLeave, Made
  <2>4. \A p \in Ops : target'[p] \in {target[p], goodbyeRequest} \cup {future[q].handle : q \in Ops}
    BY <1>0 DEF UserChange, Asks, Refused, Leaves, GoesOn
  <2>5. \A p \in Ops : Made(target[p])'
    <3> TAKE p \in Ops
    <3>1. target'[p] \in Ops \cup {NoOp}
      BY DEF IInv, TypeOK, PeerTypeOK
    <3>2. Made(target'[p])
      BY <2>2, <2>3, <2>4
    <3> QED
      BY <2>1, <3>1, <3>2 DEF Made
  <2>6. \A p \in Ops : Made(future[p].handle)'
    <3> TAKE p \in Ops
    <3>1. future[p].handle \in Ops \cup {NoOp}
      BY DEF IInv, TypeOK
    <3> QED
      BY <1>2, <2>1, <2>2, <3>1 DEF Made
  <2>7. \A p \in Ops : pc'[p] = "idle" => target'[p] = NoOp
    <3> TAKE p \in Ops
    <3>1. pc'[o] # "idle"
      BY <1>0 DEF UserChange
    <3> QED
      BY <1>3, <3>1 DEF HInv, KnownCalls
  <2>8. \A n \in Pushes : Made(push[n].handle)'
    <3> TAKE n \in Pushes
    <3>1. push[n].handle \in Ops \cup {NoOp} /\ Made(push[n].handle)
      BY DEF IInv, TypeOK, PeerTypeOK, HInv, KnownCalls
    <3> QED
      BY <1>2, <2>1, <3>1 DEF Made
  <2>9. \A h \in live' : pc'[h] # "idle"
    BY <1>1, <1>2 DEF HInv, KnownCalls, IInv, TypeOK, PeerTypeOK
  <2>10. \A i \in 1..Len(fromRouter) : fromRouter[i].type = "reply" =>
            /\ Made(fromRouter[i].handle)'
            /\ fromRouter[i].ok /\ fromRouter[i].key[1] \in OpenKinds =>
                  fromRouter[i].handle # NoOp
    <3> SUFFICES ASSUME NEW i \in 1..Len(fromRouter), fromRouter[i].type = "reply"
                 PROVE  /\ Made(fromRouter[i].handle)'
                        /\ fromRouter[i].ok /\ fromRouter[i].key[1] \in OpenKinds =>
                              fromRouter[i].handle # NoOp
      OBVIOUS
    <3>1. fromRouter[i].handle \in Ops \cup {NoOp}
      BY UnderWay
    <3>2. /\ Made(fromRouter[i].handle)
          /\ fromRouter[i].ok /\ fromRouter[i].key[1] \in OpenKinds =>
                fromRouter[i].handle # NoOp
      BY DEF HInv, KnownCalls
    <3> QED
      BY <1>2, <2>1, <3>1, <3>2 DEF Made
  <2> QED
    BY <1>2, <2>5, <2>6, <2>7, <2>8, <2>9, <2>10 DEF KnownCalls
<1>9. Handlers'
  <2>1. \A p \in Ops : kind[p] \in CloseKinds /\ pc[p] # "idle" => target'[p] = target[p]
    BY <1>1 DEF CloseKinds
  <2> QED
    BY <1>2, <2>1, HandlersStay DEF HInv
<1>10. PushedOnce' /\ GoodbyeLast'
  BY <1>2 DEF HInv, PushedOnce, GoodbyeLast
<1>11. CrashExplained'
  <2> SUFFICES ASSUME reader' = "crashed"
               PROVE  \/ \E n \in Pushes : task[n] = "orphan" /\ push[n].late
                      \/ \E p \in cancelled' :
                            \/ kind'[p] = "leave" /\ goodbyeSent
                            \/ /\ kind'[p] # "leave" /\ pc'[p] = "cancelled" /\ ~Resolved(p)'
                               /\ requests'[<<kind'[p], rid'[p]>>] = NoOp
    BY <1>2 DEF CrashExplained
  <2>1. reader = "crashed" /\ cancelled \subseteq cancelled'
    BY <1>0 DEF UserChange, Asks, Refused, Leaves, GoesOn
  <2>2. ASSUME NEW p \in cancelled,
               \/ kind[p] = "leave" /\ goodbyeSent
               \/ /\ kind[p] # "leave" /\ pc[p] = "cancelled" /\ ~Resolved(p)
                  /\ requests[<<kind[p], rid[p]>>] = NoOp
        PROVE  \/ kind'[p] = "leave" /\ goodbyeSent
               \/ /\ kind'[p] # "leave" /\ pc'[p] = "cancelled" /\ ~Resolved(p)'
                  /\ requests'[<<kind'[p], rid'[p]>>] = NoOp
    <3>1. p \in Ops /\ pc[p] # "idle" /\ (kind[p] # "leave" => kind[p] \in ReplyKinds)
      BY DEF IInv, TypeOK, HInv, GivenUp, IsLeave
    <3>2. kind'[p] = kind[p] /\ rid'[p] = rid[p]
      BY <1>1, <3>1
    <3>3. CASE kind[p] = "leave"
      <4>1. goodbyeSent
        BY <2>2, <3>1, <3>3 DEF IInv, GoodbyeCalls
      <4> QED
        BY <3>2, <3>3, <4>1
    <3>4. CASE kind[p] # "leave"
      <4>1. pc[p] = "cancelled" /\ ~Resolved(p) /\ requests[<<kind[p], rid[p]>>] = NoOp
        BY <2>2, <3>4
      <4>2. rid[p] # 0
        BY <3>1, <3>4, <4>1 DEF HInv, Resolution
      <4>3. requests'[<<kind[p], rid[p]>>] = NoOp
        BY <1>4, <3>1, <3>4, <4>1, <4>2
      <4>4. pc'[p] = "cancelled" /\ ~Resolved(p)'
        BY <1>1, <1>2, <3>1, <4>1 DEF Resolved
      <4> QED
        BY <3>2, <3>4, <4>3, <4>4
    <3> QED
      BY <3>3, <3>4
  <2> QED
    BY <2>1, <2>2 DEF HInv, CrashExplained
<1> QED
  BY <1>5, <1>6, <1>7, <1>8, <1>9, <1>10, <1>11 DEF HInv

\* A step that leaves the calls and the messages alone keeps everything in order.
LEMMA QuietHandlers ==
    ASSUME IInv, HInv,
           UNCHANGED <<kind, rid, target, pc, requests, toRouter, fromRouter, future, endpoints,
                       cancelled, live, push, goodbyeSent, goodbyes>>,
           \A n \in Pushes : task'[n] = task[n] \/
               (task[n] \notin {"none", "orphan"} /\ task'[n] \notin {"none", "orphan"}),
           reader' = "crashed" => reader = "crashed"
    PROVE  HInv'
<1>1. AnsweredOnce' /\ Resolution' /\ GivenUp'
  BY DEF HInv, AnsweredOnce, Resolution, GivenUp, IsLeave, Resolved
<1>2. KnownCalls'
  BY DEF HInv, KnownCalls, Made
<1>3. Handlers'
  BY HandlersStay DEF HInv
<1>4. PushedOnce' /\ GoodbyeLast'
  <2>1. ASSUME NEW i \in 1..Len(fromRouter), fromRouter[i].type = "push"
        PROVE  task'[fromRouter[i].n] = "none"
    BY <2>1, UnderWay DEF HInv, PushedOnce
  <2> QED
    BY <2>1 DEF HInv, PushedOnce, GoodbyeLast
<1>5. CrashExplained'
  BY DEF HInv, CrashExplained, Resolved
<1> QED
  BY <1>1, <1>2, <1>3, <1>4, <1>5 DEF HInv

-----------------------------------------------------------------------------
(* The reader takes the first message under way.                           *)

LEMMA TakenFirst ==
    ASSUME IInv, fromRouter # <<>>, fromRouter' = Tail(fromRouter)
    PROVE  /\ Len(fromRouter) \in Nat /\ Len(fromRouter') = Len(fromRouter) - 1
           /\ 1 \in 1..Len(fromRouter) /\ Head(fromRouter) = fromRouter[1]
           /\ \A i \in 1..Len(fromRouter') :
                 /\ i + 1 \in 1..Len(fromRouter) /\ i + 1 # 1
                 /\ fromRouter'[i] = fromRouter[i + 1]
<1>1. fromRouter \in Seq(Messages)
  BY DEF IInv, TypeOK, PeerTypeOK
<1>2. Len(fromRouter') = Len(fromRouter) - 1 /\ \A i \in 1..Len(fromRouter') : fromRouter'[i] = fromRouter[i + 1]
  BY <1>1, HeadTailProperties
<1>3. Len(fromRouter) \in Nat /\ Len(fromRouter) # 0
  BY <1>1, EmptySeq
<1>4. Head(fromRouter) = fromRouter[1]
  BY <1>1
<1> QED
  BY <1>2, <1>3, <1>4

\* Whoever would have found a handler finds it one place earlier.
LEMMA HandlerShifts ==
    ASSUME IInv, fromRouter # <<>>, fromRouter' = Tail(fromRouter), target' = target,
           \A h \in Ops : Opens(1, h) => endpoints'[h] # NoOp,
           \A h \in Ops : ~Opens(1, h) /\ ~Closes(1, h) => endpoints'[h] = endpoints[h]
    PROVE  /\ \A i \in 1..Len(fromRouter), h \in Ops : HandlerAt(h, i + 1) => HandlerAt(h, i)'
           /\ \A i \in 1..Len(fromRouter'), h \in Ops : Closes(i, h)' <=> Closes(i + 1, h)
<1> DEFINE L == Len(fromRouter)
           M == Len(fromRouter')
<1>1. /\ L \in Nat /\ M = L - 1 /\ 1 \in 1..L
      /\ \A i \in 1..M : i + 1 \in 1..L /\ fromRouter'[i] = fromRouter[i + 1]
  BY TakenFirst
<1>2. ASSUME NEW i \in 1..M, NEW h \in Ops
      PROVE  (Closes(i, h)' <=> Closes(i + 1, h)) /\ (Opens(i, h)' <=> Opens(i + 1, h))
  BY <1>1 DEF Closes, Opens
<1> HIDE DEF L, M
<1>3. ASSUME NEW i \in 1..L, NEW h \in Ops, HandlerAt(h, i + 1)
      PROVE  HandlerAt(h, i)'
  <2>1. ASSUME NEW j \in 1..L, \A k \in 1..L : j < k /\ k < i + 1 => ~Closes(k, h)
        PROVE  \A k \in 1..M : j - 1 < k /\ k < i => ~(Closes(k, h)')
    <3> SUFFICES ASSUME NEW k \in 1..M, j - 1 < k, k < i
                 PROVE  ~(Closes(k, h)')
      OBVIOUS
    <3>1. k + 1 \in 1..L /\ j < k + 1 /\ k + 1 < i + 1
      BY <1>1, <2>1
    <3> QED
      BY <1>2, <2>1, <3>1
  <2>2. ASSUME endpoints'[h] # NoOp, \A k \in 1..M : k < i => ~(Closes(k, h)')
        PROVE  HandlerAt(h, i)'
    BY <2>2 DEF HandlerAt, M
  <2>3. CASE endpoints[h] # NoOp /\ \A k \in 1..L : k < i + 1 => ~Closes(k, h)
    <3>1. ~Closes(1, h)
      BY <1>1, <2>3
    <3>2. endpoints'[h] # NoOp
      BY <2>3, <3>1
    <3>3. ASSUME NEW k \in 1..M, k < i
          PROVE  ~(Closes(k, h)')
      <4>1. k + 1 \in 1..L /\ k + 1 < i + 1
        BY <1>1, <3>3
      <4> QED
        BY <1>2, <2>3, <4>1
    <3> QED
      BY <2>2, <3>2, <3>3
  <2>4. ASSUME NEW j \in 1..L, j < i + 1, Opens(j, h),
               \A k \in 1..L : j < k /\ k < i + 1 => ~Closes(k, h)
        PROVE  HandlerAt(h, i)'
    <3>1. \A k \in 1..M : j - 1 < k /\ k < i => ~(Closes(k, h)')
      BY <1>1, <2>1, <2>4
    <3>2. CASE j = 1
      <4>1. endpoints'[h] # NoOp
        BY <2>4, <3>2
      <4>2. \A k \in 1..M : k < i => ~(Closes(k, h)')
        BY <1>1, <3>1, <3>2
      <4> QED
        BY <2>2, <4>1, <4>2
    <3>3. CASE j # 1
      <4>1. j - 1 \in 1..M /\ j - 1 < i /\ (j - 1) + 1 = j
        BY <1>1, <2>4, <3>3
      <4>2. Opens(j - 1, h)'
        BY <1>2, <2>4, <4>1
      <4> QED
        BY <3>1, <4>1, <4>2 DEF HandlerAt, M
    <3> QED
      BY <3>2, <3>3
  <2> QED
    BY <1>3, <2>3, <2>4 DEF HandlerAt, L
<1> QED
  BY <1>2, <1>3 DEF L, M

\* All messages but the first find their handlers, and the router's ids as well.
LEMMA HandlersShift ==
    ASSUME IInv, Handlers, fromRouter # <<>>, fromRouter' = Tail(fromRouter),
           UNCHANGED <<target, live, push>>,
           \A h \in Ops : Opens(1, h) => endpoints'[h] # NoOp,
           \A h \in Ops : ~Opens(1, h) /\ ~Closes(1, h) => endpoints'[h] = endpoints[h]
    PROVE  Handlers'
<1>1. /\ Len(fromRouter) \in Nat /\ Len(fromRouter') = Len(fromRouter) - 1
      /\ 1 \in 1..Len(fromRouter)
      /\ \A i \in 1..Len(fromRouter') :
            i + 1 \in 1..Len(fromRouter) /\ fromRouter'[i] = fromRouter[i + 1]
  BY TakenFirst
<1>2. /\ \A i \in 1..Len(fromRouter), h \in Ops : HandlerAt(h, i + 1) => HandlerAt(h, i)'
      /\ \A i \in 1..Len(fromRouter'), h \in Ops : Closes(i, h)' <=> Closes(i + 1, h)
  BY HandlerShifts
<1>3. \A i \in 1..(Len(fromRouter') + 1), h \in live :
         i = Len(fromRouter') + 1 => HandlerAt(h, i)'
  <2>0. Len(fromRouter') + 1 = Len(fromRouter)
    BY <1>1
  <2> SUFFICES ASSUME NEW i \in 1..Len(fromRouter), NEW h \in live, i = Len(fromRouter)
               PROVE  HandlerAt(h, i)'
    BY <2>0
  <2>1. h \in Ops /\ i + 1 \in 1..(Len(fromRouter) + 1) /\ i + 1 = Len(fromRouter) + 1
    BY <1>1 DEF IInv, TypeOK, PeerTypeOK
  <2>2. HandlerAt(h, i + 1)
    BY <2>1 DEF Handlers
  <2> QED
    BY <1>2, <2>1, <2>2
<1>4. \A i \in 1..Len(fromRouter'), h \in Ops : Closes(i, h)' => HandlerAt(h, i)'
  <2> SUFFICES ASSUME NEW i \in 1..Len(fromRouter'), NEW h \in Ops, Closes(i, h)'
               PROVE  HandlerAt(h, i)'
    OBVIOUS
  <2>1. i + 1 \in 1..Len(fromRouter) /\ i \in 1..Len(fromRouter)
    BY <1>1
  <2>2. HandlerAt(h, i + 1)
    BY <1>2, <2>1 DEF Handlers
  <2> QED
    BY <1>2, <2>1, <2>2
<1>5. \A i \in 1..Len(fromRouter'), h \in Ops :
         fromRouter'[i].type = "push" /\ ~push[fromRouter'[i].n].late
             /\ push[fromRouter'[i].n].handle = h => HandlerAt(h, i)'
  <2> SUFFICES ASSUME NEW i \in 1..Len(fromRouter'), NEW h \in Ops,
                      fromRouter[i + 1].type = "push", ~push[fromRouter[i + 1].n].late,
                      push[fromRouter[i + 1].n].handle = h
               PROVE  HandlerAt(h, i)'
    BY <1>1
  <2>1. i + 1 \in 1..Len(fromRouter) /\ i \in 1..Len(fromRouter)
    BY <1>1
  <2>2. HandlerAt(h, i + 1)
    BY <2>1 DEF Handlers
  <2> QED
    BY <1>2, <2>1, <2>2
<1>6. \A i \in 1..Len(fromRouter') :
         fromRouter'[i].type = "reply" /\ fromRouter'[i].ok
             /\ fromRouter'[i].key[1] \in CloseKinds => target'[fromRouter'[i].op] # NoOp
  BY <1>1 DEF Handlers
<1> QED
  BY <1>3, <1>4, <1>5, <1>6 DEF Handlers

\* The first message taken, the rest of what is under way keeps its order.
LEMMA RestInOrder ==
    ASSUME IInv, HInv, fromRouter # <<>>, fromRouter' = Tail(fromRouter),
           UNCHANGED <<push, goodbyeSent>>,
           \A n \in Pushes : task'[n] = task[n] \/
               (fromRouter[1].type = "push" /\ fromRouter[1].n = n /\ task'[n] # "none"),
           goodbyes' = goodbyes \/ (fromRouter[1].type = "goodbye" /\ goodbyeSent)
    PROVE  PushedOnce' /\ GoodbyeLast'
<1>1. /\ Len(fromRouter) \in Nat /\ Len(fromRouter') = Len(fromRouter) - 1
      /\ 1 \in 1..Len(fromRouter)
      /\ \A i \in 1..Len(fromRouter') :
            /\ i + 1 \in 1..Len(fromRouter) /\ i + 1 # 1
            /\ fromRouter'[i] = fromRouter[i + 1]
  BY TakenFirst
<1>2. PushedOnce'
  <2>1. \A n \in Pushes : push'[n].handle = NoOp => push'[n] = NoPush /\ task'[n] = "none"
    BY <1>1 DEF HInv, PushedOnce
  <2>2. ASSUME NEW i \in 1..Len(fromRouter'), fromRouter'[i].type = "push"
        PROVE  push[fromRouter'[i].n].handle # NoOp /\ task'[fromRouter'[i].n] = "none"
    <3> DEFINE n == fromRouter[i + 1].n
    <3>1. i + 1 \in 1..Len(fromRouter) /\ i + 1 # 1 /\ fromRouter[i + 1].type = "push"
          /\ fromRouter'[i] = fromRouter[i + 1]
      BY <1>1, <2>2
    <3>2. n \in Pushes /\ push[n].handle # NoOp /\ task[n] = "none"
      BY <3>1, UnderWay DEF HInv, PushedOnce
    <3>3. ~(fromRouter[1].type = "push" /\ fromRouter[1].n = n)
      BY <1>1, <3>1 DEF HInv, PushedOnce
    <3> QED
      BY <3>1, <3>2, <3>3
  <2>3. ASSUME NEW i \in 1..Len(fromRouter'), NEW j \in 1..Len(fromRouter'),
               fromRouter'[i].type = "push", fromRouter'[j].type = "push",
               fromRouter'[i].n = fromRouter'[j].n
        PROVE  i = j
    <3>1. i + 1 = j + 1
      BY <1>1, <2>3 DEF HInv, PushedOnce
    <3> QED
      BY <3>1
  <2> QED
    BY <2>1, <2>2, <2>3 DEF PushedOnce
<1>3. GoodbyeLast'
  <2>1. ASSUME NEW i \in 1..Len(fromRouter'), fromRouter'[i].type = "goodbye"
        PROVE  goodbyeSent /\ i = Len(fromRouter') /\ goodbyes' = {}
    <3>1. i + 1 \in 1..Len(fromRouter) /\ i + 1 # 1 /\ fromRouter[i + 1].type = "goodbye"
      BY <1>1, <2>1
    <3>2. goodbyeSent /\ i + 1 = Len(fromRouter) /\ goodbyes = {}
      BY <3>1 DEF HInv, GoodbyeLast
    <3>3. fromRouter[1].type # "goodbye"
      <4>1. 1 # Len(fromRouter)
        BY <1>1, <3>2
      <4> QED
        BY <1>1, <4>1 DEF HInv, GoodbyeLast
    <3>4. goodbyes' = goodbyes
      BY <3>3
    <3>5. i = Len(fromRouter')
      <4>1. PICK L \in Nat : L = Len(fromRouter) /\ Len(fromRouter') = L - 1
        BY <1>1
      <4>2. i + 1 = L /\ i \in Int
        BY <3>2, <4>1
      <4>3. i = L - 1
        BY <4>2
      <4> QED
        BY <4>1, <4>3
    <3> QED
      BY <3>2, <3>4, <3>5
  <2> QED
    BY <2>1 DEF HInv, GoodbyeLast
<1> QED
  BY <1>2, <1>3

\* A message that is no answer resolves nothing.
LEMMA NoAnswerTaken ==
    ASSUME IInv, HInv, fromRouter # <<>>, fromRouter' = Tail(fromRouter),
           fromRouter[1].type # "reply",
           UNCHANGED <<kind, rid, target, pc, requests, toRouter, future, endpoints, cancelled, live,
                       push>>
    PROVE  /\ AnsweredOnce' /\ Resolution' /\ KnownCalls' /\ Handlers' /\ GivenUp'
<1>1. /\ Len(fromRouter) \in Nat /\ Len(fromRouter') = Len(fromRouter) - 1
      /\ \A i \in 1..Len(fromRouter') :
            i + 1 \in 1..Len(fromRouter) /\ fromRouter'[i] = fromRouter[i + 1]
  BY TakenFirst
<1>2. AnsweredOnce'
  <2>1. ASSUME NEW i \in 1..Len(fromRouter'), fromRouter'[i].type = "reply"
        PROVE  /\ pc[fromRouter'[i].op] # "idle"
               /\ fromRouter'[i].op \notin toRouter
               /\ requests[fromRouter'[i].key] = fromRouter'[i].op
    BY <1>1, <2>1 DEF HInv, AnsweredOnce
  <2>2. ASSUME NEW i \in 1..Len(fromRouter'), NEW j \in 1..Len(fromRouter'),
               fromRouter'[i].type = "reply", fromRouter'[j].type = "reply",
               fromRouter'[i].op = fromRouter'[j].op
        PROVE  i = j
    <3>1. i + 1 = j + 1
      BY <1>1, <2>2 DEF HInv, AnsweredOnce
    <3> QED
      BY <3>1
  <2> QED
    BY <2>1, <2>2 DEF HInv, AnsweredOnce
<1>3. Resolution' /\ GivenUp'
  BY DEF HInv, Resolution, Resolved, GivenUp, IsLeave
<1>4. KnownCalls'
  BY <1>1 DEF HInv, KnownCalls, Made
<1>5. Handlers'
  BY HandlersShift DEF HInv, Opens, Closes
<1> QED
  BY <1>2, <1>3, <1>4, <1>5

\* An answer always finds the future of its call, and a confirmed close its handler:
\* _process_incoming_message raises no KeyError.
LEMMA ReplyFound ==
    ASSUME IInv, HInv, ReaderReply
    PROVE  LET m == fromRouter[1]
               o == requests[m.key]
           IN /\ m = Head(fromRouter) /\ m.type = "reply"
              /\ o \in Ops /\ m.op = o /\ ~Resolved(o) /\ ~KeyErrorOn(m, o)
<1> DEFINE m == fromRouter[1]
           o == requests[m.key]
<1>1. fromRouter # <<>> /\ fromRouter' = Tail(fromRouter) /\ Head(fromRouter).type = "reply"
  BY DEF ReaderReply, Receive
<1>2. 1 \in 1..Len(fromRouter) /\ m = Head(fromRouter) /\ m.type = "reply"
  BY <1>1, TakenFirst
<1>3. m.op \in Ops /\ o = m.op /\ m.key = <<kind[o], rid[o]>> /\ m.key[1] = kind[o]
      /\ requests[<<kind[o], rid[o]>>] = o
  BY <1>2, UnderWay DEF HInv, AnsweredOnce
<1>4. ~Resolved(o)
  BY <1>3 DEF HInv, Resolution
<1>5. ASSUME m.ok, m.key[1] \in CloseKinds
      PROVE  endpoints[target[o]] # NoOp
  <2>1. target[o] # NoOp /\ target[o] \in Ops
    BY <1>2, <1>3, <1>5 DEF HInv, Handlers, IInv, TypeOK, PeerTypeOK
  <2>2. Closes(1, target[o])
    BY <1>2, <1>3, <1>5 DEF Closes
  <2>3. HandlerAt(target[o], 1)
    BY <1>2, <2>1, <2>2 DEF HInv, Handlers
  <2> QED
    BY <2>3 DEF HandlerAt
<1>6. ~KeyErrorOn(m, o)
  BY <1>3, <1>5, PeerAssumption DEF KeyErrorOn
<1> QED
  BY <1>2, <1>3, <1>4, <1>6

\* The reader processes an answer.
LEMMA ReplyHandlers ==
    ASSUME IInv, IInv', HInv, ReaderReply
    PROVE  HInv'
<1> DEFINE m == fromRouter[1]
           o == requests[m.key]
<1> USE PeerAssumption
<1>1. /\ m = Head(fromRouter) /\ m.type = "reply" /\ o \in Ops /\ m.op = o
      /\ ~Resolved(o) /\ ~KeyErrorOn(m, o)
  BY ReplyFound
<1>2. /\ fromRouter # <<>> /\ fromRouter' = Tail(fromRouter)
      /\ reader' = "crashed" => o \in cancelled
      /\ requests' = [requests EXCEPT ![m.key] = NoOp]
      /\ endpoints' = EndpointsAfter(m, o)
      /\ future' = IF o \in cancelled THEN future
                   ELSE [future EXCEPT ![o] = [op |-> m.op, ok |-> m.ok, handle |-> m.handle]]
      /\ UNCHANGED <<idgen, pc, kind, rid, target, cancelled, goodbyeRequest, goodbyes, task,
                     toRouter, push, live, goodbyeSent>>
  <2>1. Receive("reply", o \notin cancelled)
    BY <1>1 DEF ReaderReply
  <2>2. fromRouter # <<>> /\ fromRouter' = Tail(fromRouter) /\ (reader' = "crashed" => o \in cancelled)
    BY <2>1 DEF Receive, AfterLoop
  <2>3. future' = IF o \in cancelled THEN future
                  ELSE [future EXCEPT ![o] = [op |-> m.op, ok |-> m.ok, handle |-> m.handle]]
    BY <1>1 DEF ReaderReply, FutureAfter
  <2> QED
    BY <1>1, <2>2, <2>3 DEF ReaderReply, requestVars, leaveVars, routerVars
<1>3. /\ Len(fromRouter) \in Nat /\ Len(fromRouter') = Len(fromRouter) - 1
      /\ 1 \in 1..Len(fromRouter)
      /\ \A i \in 1..Len(fromRouter') :
            /\ i + 1 \in 1..Len(fromRouter) /\ i + 1 # 1
            /\ fromRouter'[i] = fromRouter[i + 1]
  BY <1>2, TakenFirst
<1>4. /\ m.key = <<kind[o], rid[o]>> /\ m.key \in Keys /\ m.key[1] = kind[o]
      /\ kind[o] \in ReplyKinds /\ rid[o] # 0 /\ pc[o] # "idle" /\ o \notin toRouter
      /\ m.ok \in BOOLEAN /\ m.handle \in Ops \cup {NoOp} /\ Made(m.handle)
      /\ m.ok /\ kind[o] \in OpenKinds => m.handle # NoOp
  BY <1>1, <1>3, UnderWay DEF HInv, AnsweredOnce, KnownCalls
<1>5. /\ requests'[m.key] = NoOp
      /\ o \notin cancelled => future'[o] = [op |-> o, ok |-> m.ok, handle |-> m.handle]
      /\ o \in cancelled => future'[o] = future[o]
      /\ \A p \in Ops : p # o => future'[p] = future[p]
  <2>1. requests'[m.key] = NoOp
    BY <1>2, <1>4 DEF IInv, TypeOK
  <2>2. CASE o \in cancelled
    BY <1>2, <2>1, <2>2
  <2>3. CASE o \notin cancelled
    <3> DEFINE answer == [op |-> o, ok |-> m.ok, handle |-> m.handle]
    <3>1. future' = [future EXCEPT ![o] = answer]
      BY <1>1, <1>2, <2>3
    <3> HIDE DEF answer, o
    <3>2. future'[o] = answer /\ \A p \in Ops : p # o => future'[p] = future[p]
      BY <1>1, <3>1 DEF IInv, TypeOK
    <3> QED
      BY <2>1, <2>3, <3>2 DEF answer
  <2> QED
    BY <2>2, <2>3
<1>6. ASSUME NEW h \in Ops
      PROVE  /\ Opens(1, h) => endpoints'[h] # NoOp
             /\ ~Opens(1, h) /\ ~Closes(1, h) => endpoints'[h] = endpoints[h]
  <2>1. Opens(1, h) <=> m.ok /\ kind[o] \in OpenKinds /\ m.handle = h
    BY <1>1, <1>4 DEF Opens
  <2>2. Closes(1, h) <=> m.ok /\ kind[o] \in CloseKinds /\ target[o] = h
    BY <1>1, <1>4 DEF Closes
  <2>3. endpoints \in [Ops -> Ops \cup {NoOp}] /\ endpoints' = EndpointsAfter(m, o)
    BY <1>2 DEF IInv, TypeOK
  <2>4. CASE m.ok /\ kind[o] \in OpenKinds
    <3>1. kind[o] \notin CloseKinds
      BY <2>4 DEF OpenKinds, CloseKinds
    <3>2. endpoints' = [endpoints EXCEPT ![m.handle] = o]
      BY <1>4, <2>3, <2>4, <3>1 DEF EndpointsAfter
    <3> QED
      BY <1>1, <2>1, <2>3, <2>4, <3>2
  <2>5. CASE m.ok /\ kind[o] \in CloseKinds
    <3>1. kind[o] \notin OpenKinds
      BY <2>5 DEF OpenKinds, CloseKinds
    <3>2. endpoints' = [endpoints EXCEPT ![target[o]] = NoOp]
      BY <1>4, <2>3, <2>5, <3>1 DEF EndpointsAfter
    <3> QED
      BY <2>1, <2>2, <2>3, <2>5, <3>1, <3>2
  <2>6. CASE ~(m.ok /\ kind[o] \in OpenKinds) /\ ~(m.ok /\ kind[o] \in CloseKinds)
    <3>1. endpoints' = endpoints
      BY <1>4, <2>3, <2>6 DEF EndpointsAfter
    <3> QED
      BY <2>1, <2>6, <3>1
  <2> QED
    BY <2>4, <2>5, <2>6
<1>7. ASSUME NEW h \in Ops, Closes(1, h)
      PROVE  kind[o] \in CloseKinds /\ target[o] = h /\ m.ok
  BY <1>1, <1>4, <1>7 DEF Closes
<1> HIDE DEF o, m
<1>8. ASSUME NEW p \in Ops, p # o, rid[p] # 0, kind[p] \in ReplyKinds
      PROVE  requests'[<<kind[p], rid[p]>>] = requests[<<kind[p], rid[p]>>]
  <2>1. rid[p] # rid[o]
    BY <1>1, <1>4, <1>8 DEF IInv, KeyInv, IdsDistinct
  <2>2. <<kind[p], rid[p]>> \in Keys /\ <<kind[p], rid[p]>> # m.key
    BY <1>4, <1>8, <2>1 DEF IInv, TypeOK, PeerTypeOK, Keys
  <2> QED
    BY <1>2, <2>2 DEF IInv, TypeOK
<1>9. AnsweredOnce'
  <2>1. ASSUME NEW p \in toRouter
        PROVE  /\ pc[p] # "idle"
               /\ kind[p] \in ReplyKinds => requests'[<<kind[p], rid[p]>>] = p
    <3>1. p \in Ops /\ p # o /\ (kind[p] \in ReplyKinds => rid[p] # 0)
      BY <1>4 DEF IInv, TypeOK, PeerTypeOK, KeyInv, SentByCalls, ReplyKinds
    <3> QED
      BY <1>8, <3>1 DEF HInv, AnsweredOnce
  <2>2. ASSUME NEW i \in 1..Len(fromRouter'), fromRouter'[i].type = "reply"
        PROVE  /\ pc[fromRouter'[i].op] # "idle"
               /\ fromRouter'[i].op \notin toRouter
               /\ requests'[fromRouter'[i].key] = fromRouter'[i].op
    <3> DEFINE p == fromRouter[i + 1].op
    <3>1. i + 1 \in 1..Len(fromRouter) /\ i + 1 # 1 /\ fromRouter'[i] = fromRouter[i + 1]
      BY <1>3
    <3>2. /\ p \in Ops /\ fromRouter[i + 1].key = <<kind[p], rid[p]>>
          /\ kind[p] \in ReplyKinds /\ rid[p] # 0
      BY <2>2, <3>1, UnderWay
    <3>3. pc[p] # "idle" /\ p \notin toRouter /\ requests[<<kind[p], rid[p]>>] = p
      BY <2>2, <3>1, <3>2 DEF HInv, AnsweredOnce
    <3>4. p # o
      BY <1>1, <1>3, <2>2, <3>1 DEF HInv, AnsweredOnce, m
    <3> HIDE DEF p
    <3>5. requests'[<<kind[p], rid[p]>>] = p
      BY <1>8, <3>2, <3>3, <3>4
    <3> QED
      BY <3>1, <3>2, <3>3, <3>5 DEF p
  <2>3. ASSUME NEW i \in 1..Len(fromRouter'), NEW j \in 1..Len(fromRouter'),
               fromRouter'[i].type = "reply", fromRouter'[j].type = "reply",
               fromRouter'[i].op = fromRouter'[j].op
        PROVE  i = j
    <3>1. /\ i + 1 \in 1..Len(fromRouter) /\ fromRouter'[i] = fromRouter[i + 1]
          /\ j + 1 \in 1..Len(fromRouter) /\ fromRouter'[j] = fromRouter[j + 1]
      BY <1>3
    <3>2. /\ fromRouter[i + 1].type = "reply" /\ fromRouter[j + 1].type = "reply"
          /\ fromRouter[i + 1].op = fromRouter[j + 1].op
      BY <2>3, <3>1
    <3>3. i + 1 = j + 1
      BY <3>1, <3>2 DEF HInv, AnsweredOnce
    <3> QED
      BY <3>3
  <2> QED
    BY <1>2, <2>1, <2>2, <2>3 DEF AnsweredOnce
<1>10. Resolution'
  <2> SUFFICES ASSUME NEW p \in Ops
               PROVE  /\ Resolved(p)' =>
                            /\ pc[p] # "idle" /\ kind[p] \in ReplyKinds /\ rid[p] # 0
                            /\ requests'[<<kind[p], rid[p]>>] # p
                      /\ ~Resolved(p)' => ~future'[p].ok
                      /\ pc[p] = "returned" /\ kind[p] \in ReplyKinds =>
                            Resolved(p)' /\ future'[p].ok
                      /\ kind[p] \in OpenKinds /\ future'[p].ok => future'[p].handle # NoOp
                      /\ pc[p] \in {"sending", "waiting", "cancelled"}
                             /\ kind[p] \in ReplyKinds => rid[p] # 0
    BY <1>2 DEF Resolution
  <2>1. CASE p = o
    <3>1. pc[p] # "returned"
      BY <1>1, <1>4, <2>1 DEF HInv, Resolution
    <3>2. requests'[<<kind[p], rid[p]>>] # p
      BY <1>1, <1>4, <1>5, <2>1
    <3>3. CASE o \in cancelled
      <4>1. future'[p] = future[p] /\ (Resolved(p)' <=> Resolved(p))
        BY <1>5, <2>1, <3>3 DEF Resolved
      <4> QED
        BY <1>1, <1>4, <2>1, <3>1, <3>2, <4>1 DEF HInv, Resolution
    <3>4. CASE o \notin cancelled
      <4>1. Resolved(p)' /\ future'[p].ok = m.ok /\ future'[p].handle = m.handle
        BY <1>1, <1>5, <2>1, <3>4 DEF Resolved
      <4> QED
        BY <1>4, <2>1, <3>1, <3>2, <4>1
    <3> QED
      BY <3>3, <3>4
  <2>2. CASE p # o
    <3>1. future'[p] = future[p] /\ (Resolved(p)' <=> Resolved(p))
      BY <1>5, <2>2 DEF Resolved
    <3> QED
      BY <1>8, <2>2, <3>1 DEF HInv, Resolution
  <2> QED
    BY <2>1, <2>2
<1>11. KnownCalls'
  <2>1. \A p : Made(p)' <=> Made(p)
    BY <1>2 DEF Made
  <2>2. \A p \in Ops : Made(future'[p].handle)
    <3> TAKE p \in Ops
    <3>1. future'[p] = future[p] \/ future'[p].handle = m.handle
      BY <1>5
    <3> QED
      BY <1>4, <3>1 DEF HInv, KnownCalls
  <2>3. \A p \in Ops : Made(future[p].handle)'
    BY <1>2, <2>2 DEF Made
  <2>4. \A i \in 1..Len(fromRouter') : fromRouter'[i].type = "reply" =>
            /\ Made(fromRouter'[i].handle)
            /\ fromRouter'[i].ok /\ fromRouter'[i].key[1] \in OpenKinds =>
                  fromRouter'[i].handle # NoOp
    BY <1>3 DEF HInv, KnownCalls
  <2> QED
    BY <1>2, <2>3, <2>4 DEF HInv, KnownCalls, Made
<1>12. Handlers'
  BY <1>2, <1>6, HandlersShift DEF HInv
<1>13. PushedOnce' /\ GoodbyeLast'
  BY <1>2, RestInOrder
<1>14. GivenUp'
  <2> SUFFICES ASSUME NEW p \in cancelled
               PROVE  \/ IsLeave(p)'
                      \/ kind[p] \in ReplyKinds /\ pc[p] = "cancelled" /\ ~Resolved(p)'
    BY <1>2 DEF GivenUp
  <2>1. p \in Ops
    BY DEF IInv, TypeOK
  <2>2. future'[p] = future[p]
    BY <1>5, <2>1
  <2> QED
    BY <1>2, <2>2 DEF HInv, GivenUp, IsLeave, Resolved
<1>15. CrashExplained'
  <2> SUFFICES ASSUME reader' = "crashed"
               PROVE  CrashExplained'
    BY DEF CrashExplained
  <2>0. PICK p \in Ops : p = o
    BY <1>1
  <2>1. p \in cancelled /\ kind[p] # "leave"
    BY <1>2, <1>4, <2>0 DEF ReplyKinds
  <2>2. pc[p] = "cancelled" /\ ~Resolved(p)
    BY <2>1 DEF HInv, GivenUp, IsLeave
  <2>3. ~Resolved(p)'
    BY <1>5, <2>0, <2>1, <2>2 DEF Resolved
  <2>4. requests'[<<kind[p], rid[p]>>] = NoOp
    BY <1>4, <1>5, <2>0
  <2> QED
    BY <1>2, <2>1, <2>2, <2>3, <2>4 DEF CrashExplained
<1> QED
  BY <1>9, <1>10, <1>11, <1>12, <1>13, <1>14, <1>15 DEF HInv

\* The reader processes an INVOCATION or EVENT: it has its handler, unless it came
\* after the close of its id.
LEMMA PushHandlers ==
    ASSUME IInv, HInv, ReaderPush
    PROVE  HInv'
<1> DEFINE n == fromRouter[1].n
           found == endpoints[push[n].handle] # NoOp
<1>1. /\ fromRouter # <<>> /\ fromRouter' = Tail(fromRouter)
      /\ Head(fromRouter).type = "push" /\ reader = "recv"
  BY DEF ReaderPush, Receive
<1>2. 1 \in 1..Len(fromRouter) /\ Head(fromRouter) = fromRouter[1]
  BY <1>1, TakenFirst
<1>3. n \in Pushes /\ fromRouter[1].type = "push" /\ task[n] = "none" /\ push[n].handle \in Ops
  <2>1. n \in Pushes /\ fromRouter[1].type = "push"
    BY <1>1, <1>2, UnderWay
  <2> QED
    BY <1>2, <2>1 DEF HInv, PushedOnce, IInv, TypeOK, PeerTypeOK
<1>4. /\ UNCHANGED <<idgen, pc, kind, rid, target, requests, future, endpoints, cancelled,
                     goodbyeRequest, goodbyes, toRouter, push, live, goodbyeSent>>
      /\ task' = [task EXCEPT ![n] = IF found THEN "running" ELSE "orphan"]
      /\ reader' = "crashed" => ~found
  <2>1. Receive("push", found)
    BY <1>2 DEF ReaderPush
  <2>2. reader' = "crashed" => ~found
    BY <2>1 DEF Receive, AfterLoop
  <2>3. task' = [task EXCEPT ![n] = IF found THEN "running" ELSE "orphan"]
    BY <1>2 DEF ReaderPush
  <2> QED
    BY <2>2, <2>3 DEF ReaderPush, requestVars, dictVars, leaveVars, routerVars
<1>5. ~found => push[n].late
  <2> SUFFICES ASSUME ~found, ~push[n].late
               PROVE  FALSE
    OBVIOUS
  <2>1. HandlerAt(push[n].handle, 1)
    BY <1>2, <1>3 DEF HInv, Handlers
  <2> QED
    BY <2>1 DEF HandlerAt
<1> HIDE DEF n, found
<1>6. /\ task'[n] = IF found THEN "running" ELSE "orphan"
      /\ \A k \in Pushes : k # n => task'[k] = task[k]
  BY <1>3, <1>4 DEF IInv, TypeOK
<1>7. AnsweredOnce' /\ Resolution' /\ KnownCalls' /\ Handlers' /\ GivenUp'
  BY <1>1, <1>3, <1>4, NoAnswerTaken
<1>8. PushedOnce' /\ GoodbyeLast'
  BY <1>1, <1>3, <1>4, <1>6, RestInOrder DEF n
<1>9. CrashExplained'
  <2> SUFFICES ASSUME reader' = "crashed"
               PROVE  \E k \in Pushes : task'[k] = "orphan" /\ push'[k].late
    BY DEF CrashExplained
  <2> QED
    BY <1>3, <1>4, <1>5, <1>6
<1> QED
  BY <1>7, <1>8, <1>9 DEF HInv

\* The reader processes the GOODBYE: there is one only, so that its future is not set,
\* but the leave() that made it may have timed out.
LEMMA GoodbyeHandlers ==
    ASSUME IInv, HInv, ReaderGoodbye
    PROVE  HInv'
<1> DEFINE free == goodbyeRequest \notin goodbyes \cup cancelled
<1>1. /\ fromRouter # <<>> /\ fromRouter' = Tail(fromRouter)
      /\ Head(fromRouter).type = "goodbye" /\ reader = "recv"
      /\ reader' = "crashed" => ~free
  BY DEF ReaderGoodbye, Receive, AfterLoop
<1>2. /\ UNCHANGED <<idgen, pc, kind, rid, target, requests, future, endpoints, cancelled,
                     goodbyeRequest, task, connected, toRouter, push, live, goodbyeSent>>
  BY DEF ReaderGoodbye, requestVars, dictVars, routerVars
<1> HIDE DEF free
<1>3. 1 \in 1..Len(fromRouter) /\ fromRouter[1].type = "goodbye"
  BY <1>1, TakenFirst
<1>4. goodbyeSent /\ goodbyes = {}
  BY <1>3 DEF HInv, GoodbyeLast
<1>5. AnsweredOnce' /\ Resolution' /\ KnownCalls' /\ Handlers' /\ GivenUp'
  BY <1>1, <1>2, <1>3, NoAnswerTaken
<1>6. PushedOnce' /\ GoodbyeLast'
  BY <1>1, <1>2, <1>3, <1>4, RestInOrder
<1>7. CrashExplained'
  <2> SUFFICES ASSUME reader' = "crashed"
               PROVE  \E o \in cancelled' : kind'[o] = "leave" /\ goodbyeSent'
    BY DEF CrashExplained
  <2>1. goodbyeRequest \in cancelled /\ goodbyeRequest # NoOp
    BY <1>1, <1>4, PeerAssumption DEF free, IInv, TypeOK
  <2>2. kind[goodbyeRequest] = "leave"
    BY <2>1 DEF IInv, GoodbyeCalls, IsLeave
  <2> QED
    BY <1>2, <1>4, <2>1, <2>2
<1> QED
  BY <1>5, <1>6, <1>7 DEF HInv

-----------------------------------------------------------------------------
(* The router adds a message to what is under way.                         *)

LEMMA Added ==
    ASSUME IInv, NEW L \in Nat, L = Len(fromRouter), NEW m,
           fromRouter' = Append(fromRouter, m)
    PROVE  /\ Len(fromRouter') = L + 1 /\ L + 1 \in 1..Len(fromRouter')
           /\ fromRouter'[L + 1] = m
           /\ \A i \in 1..L : fromRouter'[i] = fromRouter[i]
           /\ \A i \in 1..Len(fromRouter') : i = L + 1 \/ i \in 1..L
<1>1. fromRouter \in Seq(Messages)
  BY DEF IInv, TypeOK, PeerTypeOK
<1>2. /\ Len(fromRouter') = L + 1 /\ fromRouter'[L + 1] = m
      /\ \A i \in 1..L : fromRouter'[i] = fromRouter[i]
  BY <1>1
<1> QED
  BY <1>2

\* Whoever finds a handler still finds it; the new message may add one, or take one.
LEMMA HandlerGrows ==
    ASSUME IInv, NEW L \in Nat, L = Len(fromRouter), NEW m,
           fromRouter' = Append(fromRouter, m), UNCHANGED <<target, endpoints>>
    PROVE  /\ \A i \in 1..L, h \in Ops : Closes(i, h)' <=> Closes(i, h)
           /\ \A i \in 1..(L + 1), h \in Ops : HandlerAt(h, i) => HandlerAt(h, i)'
           /\ \A h \in Ops : HandlerAt(h, L + 1) /\ ~(Closes(L + 1, h)') => HandlerAt(h, L + 2)'
           /\ \A h \in Ops : Opens(L + 1, h)' => HandlerAt(h, L + 2)'
<1>0. /\ Len(fromRouter') = L + 1 /\ L + 1 \in 1..Len(fromRouter')
      /\ \A i \in 1..L : fromRouter'[i] = fromRouter[i]
      /\ \A i \in 1..Len(fromRouter') : i = L + 1 \/ i \in 1..L
      /\ \A i \in 1..L : i \in 1..Len(fromRouter')
  BY Added
<1>1. ASSUME NEW i \in 1..L, NEW h \in Ops
      PROVE  (Closes(i, h)' <=> Closes(i, h)) /\ (Opens(i, h)' <=> Opens(i, h))
  BY <1>0 DEF Closes, Opens
<1>2. ASSUME NEW h \in Ops, NEW i \in 1..(L + 1), NEW e \in {i, L + 2}, HandlerAt(h, i),
             e = i \/ (i = L + 1 /\ ~(Closes(L + 1, h)'))
      PROVE  HandlerAt(h, e)'
  <2>1. ASSUME NEW j \in 0..L, \A k \in 1..L : j < k /\ k < i => ~Closes(k, h)
        PROVE  \A k \in 1..Len(fromRouter') : j < k /\ k < e => ~(Closes(k, h)')
    <3> SUFFICES ASSUME NEW k \in 1..Len(fromRouter'), j < k, k < e
                 PROVE  ~(Closes(k, h)')
      OBVIOUS
    <3>1. CASE k = L + 1
      BY <1>2, <3>1
    <3>2. CASE k # L + 1
      <4>1. k \in 1..L /\ k < i
        BY <1>0, <1>2, <3>2
      <4> QED
        BY <1>1, <2>1, <4>1
    <3> QED
      BY <3>1, <3>2
  <2>2. CASE endpoints[h] # NoOp /\ \A k \in 1..L : k < i => ~Closes(k, h)
    <3>1. \A k \in 1..Len(fromRouter') : 0 < k /\ k < e => ~(Closes(k, h)')
      BY <2>1, <2>2
    <3>2. endpoints'[h] # NoOp /\ \A k \in 1..Len(fromRouter') : k < e => ~(Closes(k, h)')
      BY <2>2, <3>1
    <3> QED
      BY <3>2 DEF HandlerAt
  <2>3. ASSUME NEW j \in 1..L, j < i, Opens(j, h),
               \A k \in 1..L : j < k /\ k < i => ~Closes(k, h)
        PROVE  HandlerAt(h, e)'
    <3>1. j \in 1..Len(fromRouter') /\ j < e /\ Opens(j, h)'
      BY <1>0, <1>1, <1>2, <2>3
    <3>2. \A k \in 1..Len(fromRouter') : j < k /\ k < e => ~(Closes(k, h)')
      BY <2>1, <2>3
    <3> QED
      BY <3>1, <3>2 DEF HandlerAt
  <2> QED
    BY <1>2, <2>2, <2>3 DEF HandlerAt
<1>3. ASSUME NEW h \in Ops, Opens(L + 1, h)'
      PROVE  HandlerAt(h, L + 2)'
  <2>1. \A k \in 1..Len(fromRouter') : L + 1 < k /\ k < L + 2 => ~(Closes(k, h)')
    BY <1>0
  <2>2. L + 1 \in 1..Len(fromRouter') /\ L + 1 < L + 2
    BY <1>0
  <2> QED
    BY <1>3, <2>1, <2>2 DEF HandlerAt
<1> QED
  BY <1>1, <1>2, <1>3

\* The router closes an id it has open, opens the one it answers with, and pushes for
\* open ones or says the message is late: so the handlers needed are there.
LEMMA HandlersGrow ==
    ASSUME IInv, IInv', Handlers, NEW L \in Nat, L = Len(fromRouter), NEW m,
           fromRouter' = Append(fromRouter, m), UNCHANGED <<target, endpoints>>,
           \A h \in live' : (h \in live /\ ~(Closes(L + 1, h)')) \/ Opens(L + 1, h)',
           \A h \in Ops : Closes(L + 1, h)' => h \in live,
           m.type = "push" => push'[m.n].late \/ push'[m.n].handle \in live,
           m.type = "reply" /\ m.ok /\ m.key[1] \in CloseKinds => target[m.op] # NoOp,
           \A i \in 1..L : fromRouter[i].type = "push" =>
                push'[fromRouter[i].n] = push[fromRouter[i].n]
    PROVE  Handlers'
<1>0. /\ Len(fromRouter') = L + 1 /\ L + 1 \in 1..Len(fromRouter')
      /\ fromRouter'[L + 1] = m
      /\ \A i \in 1..L : fromRouter'[i] = fromRouter[i]
      /\ \A i \in 1..Len(fromRouter') : i = L + 1 \/ i \in 1..L
      /\ \A i \in 1..L : i \in 1..(L + 1)
      /\ L + 1 \in 1..(L + 1)
  BY Added
<1>1. /\ \A i \in 1..L, h \in Ops : Closes(i, h)' <=> Closes(i, h)
      /\ \A i \in 1..(L + 1), h \in Ops : HandlerAt(h, i) => HandlerAt(h, i)'
      /\ \A h \in Ops : HandlerAt(h, L + 1) /\ ~(Closes(L + 1, h)') => HandlerAt(h, L + 2)'
      /\ \A h \in Ops : Opens(L + 1, h)' => HandlerAt(h, L + 2)'
  BY HandlerGrows
<1>2. live \subseteq Ops /\ live' \subseteq Ops
  BY DEF IInv, TypeOK, PeerTypeOK
<1>3. \A h \in live : HandlerAt(h, L + 1)
  BY <1>0 DEF Handlers
<1>4. \A h \in live : HandlerAt(h, L + 1)'
  BY <1>0, <1>1, <1>2, <1>3
<1>5. \A i \in 1..(Len(fromRouter') + 1), h \in live' :
         i = Len(fromRouter') + 1 => HandlerAt(h, i)'
  <2> SUFFICES ASSUME NEW i \in 1..(L + 2), NEW h \in live', i = L + 2
               PROVE  HandlerAt(h, i)'
    BY <1>0
  <2>1. h \in Ops
    BY <1>2
  <2>2. CASE Opens(L + 1, h)'
    BY <1>1, <2>1, <2>2
  <2>3. CASE h \in live /\ ~(Closes(L + 1, h)')
    BY <1>1, <1>3, <2>1, <2>3
  <2> QED
    BY <2>2, <2>3
<1>6. ASSUME NEW i \in 1..Len(fromRouter'), NEW h \in Ops, Closes(i, h)'
      PROVE  HandlerAt(h, i)'
  <2>1. CASE i = L + 1
    BY <1>4, <1>6, <2>1
  <2>2. CASE i # L + 1
    <3>1. i \in 1..L /\ Closes(i, h)
      BY <1>0, <1>1, <1>6, <2>2
    <3> QED
      BY <1>0, <1>1, <3>1 DEF Handlers
  <2> QED
    BY <2>1, <2>2
<1>7. ASSUME NEW i \in 1..Len(fromRouter'), NEW h \in Ops, fromRouter'[i].type = "push",
             ~push'[fromRouter'[i].n].late, push'[fromRouter'[i].n].handle = h
      PROVE  HandlerAt(h, i)'
  <2>1. CASE i = L + 1
    BY <1>0, <1>4, <1>7, <2>1
  <2>2. CASE i # L + 1
    <3>1. i \in 1..L /\ fromRouter'[i] = fromRouter[i]
      BY <1>0, <2>2
    <3>2. HandlerAt(h, i)
      BY <1>7, <3>1 DEF Handlers
    <3> QED
      BY <1>0, <1>1, <3>1, <3>2
  <2> QED
    BY <2>1, <2>2
<1>8. ASSUME NEW i \in 1..Len(fromRouter'), fromRouter'[i].type = "reply", fromRouter'[i].ok,
             fromRouter'[i].key[1] \in CloseKinds
      PROVE  target'[fromRouter'[i].op] # NoOp
  BY <1>0, <1>8 DEF Handlers
<1> QED
  BY <1>5, <1>6, <1>7, <1>8 DEF Handlers

\* The rest of what a message of the router has to keep in order.
LEMMA MessageAdded ==
    ASSUME IInv, HInv, RouterUp, NEW L \in Nat, L = Len(fromRouter), NEW m,
           fromRouter' = Append(fromRouter, m),
           UNCHANGED <<kind, rid, target, pc, requests, future, endpoints, cancelled,
                       goodbyes, task, reader>>,
           toRouter' \subseteq toRouter,
           m.type = "reply" =>
               /\ m.op \in toRouter /\ m.op \notin toRouter'
               /\ m.key = <<kind[m.op], rid[m.op]>> /\ kind[m.op] \in ReplyKinds
               /\ Made(m.handle)
               /\ m.ok /\ m.key[1] \in OpenKinds => m.handle # NoOp,
           m.type = "push" => push[m.n] = NoPush /\ push'[m.n].handle # NoOp /\ m.n \in Pushes,
           m.type = "goodbye" => goodbyeSent',
           \A h \in live' : pc[h] # "idle",
           \A n \in Pushes : push'[n] = push[n] \/
               (push[n] = NoPush /\ push'[n].handle # NoOp /\ Made(push'[n].handle)),
           Handlers'
    PROVE  HInv'
<1>0. /\ Len(fromRouter') = L + 1 /\ L + 1 \in 1..Len(fromRouter')
      /\ fromRouter'[L + 1] = m
      /\ \A i \in 1..L : fromRouter'[i] = fromRouter[i]
      /\ \A i \in 1..Len(fromRouter') : i = L + 1 \/ i \in 1..L
  BY Added
<1>1. ~goodbyeSent /\ goodbyes = {} /\ \A i \in 1..L : fromRouter[i].type # "goodbye"
  BY DEF RouterUp, HInv, GoodbyeLast
<1>2. AnsweredOnce'
  <2>1. ASSUME NEW i \in 1..Len(fromRouter'), fromRouter'[i].type = "reply"
        PROVE  /\ pc[fromRouter'[i].op] # "idle"
               /\ fromRouter'[i].op \notin toRouter'
               /\ requests[fromRouter'[i].key] = fromRouter'[i].op
    <3>1. CASE i = L + 1
      <4>1. fromRouter'[i] = m /\ m.type = "reply"
        BY <1>0, <2>1, <3>1
      <4>2. /\ m.op \in toRouter /\ m.op \notin toRouter'
            /\ m.key = <<kind[m.op], rid[m.op]>> /\ kind[m.op] \in ReplyKinds
        BY <4>1
      <4>3. pc[m.op] # "idle" /\ requests[<<kind[m.op], rid[m.op]>>] = m.op
        BY <4>2 DEF HInv, AnsweredOnce
      <4> QED
        BY <4>1, <4>2, <4>3
    <3>2. CASE i # L + 1
      BY <1>0, <2>1, <3>2 DEF HInv, AnsweredOnce
    <3> QED
      BY <3>1, <3>2
  <2>2. ASSUME NEW i \in 1..L, fromRouter[i].type = "reply", m.type = "reply"
        PROVE  fromRouter[i].op # m.op
    BY <2>2 DEF HInv, AnsweredOnce
  <2>3. ASSUME NEW i \in 1..Len(fromRouter'), NEW j \in 1..Len(fromRouter'),
               fromRouter'[i].type = "reply", fromRouter'[j].type = "reply",
               fromRouter'[i].op = fromRouter'[j].op
        PROVE  i = j
    <3>1. CASE i \in 1..L /\ j \in 1..L
      BY <1>0, <2>3, <3>1 DEF HInv, AnsweredOnce
    <3>2. CASE i = L + 1 /\ j \in 1..L
      BY <1>0, <2>2, <2>3, <3>2
    <3>3. CASE i \in 1..L /\ j = L + 1
      BY <1>0, <2>2, <2>3, <3>3
    <3> QED
      BY <1>0, <3>1, <3>2, <3>3
  <2> QED
    BY <2>1, <2>3 DEF HInv, AnsweredOnce
<1>3. Resolution' /\ GivenUp'
  BY DEF HInv, Resolution, Resolved, GivenUp, IsLeave
<1>4. KnownCalls'
  <2>1. \A p : Made(p)' <=> Made(p)
    BY DEF Made
  <2>2. \A n \in Pushes : Made(push'[n].handle)
    BY DEF HInv, KnownCalls
  <2>3. \A n \in Pushes : Made(push[n].handle)'
    BY <2>2 DEF Made
  <2>4. ASSUME NEW i \in 1..Len(fromRouter'), fromRouter'[i].type = "reply"
        PROVE  /\ Made(fromRouter'[i].handle)
               /\ fromRouter'[i].ok /\ fromRouter'[i].key[1] \in OpenKinds =>
                     fromRouter'[i].handle # NoOp
    <3>1. CASE i = L + 1
      BY <1>0, <2>4, <3>1
    <3>2. CASE i # L + 1
      BY <1>0, <2>4, <3>2 DEF HInv, KnownCalls
    <3> QED
      BY <3>1, <3>2
  <2> QED
    BY <2>3, <2>4 DEF HInv, KnownCalls, Made
<1>5. PushedOnce'
  <2>1. ASSUME NEW i \in 1..L, fromRouter[i].type = "push"
        PROVE  /\ fromRouter[i].n \in Pushes /\ push[fromRouter[i].n].handle # NoOp
               /\ push'[fromRouter[i].n] = push[fromRouter[i].n]
               /\ m.type = "push" => fromRouter[i].n # m.n
    <3>1. fromRouter[i].n \in Pushes /\ push[fromRouter[i].n].handle # NoOp
      BY <2>1, UnderWay DEF HInv, PushedOnce
    <3> QED
      BY <3>1 DEF NoPush
  <2>2. ASSUME NEW i \in 1..Len(fromRouter'), fromRouter'[i].type = "push"
        PROVE  push'[fromRouter'[i].n].handle # NoOp /\ task[fromRouter'[i].n] = "none"
    <3>1. CASE i = L + 1
      BY <1>0, <2>2, <3>1 DEF HInv, PushedOnce, NoPush
    <3>2. CASE i # L + 1
      BY <1>0, <2>1, <2>2, <3>2 DEF HInv, PushedOnce
    <3> QED
      BY <3>1, <3>2
  <2>3. ASSUME NEW i \in 1..Len(fromRouter'), NEW j \in 1..Len(fromRouter'),
               fromRouter'[i].type = "push", fromRouter'[j].type = "push",
               fromRouter'[i].n = fromRouter'[j].n
        PROVE  i = j
    <3>1. CASE i \in 1..L /\ j \in 1..L
      BY <1>0, <2>3, <3>1 DEF HInv, PushedOnce
    <3>2. CASE i = L + 1 /\ j \in 1..L
      BY <1>0, <2>1, <2>3, <3>2
    <3>3. CASE i \in 1..L /\ j = L + 1
      BY <1>0, <2>1, <2>3, <3>3
    <3> QED
      BY <1>0, <3>1, <3>2, <3>3
  <2>4. \A n \in Pushes : push'[n].handle = NoOp => push'[n] = NoPush /\ task[n] = "none"
    BY DEF HInv, PushedOnce
  <2> QED
    BY <2>2, <2>3, <2>4 DEF PushedOnce
<1>6. GoodbyeLast'
  <2>1. ASSUME NEW i \in 1..Len(fromRouter'), fromRouter'[i].type = "goodbye"
        PROVE  goodbyeSent' /\ i = Len(fromRouter')
    BY <1>0, <1>1, <2>1
  <2> QED
    BY <1>1, <2>1 DEF GoodbyeLast
<1>7. CrashExplained'
  <2>1. ASSUME NEW n \in Pushes, task[n] = "orphan"
        PROVE  push'[n] = push[n]
    BY <2>1 DEF HInv, PushedOnce, NoPush
  <2> QED
    BY <1>1, <2>1 DEF HInv, CrashExplained, Resolved
<1> QED
  BY <1>2, <1>3, <1>4, <1>5, <1>6, <1>7 DEF HInv

\* The router answers a request.
LEMMA AnswerHandlers ==
    ASSUME IInv, IInv', HInv, NEW o \in Ops, RouterAnswers(o), UNCHANGED localVars
    PROVE  HInv'
<1>0. /\ RouterUp /\ o \in toRouter /\ kind[o] \in ReplyKinds /\ toRouter' = toRouter \ {o}
      /\ UNCHANGED <<kind, rid, target, push, goodbyeSent>>
      /\ UNCHANGED <<pc, requests, future, endpoints, cancelled, goodbyes, task, reader>>
  BY DEF RouterAnswers, RouterAccept, RouterRefuse, requestVars, routerVars, localVars, dictVars,
         leaveVars
<1>1. pc[o] # "idle"
  BY <1>0 DEF HInv, AnsweredOnce
<1>2. PICK ok \in BOOLEAN, h \in Ops \cup {NoOp} :
         /\ fromRouter' = Append(fromRouter, Reply(o, ok, h))
         /\ ok /\ kind[o] \in OpenKinds => h = o \/ h \in live
         /\ ok /\ kind[o] \notin OpenKinds => h = NoOp
         /\ ~ok => h = NoOp
         /\ ok /\ kind[o] \in CloseKinds => target[o] \in live
         /\ live' = IF ok THEN LiveAfter(o, h) ELSE live
  <2>1. CASE RouterRefuse(o)
    BY <2>1 DEF RouterRefuse, routerVars
  <2>2. CASE RouterAccept(o)
    <3>1. PICK h \in AnswerHandles(o) : /\ fromRouter' = Append(fromRouter, Reply(o, TRUE, h))
                                        /\ live' = LiveAfter(o, h)
      BY <2>2 DEF RouterAccept
    <3>2. /\ kind[o] \in OpenKinds => h = o \/ h \in live
          /\ kind[o] \notin OpenKinds => h = NoOp
      BY <3>1 DEF AnswerHandles, OpenKinds
    <3>3. live \subseteq Ops
      BY DEF IInv, TypeOK, PeerTypeOK
    <3>4. kind[o] \in CloseKinds => target[o] \in live
      BY <2>2 DEF RouterAccept
    <3> QED
      BY <3>1, <3>2, <3>3, <3>4
  <2> QED
    BY <2>1, <2>2 DEF RouterAnswers
<1>3. PICK m : /\ m = Reply(o, ok, h) /\ m.type = "reply" /\ m.op = o /\ m.ok = ok
               /\ m.handle = h /\ m.key = <<kind[o], rid[o]>> /\ m.key[1] = kind[o]
  <2> DEFINE r == Reply(o, ok, h)
  <2>1. /\ r.type = "reply" /\ r.op = o /\ r.ok = ok /\ r.handle = h
        /\ r.key = <<kind[o], rid[o]>> /\ r.key[1] = kind[o]
    BY DEF Reply
  <2> HIDE DEF r
  <2>2. r = Reply(o, ok, h)
    BY DEF r
  <2> QED
    BY <2>1, <2>2
<1>4. PICK L \in Nat : L = Len(fromRouter)
  BY DEF IInv, TypeOK, PeerTypeOK
<1>5. fromRouter' = Append(fromRouter, m) /\ fromRouter'[L + 1] = m
  <2>1. fromRouter' = Append(fromRouter, m)
    BY <1>2, <1>3
  <2> QED
    BY <1>4, <2>1, Added
<1>6. ASSUME NEW g \in Ops
      PROVE  /\ Opens(L + 1, g)' <=> (ok /\ kind[o] \in OpenKinds /\ h = g)
             /\ Closes(L + 1, g)' <=> (ok /\ kind[o] \in CloseKinds /\ target[o] = g)
  BY <1>0, <1>3, <1>5 DEF Opens, Closes
<1>7. live \subseteq Ops /\ live' \subseteq Ops /\ NoOp \notin live
  BY PeerAssumption DEF IInv, TypeOK, PeerTypeOK
<1>8. OpenKinds \cap CloseKinds = {}
  BY DEF OpenKinds, CloseKinds
<1>9. /\ ok /\ kind[o] \in OpenKinds => live' = live \cup {h}
      /\ ok /\ kind[o] \in CloseKinds => live' = live \ {target[o]}
      /\ ~ok \/ kind[o] \notin OpenKinds \cup CloseKinds => live' = live
  <2>1. CASE ok /\ kind[o] \in OpenKinds
    BY <1>2, <1>8, <2>1 DEF LiveAfter
  <2>2. CASE ok /\ kind[o] \in CloseKinds
    BY <1>2, <1>8, <2>2 DEF LiveAfter
  <2>3. CASE ~ok \/ kind[o] \notin OpenKinds \cup CloseKinds
    BY <1>2, <2>3 DEF LiveAfter
  <2> QED
    BY <1>8, <2>1, <2>2, <2>3
<1>10. Handlers'
  <2>1. \A g \in live' : (g \in live /\ ~(Closes(L + 1, g)')) \/ Opens(L + 1, g)'
    <3> TAKE g \in live'
    <3>1. g \in Ops
      BY <1>7
    <3> QED
      BY <1>6, <1>8, <1>9, <3>1
  <2>2. \A g \in Ops : Closes(L + 1, g)' => g \in live
    BY <1>2, <1>6
  <2>3. m.type = "reply" /\ m.ok /\ m.key[1] \in CloseKinds => target[m.op] # NoOp
    BY <1>2, <1>3, <1>7
  <2> QED
    BY <1>0, <1>3, <1>4, <1>5, <2>1, <2>2, <2>3, HandlersGrow DEF HInv
<1>11. \A g \in live' : pc[g] # "idle"
  <2>1. \A g \in live : pc[g] # "idle"
    BY DEF HInv, KnownCalls
  <2>2. live' \subseteq live \cup {o}
    BY <1>2, <1>8, <1>9
  <2> QED
    BY <1>1, <2>1, <2>2
<1>12. Made(m.handle) /\ (m.ok /\ m.key[1] \in OpenKinds => m.handle # NoOp)
  <2>1. h = NoOp \/ h = o \/ h \in live
    BY <1>2
  <2>2. Made(h)
    BY <1>1, <2>1 DEF HInv, KnownCalls, Made
  <2> QED
    BY <1>2, <1>3, <1>7, <2>2, PeerAssumption
<1> QED
  BY <1>0, <1>3, <1>4, <1>5, <1>10, <1>11, <1>12, MessageAdded

\* The router pushes an INVOCATION or EVENT: for an id it has open, or a late one.
LEMMA RouterPushHandlers ==
    ASSUME IInv, IInv', HInv, NEW n \in Pushes, RouterPush(n), UNCHANGED localVars
    PROVE  HInv'
<1>0. /\ RouterUp /\ UNCHANGED <<kind, rid, target, toRouter, live, goodbyeSent>>
      /\ push[n] = NoPush /\ fromRouter' = Append(fromRouter, Pushed(n))
      /\ UNCHANGED <<pc, requests, future, endpoints, cancelled, goodbyes, task, reader>>
  BY DEF RouterPush, requestVars, localVars, dictVars, leaveVars
<1>1. PICK h \in Ops : /\ h \in live \/ ClosedBefore(h)
                       /\ push' = [push EXCEPT ![n] = [handle |-> h, late |-> h \notin live]]
  BY DEF RouterPush
<1>2. /\ push'[n].handle = h /\ (push'[n].late \/ h \in live)
      /\ \A k \in Pushes : k # n => push'[k] = push[k]
  BY <1>1 DEF IInv, TypeOK, PeerTypeOK
<1>3. Made(h)
  BY <1>1 DEF HInv, KnownCalls, ClosedBefore, Made
<1>4. PICK L \in Nat : L = Len(fromRouter)
  BY DEF IInv, TypeOK, PeerTypeOK
<1>5. PICK m : m = Pushed(n) /\ m.type = "push" /\ m.n = n
  <2>1. Pushed(n).type = "push" /\ Pushed(n).n = n
    BY DEF Pushed
  <2> QED
    BY <2>1
<1>6. fromRouter' = Append(fromRouter, m) /\ fromRouter'[L + 1] = m
  <2>1. fromRouter' = Append(fromRouter, m)
    BY <1>0, <1>5
  <2> QED
    BY <1>4, <2>1, Added
<1>7. \A g \in Ops : ~(Closes(L + 1, g)')
  BY <1>5, <1>6 DEF Closes
<1>8. \A i \in 1..L : fromRouter[i].type = "push" =>
         push'[fromRouter[i].n] = push[fromRouter[i].n]
  <2> SUFFICES ASSUME NEW i \in 1..Len(fromRouter), fromRouter[i].type = "push"
               PROVE  push'[fromRouter[i].n] = push[fromRouter[i].n]
    BY <1>4
  <2>1. fromRouter[i].n \in Pushes /\ push[fromRouter[i].n].handle # NoOp
    BY UnderWay DEF HInv, PushedOnce
  <2> QED
    BY <1>0, <1>2, <2>1 DEF NoPush
<1>9. live \subseteq Ops
  BY DEF IInv, TypeOK, PeerTypeOK
<1>10. Handlers'
  <2>1. \A g \in live' : g \in live /\ ~(Closes(L + 1, g)')
    BY <1>0, <1>7, <1>9
  <2>2. m.type # "reply" /\ (push'[m.n].late \/ push'[m.n].handle \in live)
    BY <1>2, <1>5
  <2> QED
    BY <1>0, <1>4, <1>6, <1>7, <1>8, <2>1, <2>2, HandlersGrow DEF HInv
<1>11. \A k \in Pushes : push'[k] = push[k] \/
          (push[k] = NoPush /\ push'[k].handle # NoOp /\ Made(push'[k].handle))
  BY <1>0, <1>2, <1>3, PeerAssumption
<1>12. \A g \in live' : pc[g] # "idle"
  BY <1>0 DEF HInv, KnownCalls
<1>13. /\ m.type # "reply" /\ m.type # "goodbye"
       /\ push[m.n] = NoPush /\ push'[m.n].handle # NoOp /\ m.n \in Pushes
  BY <1>0, <1>2, <1>5, PeerAssumption
<1> QED
  BY <1>0, <1>4, <1>6, <1>10, <1>11, <1>12, <1>13, MessageAdded

\* The router says GOODBYE, once.
LEMMA RouterGoodbyeHandlers ==
    ASSUME IInv, IInv', HInv, RouterGoodbye, UNCHANGED localVars
    PROVE  HInv'
<1>0. /\ RouterUp /\ UNCHANGED <<kind, rid, target, toRouter, live, push>> /\ goodbyeSent'
      /\ fromRouter' = Append(fromRouter, Goodbye) /\ Goodbye.type = "goodbye"
      /\ UNCHANGED <<pc, requests, future, endpoints, cancelled, goodbyes, task, reader>>
  BY DEF RouterGoodbye, requestVars, localVars, dictVars, leaveVars, Goodbye
<1>1. PICK L \in Nat : L = Len(fromRouter)
  BY DEF IInv, TypeOK, PeerTypeOK
<1>2. PICK m : m = Goodbye
  OBVIOUS
<1>3. fromRouter' = Append(fromRouter, m) /\ m.type = "goodbye"
  BY <1>0, <1>2
<1>4. fromRouter'[L + 1] = m
  BY <1>1, <1>3, Added
<1>5. \A g \in Ops : ~(Closes(L + 1, g)')
  BY <1>3, <1>4 DEF Closes
<1>6. live \subseteq Ops
  BY DEF IInv, TypeOK, PeerTypeOK
<1>7. Handlers'
  <2>1. \A g \in live' : g \in live /\ ~(Closes(L + 1, g)')
    BY <1>0, <1>5, <1>6
  <2> QED
    BY <1>0, <1>1, <1>3, <1>5, <2>1, HandlersGrow DEF HInv
<1>8. \A g \in live' : pc[g] # "idle"
  BY <1>0 DEF HInv, KnownCalls
<1> QED
  BY <1>0, <1>1, <1>3, <1>7, <1>8, MessageAdded

-----------------------------------------------------------------------------
(* The handlers are in place in every state.                               *)

LEMMA InitHandlers ==
    ASSUME Init
    PROVE  HInv
<1> USE PeerAssumption DEF Init, PeerInit
<1>1. /\ Len(fromRouter) = 0 /\ \A i \in 1..Len(fromRouter) : FALSE
      /\ live = {} /\ \A o \in Ops : ~Resolved(o)
  BY DEF Resolved, Unset
<1>2. AnsweredOnce /\ PushedOnce /\ GoodbyeLast
  BY <1>1 DEF AnsweredOnce, PushedOnce, GoodbyeLast, NoPush
<1>3. Resolution /\ GivenUp
  BY <1>1 DEF Resolution, GivenUp, Unset
<1>4. KnownCalls
  BY <1>1 DEF KnownCalls, Made, Unset, NoPush
<1>5. Handlers
  BY <1>1 DEF Handlers
<1>6. CrashExplained
  BY DEF CrashExplained
<1> QED
  BY <1>2, <1>3, <1>4, <1>5, <1>6 DEF HInv

\* Every step keeps the handlers in place.
LEMMA NextHandlers ==
    ASSUME IInv, HInv, [Next]_vars
    PROVE  HInv'
<1> USE DEF dictVars, leaveVars, netVars, requestVars, routerVars, peerVars
<1>0. IInv'
  BY NextInv
<1>1. ASSUME NEW o \in Ops, UserStep(o)
      PROVE  HInv'
  BY <1>0, <1>1, UserHandlers
<1>2. CASE ReaderReply
  BY <1>0, <1>2, ReplyHandlers
<1>3. CASE ReaderPush
  BY <1>3, PushHandlers
<1>4. CASE ReaderGoodbye
  BY <1>4, GoodbyeHandlers
<1>5. CASE ReaderError \/ CallbackFinish \/ WebSocketNotices
  <2>1. /\ UNCHANGED <<kind, rid, target, pc, requests, toRouter, fromRouter, future, endpoints,
                       cancelled, live, push, goodbyeSent, goodbyes, task>>
        /\ reader' = "crashed" => reader = "crashed"
    BY <1>5 DEF ReaderError, CallbackFinish, WebSocketNotices, AfterLoop
  <2> QED
    BY <2>1, QuietHandlers
<1>6. ASSUME NEW n \in Pushes, TaskFinish(n)
      PROVE  HInv'
  <2>1. PICK v \in {"done", "unanswered"} : task' = [task EXCEPT ![n] = v]
    BY <1>6 DEF TaskFinish
  <2>2. /\ UNCHANGED <<kind, rid, target, pc, requests, toRouter, fromRouter, future, endpoints,
                       cancelled, live, push, goodbyeSent, goodbyes, reader>>
        /\ task[n] = "running"
    BY <1>6 DEF TaskFinish
  <2>3. \A k \in Pushes : task'[k] = task[k] \/
            (task[k] \notin {"none", "orphan"} /\ task'[k] \notin {"none", "orphan"})
    BY <2>1, <2>2 DEF IInv, TypeOK
  <2> QED
    BY <2>2, <2>3, QuietHandlers
<1>7. CASE PeerNext /\ UNCHANGED localVars
  <2>1. ASSUME NEW o \in Ops, RouterAnswers(o)
        PROVE  HInv'
    BY <1>0, <1>7, <2>1, AnswerHandlers
  <2>2. ASSUME NEW n \in Pushes, RouterPush(n)
        PROVE  HInv'
    BY <1>0, <1>7, <2>2, RouterPushHandlers
  <2>3. CASE RouterGoodbye
    BY <1>0, <1>7, <2>3, RouterGoodbyeHandlers
  <2>4. CASE LinkDown
    <3>1. UNCHANGED <<kind, rid, target, pc, requests, toRouter, fromRouter, future, endpoints,
                      cancelled, live, push, goodbyeSent, goodbyes, task, reader>>
      BY <1>7, <2>4 DEF LinkDown, localVars
    <3> QED
      BY <3>1, QuietHandlers
  <2> QED
    BY <1>7, <2>1, <2>2, <2>3, <2>4 DEF PeerNext
<1>8. CASE UNCHANGED vars
  <2>1. UNCHANGED <<kind, rid, target, pc, requests, toRouter, fromRouter, future, endpoints,
                    cancelled, live, push, goodbyeSent, goodbyes, task, reader>>
    BY <1>8 DEF vars, localVars
  <2> QED
    BY <2>1, QuietHandlers
<1> QED
  BY <1>1, <1>2, <1>3, <1>4, <1>5, <1>6, <1>7, <1>8 DEF Next, ReaderStep

\* With a router that follows the protocol an exception ends the receive loop for three
\* reasons only: a push for an id that is closed (async_session.py:149 and 165 have no
\* try), the answer to a call whose caller gave up, a GOODBYE for a goodbye future that
\* is cancelled, by a timeout or by the caller of a leave().  In particular it never dies
\* of a reply without its entry, or of a confirmed close without its handler.
THEOREM AsyncSessionCrashExplained == Spec => []CrashExplained
<1>1. Init => IInv /\ HInv
  BY InitInv, InitHandlers
<1>2. IInv /\ HInv /\ [Next]_vars => IInv' /\ HInv'
  BY NextInv, NextHandlers
<1>3. HInv => CrashExplained
  BY DEF HInv
<1> QED
  BY <1>1, <1>2, <1>3, PTL DEF Spec

=============================================================================
