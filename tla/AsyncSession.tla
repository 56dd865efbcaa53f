---------------------------- MODULE AsyncSession ----------------------------
(***************************************************************************)
(* The asyncio client session, xconn/async_session.py.                     *)
(*                                                                         *)
(* Every coroutine runs on one event loop: a step is what one coroutine    *)
(* does between two suspensions.  The API coroutines suspend while their   *)
(* write drains and while they await their future; the reader task (_wait) *)
(* suspends only in receive() and in the disconnect callbacks, so a        *)
(* message is processed in one step.  A caller may cancel its call, which  *)
(* cancels the future it awaits.  The ids and the message formats are      *)
(* wampproto's: the router is one that follows the protocol (Peer).        *)
(***************************************************************************)
EXTENDS Peer, FiniteSets

CONSTANTS
    ActiveKinds,     \* the methods the user's coroutines use
    CallersCancel,   \* may a caller cancel a call that has not returned
    HasCallback,     \* is a disconnect callback registered (client.connect does
                     \* it before the reader task first runs)
    FlagFollowsLink  \* is_connected() turns FALSE when the peer goes away:
                     \* TRUE for AsyncWebSocketTransport, FALSE for the raw socket

ASSUME AsyncSessionAssumption ==
    /\ ActiveKinds \subseteq Kinds
    /\ CallersCancel \in BOOLEAN
    /\ HasCallback \in BOOLEAN
    /\ FlagFollowsLink \in BOOLEAN

VARIABLES
    idgen,       \* last id of SessionScopeIDGenerator
    pc,          \* where each API call stands
    future,      \* its future: the router's answer, or Unset
    cancelled,   \* the calls whose future is cancelled
    requests,    \* the six *_requests dictionaries: key -> call, or NoOp
    endpoints,   \* _registrations and _subscriptions: id -> handler, or NoOp
    goodbyeRequest, \* the call that made the current _goodbye_request
    goodbyes,    \* the goodbye futures that are resolved
    reader,      \* the reader task
    task,        \* what became of each pushed message
    connected    \* transport.is_connected()

dictVars  == <<future, cancelled, requests, endpoints>>
leaveVars == <<goodbyeRequest, goodbyes>>
localVars == <<idgen, pc, dictVars, leaveVars, reader, task, connected>>
vars      == <<localVars, peerVars>>

Unset == [op |-> NoOp, ok |-> FALSE, handle |-> NoOp]
Resolved(o) == future[o].op # NoOp

Init ==
    /\ PeerInit
    /\ idgen = 0
    /\ pc = [o \in Ops |-> "idle"]
    /\ future = [o \in Ops |-> Unset]
    /\ cancelled = {}
    /\ requests = [k \in Keys |-> NoOp]
    /\ endpoints = [h \in Ops |-> NoOp]
    /\ goodbyeRequest = NoOp
    /\ goodbyes = {}
    /\ reader = "recv"
    /\ task = [n \in Pushes |-> "none"]
    /\ connected = TRUE

\* A write fails once the transport is known to be closed, may fail as soon as
\* the peer is gone, and may get lost in between.
SendFails == ~connected \/ link = "down"

\* A write that has suspended, and raises when it is resumed.
DrainFails(o) ==
    /\ SendFails
    /\ pc' = [pc EXCEPT ![o] = "raised"]
    /\ connected' = FALSE

-----------------------------------------------------------------------------
(* API coroutines.                                                         *)

\* Faulty: the counter is read and not advanced.
StuckId == IF idgen = 0 THEN 1 ELSE idgen
NextId == idgen + 1

\* An id, the future, its place in the dictionary and the write: no suspension
\* lies between them.  A publish without acknowledge stores nothing.
Start(o, k) ==
    /\ idgen < IdMax
    /\ idgen' = NextId
    /\ kind' = [kind EXCEPT ![o] = k]
    /\ rid' = [rid EXCEPT ![o] = NextId]
    /\ requests' = IF k \in ReplyKinds
                   THEN [requests EXCEPT ![<<k, NextId>>] = o]
                   ELSE requests
    /\ \/ /\ connected
          /\ IF k \in ReplyKinds THEN Transmit(o) ELSE UNCHANGED toRouter
          /\ pc' = [pc EXCEPT ![o] = "sending"]
          /\ UNCHANGED connected
       \/ /\ SendFails
          /\ pc' = [pc EXCEPT ![o] = "raised"]
          /\ connected' = FALSE
          /\ UNCHANGED toRouter
    /\ UNCHANGED <<future, cancelled, endpoints, leaveVars, reader, task, link,
                   fromRouter, routerVars>>

\* call, register, subscribe, publish
Issue(o, k) ==
    /\ pc[o] = "idle"
    /\ Start(o, k)
    /\ UNCHANGED target

\* _unregister, _unsubscribe: the handle of an earlier call that returned.
ClosesWhat(k, p) ==
    /\ pc[p] = "returned"
    /\ <<kind[p], k>> \in {<<"register", "unregister">>, <<"subscribe", "unsubscribe">>}

IssueClose(o, k) ==
    /\ pc[o] = "idle"
    /\ connected
    /\ \E p \in Ops :
          /\ ClosesWhat(k, p)
          /\ target' = [target EXCEPT ![o] = future[p].handle]
    /\ Start(o, k)

RefuseClose(o, k) ==
    /\ pc[o] = "idle"
    /\ ~connected
    /\ \E p \in Ops : ClosesWhat(k, p)
    /\ kind' = [kind EXCEPT ![o] = k]
    /\ pc' = [pc EXCEPT ![o] = "raised"]
    /\ UNCHANGED <<idgen, rid, target, dictVars, leaveVars, reader, task, connected,
                   netVars>>

\* The write has drained: await the future, if there is one.  Or the connection
\* is lost while it drains: the exception leaves the future where it is.
Sent(o) ==
    /\ pc[o] = "sending"
    /\ \/ /\ pc' = [pc EXCEPT ![o] = IF kind[o] = "notify" THEN "returned" ELSE "waiting"]
          /\ UNCHANGED connected
       \/ DrainFails(o)
    /\ UNCHANGED <<idgen, requestVars, dictVars, leaveVars, reader, task, netVars>>

Return(o) ==
    /\ pc[o] = "waiting"
    /\ kind[o] \in ReplyKinds
    /\ Resolved(o)
    /\ pc' = [pc EXCEPT ![o] = IF future[o].ok THEN "returned" ELSE "raised"]
    /\ UNCHANGED <<idgen, requestVars, dictVars, leaveVars, reader, task, connected,
                   netVars>>

\* The future a coroutine awaits: its own, or for leave() the goodbye future.
Awaited(o) == IF kind[o] = "leave" THEN target[o] ELSE o
Settled(f) == Resolved(f) \/ f \in goodbyes

\* The caller gives up (asyncio.wait_for, task.cancel()).  Only a coroutine that
\* awaits its future cancels it; the entry in the dictionary stays either way.
\* leave() swallows a cancellation while it awaits the reader task, and not while
\* it closes the connection.
Cancel(o) ==
    /\ CallersCancel
    /\ \/ pc[o] \in {"sending", "waiting", "leaving", "timed_out"}
       \/ pc[o] = "stopping" /\ connected /\ reader \notin {"crashed", "failed"}
    /\ pc' = [pc EXCEPT ![o] = "cancelled"]
    /\ cancelled' = IF pc[o] = "waiting" /\ ~Settled(Awaited(o))
                    THEN cancelled \cup {Awaited(o)} ELSE cancelled
    /\ UNCHANGED <<idgen, requestVars, future, requests, endpoints, leaveVars, reader,
                   task, connected, netVars>>

-----------------------------------------------------------------------------
(* leave()                                                                 *)

LeaveBegin(o) ==
    /\ pc[o] = "idle"
    /\ goodbyeRequest' = o
    /\ kind' = [kind EXCEPT ![o] = "leave"]
    /\ \/ /\ connected
          /\ Transmit(o)
          /\ pc' = [pc EXCEPT ![o] = "leaving"]
          /\ UNCHANGED connected
       \/ /\ SendFails
          /\ pc' = [pc EXCEPT ![o] = "raised"]
          /\ connected' = FALSE
          /\ UNCHANGED toRouter
    /\ UNCHANGED <<idgen, rid, target, dictVars, goodbyes, reader, task, link,
                   fromRouter, routerVars>>

\* self._goodbye_request is read once the write has drained.
LeaveWait(o) ==
    /\ pc[o] = "leaving"
    /\ \/ /\ target' = [target EXCEPT ![o] = goodbyeRequest]
          /\ pc' = [pc EXCEPT ![o] = "waiting"]
          /\ UNCHANGED connected
       \/ DrainFails(o) /\ UNCHANGED target
    /\ UNCHANGED <<idgen, kind, rid, dictVars, leaveVars, reader, task, netVars>>

\* Faulty: the goodbye future is awaited without wait_for.
LeaveWaitsForever(o) == FALSE

\* wait_for times out: it cancels the goodbye future, and leave() goes on in a
\* later turn of the loop.
LeaveTimeout(o) ==
    /\ pc[o] = "waiting"
    /\ kind[o] = "leave"
    /\ target[o] \notin goodbyes \cup cancelled
    /\ cancelled' = cancelled \cup {target[o]}
    /\ pc' = [pc EXCEPT ![o] = "timed_out"]
    /\ UNCHANGED <<idgen, requestVars, future, requests, endpoints, leaveVars, reader,
                   task, connected, netVars>>

\* Another leave() that awaits the same future has cancelled it: CancelledError.
LeaveCancelled(o) ==
    /\ pc[o] = "waiting"
    /\ kind[o] = "leave"
    /\ target[o] \in cancelled
    /\ pc' = [pc EXCEPT ![o] = "raised"]
    /\ UNCHANGED <<idgen, requestVars, dictVars, leaveVars, reader, task, connected,
                   netVars>>

\* Faulty: the reader is not cancelled.
LeaveKeepsReader(o) ==
    /\ \/ pc[o] = "timed_out"
       \/ pc[o] = "waiting" /\ kind[o] = "leave" /\ target[o] \in goodbyes
    /\ pc' = [pc EXCEPT ![o] = "stopping"]
    /\ UNCHANGED <<idgen, requestVars, dictVars, leaveVars, reader, task, connected, netVars>>

\* self.wait_task.cancel(): the reader processes no further message, and a
\* disconnect callback that runs is cancelled with it.
LeaveStopReader(o) ==
    /\ \/ pc[o] = "timed_out"
       \/ pc[o] = "waiting" /\ kind[o] = "leave" /\ target[o] \in goodbyes
    /\ reader' = IF reader \in {"recv", "callbacks"} THEN "cancelled" ELSE reader
    /\ pc' = [pc EXCEPT ![o] = "stopping"]
    /\ UNCHANGED <<idgen, requestVars, dictVars, leaveVars, task, connected, netVars>>

\* `await self.wait_task' raises again what ended the reader; otherwise close.
LeaveClose(o) ==
    /\ pc[o] = "stopping"
    /\ IF reader \in {"crashed", "failed"}
       THEN /\ pc' = [pc EXCEPT ![o] = "raised"]
            /\ UNCHANGED <<connected, link>>
       ELSE /\ pc' = [pc EXCEPT ![o] = "returned"]
            /\ connected' = FALSE
            /\ link' = IF connected THEN "down" ELSE link
    /\ UNCHANGED <<idgen, requestVars, dictVars, leaveVars, reader, task, toRouter,
                   fromRouter, routerVars>>

-----------------------------------------------------------------------------
(* _wait and _process_incoming_message, in the reader task.                *)

\* Take a message, process it (FALSE: an exception ends the task), and test
\* is_connected() again.
AfterLoop == IF HasCallback THEN "callbacks" ELSE "ended"

Receive(type, succeeds) ==
    /\ reader = "recv"
    /\ fromRouter # <<>>
    /\ Head(fromRouter).type = type
    /\ fromRouter' = Tail(fromRouter)
    /\ reader' = CASE ~succeeds -> "crashed"
                   [] succeeds /\ connected -> "recv"
                   [] OTHER -> AfterLoop

\* pop() or `del' raises KeyError, set_result() on a cancelled future InvalidStateError.
KeyErrorOn(m, o) ==
    \/ o = NoOp
    \/ m.ok /\ m.key[1] \in CloseKinds /\ endpoints[target[o]] = NoOp

\* Faulty: an ERROR for an unregister or unsubscribe removes the handler as well.
EndpointsAfterAnyClose(m, o) ==
    CASE m.ok /\ m.key[1] \in OpenKinds -> [endpoints EXCEPT ![m.handle] = o]
      [] m.key[1] \in CloseKinds         -> [endpoints EXCEPT ![target[o]] = NoOp]
      [] OTHER -> endpoints

EndpointsAfter(m, o) ==
    CASE m.ok /\ m.key[1] \in OpenKinds  -> [endpoints EXCEPT ![m.handle] = o]
      [] m.ok /\ m.key[1] \in CloseKinds -> [endpoints EXCEPT ![target[o]] = NoOp]
      [] OTHER -> endpoints

\* Faulty: an ERROR is dropped.
FutureAfterSuccess(m, o) ==
    IF m.ok
    THEN [future EXCEPT ![o] = [op |-> m.op, ok |-> m.ok, handle |-> m.handle]]
    ELSE future

FutureAfter(m, o) ==
    [future EXCEPT ![o] = [op |-> m.op, ok |-> m.ok, handle |-> m.handle]]

ReaderReply ==
    /\ reader = "recv" /\ fromRouter # <<>>
    /\ LET m == Head(fromRouter)
           o == requests[m.key]
       IN /\ Receive("reply", ~KeyErrorOn(m, o) /\ o \notin cancelled)
          /\ requests' = [requests EXCEPT ![m.key] = NoOp]
          /\ IF KeyErrorOn(m, o)
             THEN UNCHANGED endpoints
             ELSE endpoints' = EndpointsAfter(m, o)
          /\ IF KeyErrorOn(m, o) \/ o \in cancelled
             THEN UNCHANGED future
             ELSE future' = FutureAfter(m, o)
    /\ UNCHANGED <<idgen, pc, requestVars, cancelled, leaveVars, task, connected, link,
                   toRouter, routerVars>>

\* INVOCATION, EVENT: look the handler up and start a task for it.  Nothing
\* catches the KeyError of an unknown id.
ReaderPush ==
    /\ reader = "recv" /\ fromRouter # <<>> /\ Head(fromRouter).type = "push"
    /\ LET n == Head(fromRouter).n
           found == endpoints[push[n].handle] # NoOp
       IN /\ Receive("push", found)
          /\ task' = [task EXCEPT ![n] = IF found THEN "running" ELSE "orphan"]
    /\ UNCHANGED <<idgen, pc, requestVars, dictVars, leaveVars, connected, link,
                   toRouter, routerVars>>

ReaderGoodbye ==
    /\ Receive("goodbye", goodbyeRequest \notin goodbyes \cup cancelled)
    /\ goodbyes' = IF goodbyeRequest \in cancelled
                   THEN goodbyes ELSE goodbyes \cup {goodbyeRequest}
    /\ UNCHANGED <<idgen, pc, requestVars, dictVars, goodbyeRequest, task, connected,
                   link, toRouter, routerVars>>

\* receive() raises; the raw transport marks itself disconnected as it does.
ReaderError ==
    /\ reader = "recv"
    /\ link = "down"
    /\ reader' = AfterLoop
    /\ connected' = FALSE
    /\ UNCHANGED <<idgen, pc, requestVars, dictVars, leaveVars, task, netVars>>

\* gather() returns, or raises what a disconnect callback raised.
CallbackFinish ==
    /\ reader = "callbacks"
    /\ reader' \in {"ended", "failed"}
    /\ UNCHANGED <<idgen, pc, dictVars, leaveVars, task, connected, peerVars>>

-----------------------------------------------------------------------------

IsInvocation(n) == kind[push[n].handle] = "register"

\* A handler task ends; _handle_invocation writes a YIELD or an ERROR.
TaskFinish(n) ==
    /\ task[n] = "running"
    /\ \/ /\ ~IsInvocation(n) \/ connected
          /\ task' = [task EXCEPT ![n] = "done"]
          /\ UNCHANGED connected
       \/ /\ IsInvocation(n) /\ SendFails
          /\ task' = [task EXCEPT ![n] = "unanswered"]
          /\ connected' = FALSE
    /\ UNCHANGED <<idgen, pc, dictVars, leaveVars, reader, peerVars>>

\* A WebSocket connection learns of the loss on its own.
WebSocketNotices ==
    /\ FlagFollowsLink
    /\ link = "down"
    /\ connected
    /\ connected' = FALSE
    /\ UNCHANGED <<idgen, pc, dictVars, leaveVars, reader, task, peerVars>>

-----------------------------------------------------------------------------

\* What a coroutine does by itself once the user has called it.
CallProceeds(o) ==
    \/ Sent(o) \/ Return(o)
    \/ LeaveWait(o) \/ LeaveTimeout(o) \/ LeaveCancelled(o)
    \/ LeaveStopReader(o) \/ LeaveClose(o)

UserStep(o) ==
    \/ \E k \in ActiveKinds \ (CloseKinds \cup {"leave"}) : Issue(o, k)
    \/ \E k \in ActiveKinds \cap CloseKinds : IssueClose(o, k) \/ RefuseClose(o, k)
    \/ "leave" \in ActiveKinds /\ LeaveBegin(o)
    \/ CallProceeds(o)
    \/ Cancel(o)

ReaderStep == ReaderReply \/ ReaderPush \/ ReaderGoodbye \/ ReaderError

Next ==
    \/ \E o \in Ops : UserStep(o)
    \/ ReaderStep
    \/ CallbackFinish
    \/ \E n \in Pushes : TaskFinish(n)
    \/ WebSocketNotices
    \/ PeerNext /\ UNCHANGED localVars

Spec == Init /\ [][Next]_vars

\* The event loop runs every task that is ready, the router answers what it
\* received and closes the connection after its GOODBYE.
FairSpec ==
    /\ Spec
    /\ \A o \in Ops : WF_vars(CallProceeds(o)) /\ WF_vars(RouterAnswers(o) /\ UNCHANGED localVars)
    /\ WF_vars(ReaderStep)
    /\ WF_vars(CallbackFinish)
    /\ WF_vars(WebSocketNotices)
    /\ \A n \in Pushes : WF_vars(TaskFinish(n))
    /\ WF_vars(RouterClose /\ UNCHANGED localVars)

-----------------------------------------------------------------------------
(* Properties                                                              *)

\* Every variable keeps its type.
TypeOK ==
    /\ PeerTypeOK
    /\ idgen \in 0..IdMax
    /\ pc \in [Ops -> {"idle", "sending", "waiting", "returned", "raised", "cancelled",
                       "leaving", "timed_out", "stopping"}]
    /\ future \in [Ops -> [op : Ops \cup {NoOp}, ok : BOOLEAN, handle : Ops \cup {NoOp}]]
    /\ cancelled \subseteq Ops
    /\ requests \in [Keys -> Ops \cup {NoOp}]
    /\ endpoints \in [Ops -> Ops \cup {NoOp}]
    /\ goodbyeRequest \in Ops \cup {NoOp}
    /\ goodbyes \subseteq Ops \cup {NoOp}
    /\ reader \in {"recv", "callbacks", "ended", "failed", "cancelled", "crashed"}
    /\ task \in [Pushes -> {"none", "running", "done", "unanswered", "orphan"}]
    /\ connected \in BOOLEAN

\* The answer a call gets is the router's answer to that very call, also when
\* other calls have been cancelled and their entries are still in the dictionary.
Correlation == \A o \in Ops : Resolved(o) => future[o].op = o

\* With a router that follows the protocol, an exception ends the receive loop for
\* three reasons only: a push for an id that is closed (async_session.py:149 and 165
\* have no try), the answer to a call whose caller gave up, and a GOODBYE for a
\* goodbye future that is cancelled: its leave() has timed out, or was given up by
\* its caller.  (After the loop a disconnect callback may still raise: "failed".)
CrashExplained ==
    reader = "crashed" =>
        \/ \E n \in Pushes : task[n] = "orphan" /\ push[n].late
        \/ \E o \in cancelled :
              \/ kind[o] = "leave" /\ goodbyeSent
              \/ kind[o] # "leave" /\ pc[o] = "cancelled" /\ requests[<<kind[o], rid[o]>>] = NoOp /\ ~Resolved(o)

\* When a leave() has returned, the connection is closed and the reader is gone,
\* whichever of several leave() calls closed it and however it ended.
LeaveCloses ==
    \A o \in Ops :
        kind[o] = "leave" /\ pc[o] = "returned" =>
            ~connected /\ reader \in {"ended", "cancelled"}

\* A call that waits gets its answer unless the connection is lost or closed, it
\* is cancelled, or the reader is gone.
Answered ==
    \A o \in Ops :
        pc[o] = "waiting" ~>
            pc[o] # "waiting" \/ link = "down" \/ reader \in {"crashed", "cancelled"}

\* leave() comes to an end, also when the router does not answer: it returns, it
\* raises, or its caller gives it up.
LeaveEnds ==
    \A o \in Ops : pc[o] = "leaving" ~> pc[o] \in {"returned", "raised", "cancelled"}

-----------------------------------------------------------------------------
(* What the documentation says, and the code does not do.                  *)

\* "Once the session is established, you can perform WAMP actions"
\* (README.md:137): on an open connection a call is answered.
ActionsArePerformed ==
    \A o \in Ops : pc[o] = "waiting" ~> pc[o] # "waiting" \/ link = "down"
=============================================================================
