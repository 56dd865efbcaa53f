------------------------------- MODULE Session -------------------------------
(***************************************************************************)
(* The synchronous client session, xconn/session.py.                       *)
(*                                                                         *)
(* User threads call the API (call, register, subscribe, ...).  One reader *)
(* thread (_wait) takes messages off the transport and resolves the        *)
(* futures the user threads block on, or hands an INVOCATION or EVENT to   *)
(* the worker pool.  The threads share eight dictionaries, the goodbye     *)
(* future and the transport, with no lock beyond the one in the id         *)
(* generator.  Each API call is issued at most once.                       *)
(***************************************************************************)
EXTENDS Peer, FiniteSets

CONSTANTS
    ActiveKinds,     \* the methods the user threads use
    MaxWorkers,      \* max_workers of the session's executor
    MainEnds,        \* may the main thread end while the session lives: from then on
                     \* submit() of any executor raises
    FlagFollowsLink  \* is_connected() turns FALSE when the peer goes away:
                     \* TRUE for WebSocketTransport, FALSE for the raw socket

ASSUME SessionAssumption ==
    /\ ActiveKinds \subseteq Kinds
    /\ MaxWorkers \in Nat \ {0}
    /\ MainEnds \in BOOLEAN
    /\ FlagFollowsLink \in BOOLEAN

VARIABLES
    idgen,       \* last id of SessionScopeIDGenerator
    pc,          \* where each API call stands
    future,      \* its future: the router's answer, or Unset
    requests,    \* the six *_requests dictionaries: key -> call, or NoOp
    endpoints,   \* _registrations and _subscriptions: id -> handler, or NoOp
    goodbyeRequest, \* the call that made the current _goodbye_request
    goodbyes,    \* the goodbye futures that are resolved
    reader,      \* where the reader thread stands
    task,        \* what became of each pushed message
    callback,    \* the disconnect callback
    connected    \* transport.is_connected()

dictVars   == <<future, requests, endpoints>>
leaveVars  == <<goodbyeRequest, goodbyes>>
localVars  == <<idgen, pc, dictVars, leaveVars, reader, task, callback, connected>>
vars       == <<localVars, peerVars>>

Unset == [op |-> NoOp, ok |-> FALSE, handle |-> NoOp]
Resolved(o) == future[o].op # NoOp

Init ==
    /\ PeerInit
    /\ idgen = 0
    /\ pc = [o \in Ops |-> "idle"]
    /\ future = [o \in Ops |-> Unset]
    /\ requests = [k \in Keys |-> NoOp]
    /\ endpoints = [h \in Ops |-> NoOp]
    /\ goodbyeRequest = NoOp
    /\ goodbyes = {}
    /\ reader = "check"
    /\ task = [n \in Pushes |-> "none"]
    /\ callback = "none"
    /\ connected = TRUE

-----------------------------------------------------------------------------
(* The transport, as the session uses it.                                  *)

\* A write fails once the transport is known to be closed, and may fail as
\* soon as the peer is gone; it may also vanish into a connection that is
\* gone without the transport having noticed.
SendFails == ~connected \/ link = "down"

\* Faulty: leave() forgets to close.
CloseNothing == UNCHANGED <<connected, link>>

\* transport.close().  Closing a raw socket does not reliably wake a thread
\* that is blocked in recv() on it, and the connection stays up until it does.
Close ==
    /\ connected' = FALSE
    /\ link' \in IF FlagFollowsLink \/ reader # "recv" THEN {"down"} ELSE {"down", link}

-----------------------------------------------------------------------------
(* API calls, on the threads of the user.                                  *)

\* Faulty: the counter is read and not advanced.
StuckId == IF idgen = 0 THEN 1 ELSE idgen

NextId == idgen + 1

\* call, register, subscribe, publish: take an id and build the message.
Issue(o, k) ==
    /\ pc[o] = "idle"
    /\ idgen < IdMax
    /\ idgen' = NextId
    /\ rid' = [rid EXCEPT ![o] = NextId]
    /\ kind' = [kind EXCEPT ![o] = k]
    /\ pc' = [pc EXCEPT ![o] = "allocated"]
    /\ UNCHANGED <<target, dictVars, leaveVars, reader, task, callback, connected,
                   netVars>>

\* _unregister, _unsubscribe: the handle of an earlier call that returned.
ClosesWhat(k, p) ==
    /\ pc[p] = "returned"
    /\ <<kind[p], k>> \in {<<"register", "unregister">>, <<"subscribe", "unsubscribe">>}

IssueClose(o, k) ==
    /\ pc[o] = "idle"
    /\ connected
    /\ idgen < IdMax
    /\ \E p \in Ops :
          /\ ClosesWhat(k, p)
          /\ target' = [target EXCEPT ![o] = future[p].handle]
    /\ idgen' = NextId
    /\ rid' = [rid EXCEPT ![o] = NextId]
    /\ kind' = [kind EXCEPT ![o] = k]
    /\ pc' = [pc EXCEPT ![o] = "allocated"]
    /\ UNCHANGED <<dictVars, leaveVars, reader, task, callback, connected, netVars>>

RefuseClose(o, k) ==
    /\ pc[o] = "idle"
    /\ ~connected
    /\ \E p \in Ops : ClosesWhat(k, p)
    /\ kind' = [kind EXCEPT ![o] = k]
    /\ pc' = [pc EXCEPT ![o] = "raised"]
    /\ UNCHANGED <<idgen, rid, target, dictVars, leaveVars, reader, task, callback,
                   connected, netVars>>

\* self._x_requests[request_id] = future
Store(o) ==
    /\ pc[o] = "allocated"
    /\ kind[o] \in ReplyKinds
    /\ requests' = [requests EXCEPT ![<<kind[o], rid[o]>>] = o]
    /\ pc' = [pc EXCEPT ![o] = "stored"]
    /\ UNCHANGED <<idgen, requestVars, future, endpoints, leaveVars, reader, task,
                   callback, connected, netVars>>

\* self._base_session.send(data), then f.result()
Send(o) ==
    /\ pc[o] = "stored"
    /\ \/ /\ connected
          /\ Transmit(o)
          /\ pc' = [pc EXCEPT ![o] = "waiting"]
          /\ UNCHANGED connected
       \/ /\ SendFails
          /\ pc' = [pc EXCEPT ![o] = "raised"]
          /\ connected' = FALSE
          /\ UNCHANGED toRouter
    /\ UNCHANGED <<idgen, requestVars, dictVars, leaveVars, reader, task, callback, link,
                   fromRouter, routerVars>>

\* publish without acknowledge: nothing is stored, nothing is awaited.
SendUnacknowledged(o) ==
    /\ pc[o] = "allocated"
    /\ kind[o] = "notify"
    /\ \/ /\ connected
          /\ pc' = [pc EXCEPT ![o] = "returned"]
          /\ UNCHANGED connected
       \/ /\ SendFails
          /\ pc' = [pc EXCEPT ![o] = "raised"]
          /\ connected' = FALSE
    /\ UNCHANGED <<idgen, requestVars, dictVars, leaveVars, reader, task, callback,
                   netVars>>

\* f.result() returns or raises once the future is set.
Return(o) ==
    /\ pc[o] = "waiting"
    /\ kind[o] \in ReplyKinds
    /\ Resolved(o)
    /\ pc' = [pc EXCEPT ![o] = IF future[o].ok THEN "returned" ELSE "raised"]
    /\ UNCHANGED <<idgen, requestVars, dictVars, leaveVars, reader, task, callback,
                   connected, netVars>>

-----------------------------------------------------------------------------
(* leave()                                                                 *)

LeaveBegin(o) ==
    /\ pc[o] = "idle"
    /\ "leave" \in ActiveKinds
    /\ goodbyeRequest' = o
    /\ kind' = [kind EXCEPT ![o] = "leave"]
    /\ pc' = [pc EXCEPT ![o] = "leaving"]
    /\ UNCHANGED <<idgen, rid, target, dictVars, goodbyes, reader, task, callback,
                   connected, netVars>>

\* A failing send leaves the transport as it is: it is outside the try.
LeaveSend(o) ==
    /\ pc[o] = "leaving"
    /\ \/ /\ connected
          /\ Transmit(o)
          /\ pc' = [pc EXCEPT ![o] = "goodbye"]
          /\ UNCHANGED connected
       \/ /\ SendFails
          /\ pc' = [pc EXCEPT ![o] = "raised"]
          /\ connected' = FALSE
          /\ UNCHANGED toRouter
    /\ UNCHANGED <<idgen, requestVars, dictVars, leaveVars, reader, task, callback, link,
                   fromRouter, routerVars>>

\* self._goodbye_request is read again here: it may be another call's.
LeaveWait(o) ==
    /\ pc[o] = "goodbye"
    /\ target' = [target EXCEPT ![o] = goodbyeRequest]
    /\ pc' = [pc EXCEPT ![o] = "waiting"]
    /\ UNCHANGED <<idgen, kind, rid, dictVars, leaveVars, reader, task, callback,
                   connected, netVars>>

\* result(timeout=10) returns, or gives up; `finally' closes in both cases.
LeaveReturn(o) ==
    /\ pc[o] = "waiting"
    /\ kind[o] = "leave"
    /\ \/ /\ target[o] \in goodbyes
          /\ pc' = [pc EXCEPT ![o] = "returned"]
       \/ /\ target[o] \notin goodbyes
          /\ pc' = [pc EXCEPT ![o] = "raised"]
    /\ Close
    /\ UNCHANGED <<idgen, requestVars, dictVars, leaveVars, reader, task, callback,
                   toRouter, fromRouter, routerVars>>

-----------------------------------------------------------------------------
(* _wait and _process_incoming_message, on the reader thread.              *)

ReaderCheck ==
    /\ reader = "check"
    /\ reader' = IF connected THEN "recv" ELSE "shutdown"
    /\ UNCHANGED <<idgen, pc, requestVars, dictVars, leaveVars, task, callback, connected,
                   netVars>>

Receive(type) ==
    /\ reader = "recv"
    /\ fromRouter # <<>>
    /\ Head(fromRouter).type = type
    /\ fromRouter' = Tail(fromRouter)

\* pop(request_id) or the `del' after it raises KeyError.
KeyErrorOn(m, o) ==
    \/ o = NoOp
    \/ m.ok /\ m.key[1] \in CloseKinds /\ endpoints[target[o]] = NoOp

\* Faulty: an ERROR for an unregister or unsubscribe removes the handler as well.
EndpointsAfterAnyClose(m, o) ==
    CASE m.ok /\ m.key[1] \in OpenKinds -> [endpoints EXCEPT ![m.handle] = o]
      [] m.key[1] \in CloseKinds         -> [endpoints EXCEPT ![target[o]] = NoOp]
      [] OTHER -> endpoints

EndpointsAfter(m, o) ==
    CASE m.ok /\ m.key[1] \in OpenKinds  -> [endpoints EXCEPT ![m.handle] = o]
      [] m.ok /\ m.key[1] \in CloseKinds -> [endpoints EXCEPT ![target[o]] = NoOp]
      [] OTHER -> endpoints

\* Faulty: an ERROR is dropped.
FutureAfterSuccess(m, o) ==
    IF m.ok
    THEN [future EXCEPT ![o] = [op |-> m.op, ok |-> m.ok, handle |-> m.handle]]
    ELSE future

FutureAfter(m, o) ==
    [future EXCEPT ![o] = [op |-> m.op, ok |-> m.ok, handle |-> m.handle]]

\* REGISTERED, UNREGISTERED, RESULT, SUBSCRIBED, UNSUBSCRIBED, PUBLISHED, ERROR:
\* pop the request, update the handlers, set the future.  _process_incoming_message
\* is outside the try of _wait: an exception ends the thread.
ReaderReply ==
    /\ Receive("reply")
    /\ LET m == Head(fromRouter)
           o == requests[m.key]
       IN /\ requests' = [requests EXCEPT ![m.key] = NoOp]
          /\ IF KeyErrorOn(m, o)
             THEN /\ reader' = "crashed"
                  /\ UNCHANGED <<endpoints, future>>
             ELSE /\ reader' = "check"
                  /\ endpoints' = EndpointsAfter(m, o)
                  /\ future' = FutureAfter(m, o)
    /\ UNCHANGED <<idgen, pc, requestVars, leaveVars, task, callback, connected, link,
                   toRouter, routerVars>>

IsInvocation(n) == kind[push[n].handle] = "register"

\* An executor that has refused work goes on refusing it.
NoNewWork == \E n \in Pushes : task[n] = "refused"

\* INVOCATION, EVENT with a handler: submit it to the executor.
ReaderDispatch ==
    /\ Receive("push")
    /\ ~NoNewWork
    /\ LET n == Head(fromRouter).n
       IN /\ endpoints[push[n].handle] # NoOp
          /\ task' = [task EXCEPT ![n] = "queued"]
    /\ reader' = "check"
    /\ UNCHANGED <<idgen, pc, requestVars, dictVars, leaveVars, callback, connected, link,
                   toRouter, routerVars>>

\* Without a handler, or when submit() raises, an EVENT is reported on stdout, an
\* INVOCATION is answered with an ERROR; when that write fails its exception ends
\* the thread.
ReaderUnhandled ==
    /\ Receive("push")
    /\ LET n == Head(fromRouter).n
           found == endpoints[push[n].handle] # NoOp
       IN /\ found => MainEnds
          /\ task' = [task EXCEPT ![n] = IF found THEN "refused" ELSE "orphan"]
          /\ \/ /\ ~IsInvocation(n) \/ connected
                /\ reader' = "check"
                /\ UNCHANGED connected
             \/ /\ IsInvocation(n) /\ SendFails
                /\ reader' = "crashed"
                /\ connected' = FALSE
    /\ UNCHANGED <<idgen, pc, requestVars, dictVars, leaveVars, callback, link, toRouter,
                   routerVars>>

\* Faulty: there is no goodbye future before the first leave().
ReaderGoodbyeUnexpected ==
    /\ Receive("goodbye")
    /\ goodbyes' = goodbyes \cup {goodbyeRequest}
    /\ reader' = IF goodbyeRequest \in goodbyes \cup {NoOp} THEN "crashed" ELSE "check"
    /\ UNCHANGED <<idgen, pc, requestVars, dictVars, goodbyeRequest, task, callback,
                   connected, link, toRouter, routerVars>>

\* Faulty: GOODBYE ends the loop.
ReaderGoodbyeLeaves ==
    /\ Receive("goodbye")
    /\ goodbyes' = goodbyes \cup {goodbyeRequest}
    /\ reader' = "shutdown"
    /\ UNCHANGED <<idgen, pc, requestVars, dictVars, goodbyeRequest, task, callback,
                   connected, link, toRouter, routerVars>>

\* Setting a goodbye future twice raises InvalidStateError.
ReaderGoodbye ==
    /\ Receive("goodbye")
    /\ goodbyes' = goodbyes \cup {goodbyeRequest}
    /\ reader' = IF goodbyeRequest \in goodbyes THEN "crashed" ELSE "check"
    /\ UNCHANGED <<idgen, pc, requestVars, dictVars, goodbyeRequest, task, callback,
                   connected, link, toRouter, routerVars>>

\* receive() raises: the connection is gone, or this end closed it and the
\* rest of the message cannot be read.
ReaderError ==
    /\ reader = "recv"
    /\ link = "down" \/ (~connected /\ fromRouter # <<>>)
    /\ reader' = "shutdown"
    /\ connected' = (connected /\ ~FlagFollowsLink)
    /\ UNCHANGED <<idgen, pc, requestVars, dictVars, leaveVars, task, callback, netVars>>

Cancelled == [n \in Pushes |-> IF task[n] = "queued" THEN "cancelled" ELSE task[n]]

\* Faulty: the callbacks are not run.
ReaderShutdownSilent ==
    /\ reader = "shutdown"
    /\ task' = Cancelled
    /\ reader' = "stopped"
    /\ UNCHANGED <<idgen, pc, requestVars, dictVars, leaveVars, callback, connected, netVars>>

\* executor.shutdown(cancel_futures=True, wait=False), then the callbacks, if any:
\* when submit() raises, its exception ends the thread before _stopped is set.
ReaderShutdown ==
    /\ reader = "shutdown"
    /\ task' = Cancelled
    /\ \/ callback # "registered" /\ reader' = "stopped" /\ UNCHANGED callback
       \/ /\ callback = "registered" /\ ~NoNewWork
          /\ reader' = "callbacks" /\ callback' = "running"
       \/ callback = "registered" /\ MainEnds /\ reader' = "aborted" /\ UNCHANGED callback
    /\ UNCHANGED <<idgen, pc, requestVars, dictVars, leaveVars, connected, netVars>>

\* wait(futures, timeout=1) may give up, but leaving the `with' block joins
\* the pool: _stopped is set only after the callback.
ReaderStop ==
    /\ reader = "callbacks"
    /\ callback = "done"
    /\ reader' = "stopped"
    /\ UNCHANGED <<idgen, pc, requestVars, dictVars, leaveVars, task, callback, connected,
                   netVars>>

-----------------------------------------------------------------------------
(* The disconnect callback and the worker pool.                            *)

\* client.connect registers it after the constructor has started the reader.
RegisterCallback ==
    /\ callback = "none"
    /\ callback' = "registered"
    /\ UNCHANGED <<idgen, pc, requestVars, dictVars, leaveVars, reader, task, connected,
                   netVars>>

CallbackFinish ==
    /\ callback = "running"
    /\ callback' = "done"
    /\ UNCHANGED <<idgen, pc, requestVars, dictVars, leaveVars, reader, task, connected,
                   netVars>>

Running == {n \in Pushes : task[n] = "running"}

FreeWorker == Cardinality(Running) < MaxWorkers

WorkerStart(n) ==
    /\ task[n] = "queued"
    /\ FreeWorker
    /\ task' = [task EXCEPT ![n] = "running"]
    /\ UNCHANGED <<idgen, pc, requestVars, dictVars, leaveVars, reader, callback,
                   connected, netVars>>

\* _handle_event returns; _handle_invocation writes a YIELD or an ERROR.
WorkerFinish(n) ==
    /\ task[n] = "running"
    /\ \/ /\ ~IsInvocation(n)
          /\ task' = [task EXCEPT ![n] = "done"]
          /\ UNCHANGED connected
       \/ /\ IsInvocation(n) /\ connected
          /\ task' = [task EXCEPT ![n] = "done"]
          /\ UNCHANGED connected
       \/ /\ IsInvocation(n) /\ SendFails
          /\ task' = [task EXCEPT ![n] = "unanswered"]
          /\ connected' = FALSE
    /\ UNCHANGED <<idgen, pc, requestVars, dictVars, leaveVars, reader, callback, netVars>>

\* A WebSocket connection learns of the loss on its own.
WebSocketNotices ==
    /\ FlagFollowsLink
    /\ link = "down"
    /\ connected
    /\ connected' = FALSE
    /\ UNCHANGED <<idgen, pc, requestVars, dictVars, leaveVars, reader, task, callback,
                   netVars>>

-----------------------------------------------------------------------------

UserStep(o) ==
    \/ \E k \in ActiveKinds \ (CloseKinds \cup {"leave"}) : Issue(o, k)
    \/ \E k \in ActiveKinds \cap CloseKinds : IssueClose(o, k) \/ RefuseClose(o, k)
    \/ Store(o) \/ Send(o) \/ SendUnacknowledged(o) \/ Return(o)
    \/ LeaveBegin(o) \/ LeaveSend(o) \/ LeaveWait(o) \/ LeaveReturn(o)

\* The part of a call that runs by itself once the user has made it.
CallProceeds(o) ==
    \/ Store(o) \/ Send(o) \/ SendUnacknowledged(o) \/ Return(o)
    \/ LeaveSend(o) \/ LeaveWait(o) \/ LeaveReturn(o)

ReaderStep ==
    \/ ReaderCheck \/ ReaderReply \/ ReaderDispatch \/ ReaderUnhandled
    \/ ReaderGoodbye \/ ReaderError \/ ReaderShutdown \/ ReaderStop

Next ==
    \/ \E o \in Ops : UserStep(o)
    \/ ReaderStep
    \/ RegisterCallback
    \/ CallbackFinish
    \/ \E n \in Pushes : WorkerStart(n) \/ WorkerFinish(n)
    \/ WebSocketNotices
    \/ PeerNext /\ UNCHANGED localVars

Spec == Init /\ [][Next]_vars

\* Threads that can run do run, the disconnect callback returns, the WebSocket
\* library reports the loss of its connection, the router answers what it received
\* and closes the connection after its GOODBYE.  Handlers need not return.
ThreadFairness ==
    /\ \A o \in Ops : WF_vars(CallProceeds(o))
    /\ WF_vars(ReaderStep)
    /\ WF_vars(WebSocketNotices)

RouterFairness ==
    /\ \A o \in Ops : WF_vars(RouterAnswers(o) /\ UNCHANGED localVars)
    /\ WF_vars(RouterClose /\ UNCHANGED localVars)

FairSpec == Spec /\ ThreadFairness /\ RouterFairness /\ WF_vars(CallbackFinish)

-----------------------------------------------------------------------------
(* Properties                                                              *)

\* Every variable keeps its type; an id is 0 until it is taken.
TypeOK ==
    /\ PeerTypeOK
    /\ idgen \in 0..IdMax
    /\ pc \in [Ops -> {"idle", "allocated", "stored", "waiting", "returned", "raised",
                       "leaving", "goodbye"}]
    /\ future \in [Ops -> [op : Ops \cup {NoOp}, ok : BOOLEAN, handle : Ops \cup {NoOp}]]
    /\ requests \in [Keys -> Ops \cup {NoOp}]
    /\ endpoints \in [Ops -> Ops \cup {NoOp}]
    /\ goodbyeRequest \in Ops \cup {NoOp}
    /\ goodbyes \subseteq Ops \cup {NoOp}
    /\ reader \in {"check", "recv", "shutdown", "callbacks", "stopped", "aborted", "crashed"}
    /\ task \in [Pushes -> {"none", "queued", "running", "done", "unanswered",
                            "cancelled", "orphan", "refused"}]
    /\ callback \in {"none", "registered", "running", "done"}
    /\ connected \in BOOLEAN

\* The answer a call gets is the router's answer to that very call, however
\* many threads share the id generator and the dictionaries
\* (session.py: the pop of _process_incoming_message finds the right future).
Correlation == \A o \in Ops : Resolved(o) => future[o].op = o

\* From the moment it is stored until its answer is processed, a call is in the
\* dictionary under its id; so its answer finds it, even one that arrives
\* before send() has returned (session.py: store, then send).
PendingEntry ==
    \A o \in Ops :
        /\ pc[o] \in {"stored", "waiting"}
        /\ kind[o] \in ReplyKinds
        => (requests[<<kind[o], rid[o]>>] = o) = ~Resolved(o)

\* No message of a router that follows the protocol ends the receive loop by an
\* exception, with one exception: the ERROR for an INVOCATION that came after its
\* UNREGISTERED, or when the main thread had ended and the executor refused it,
\* written to a connection that is gone (session.py:158).
ReceiveLoopSurvives ==
    reader = "crashed" =>
        /\ ~connected
        /\ \E n \in Pushes :
              /\ task[n] = "refused" \/ (task[n] = "orphan" /\ push[n].late)
              /\ IsInvocation(n)

\* Once register() or subscribe() has returned, the handler in place for its id is
\* its own, or that of a later subscribe() the router gave the same id: that call
\* has taken the first handler's place (session.py:161), which then gets no event
\* any more.  It is so until the router confirms an unregister() or unsubscribe()
\* of the id, which takes the handler of all these calls away.
HandlerInstalled ==
    \A o \in Ops :
        pc[o] = "returned" /\ kind[o] \in OpenKinds =>
            \/ LET p == endpoints[future[o].handle]
               IN /\ p # NoOp /\ kind[p] = kind[o]
                  /\ future[p].ok /\ future[p].handle = future[o].handle
                  /\ kind[o] = "register" => p = o
            \/ \E p \in Ops : /\ kind[p] \in CloseKinds
                              /\ target[p] = future[o].handle
                              /\ future[p].ok

\* A message the router sent while the id was open always finds its handler.
NoOrphan == \A n \in Pushes : task[n] = "orphan" => push[n].late

\* A call that waits gets its answer, unless the connection is lost or closed.
Answered ==
    \A o \in Ops : pc[o] = "waiting" ~> (pc[o] # "waiting" \/ link = "down" \/ ~connected)

\* A handler that waits for a worker is dropped, and an invocation whose handler ran
\* is left unanswered, only when the connection is lost or closed: no message of the
\* router, and no other call, takes a handler out of a busy pool.
NoneDropped ==
    \A n \in Pushes : task[n] \in {"cancelled", "unanswered"} => link = "down" \/ ~connected

\* leave() ends the session: its reader stops and run_forever returns, unless the
\* reader has crashed (ReceiveLoopSurvives tells when) or, the main thread having
\* ended, could not start the disconnect callback.
LeaveStops ==
    \A o \in Ops :
        (pc[o] = "waiting" /\ kind[o] = "leave") ~> reader \in {"stopped", "aborted", "crashed"}

\* A disconnect callback registered before the reader left its loop runs, however
\* the connection ends, unless the reader has crashed or the main thread has ended.
CallbackRuns ==
    (callback = "registered" /\ link = "down" /\ reader \in {"check", "recv"})
        ~> callback = "done" \/ reader \in {"aborted", "crashed"}
=============================================================================
