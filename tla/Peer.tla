-------------------------------- MODULE Peer --------------------------------
(***************************************************************************)
(* The router at the other end of a client session, and the connection     *)
(* between them: external to the session modules, which extend this one.   *)
(* The router may answer open requests in any order, with success or an    *)
(* error; it pushes INVOCATION and EVENT messages for the ids it considers *)
(* open; it may say GOODBYE, once, after which it closes the connection;   *)
(* and the connection may be lost at any time.                             *)
(*                                                                         *)
(* An element of Ops is one API call of the session and stands for its     *)
(* request.  A registration or subscription id is represented by the call  *)
(* whose request created it.                                               *)
(***************************************************************************)
EXTENDS Naturals, Sequences

CONSTANTS
    Ops,       \* API calls made on the session
    Pushes,    \* INVOCATION and EVENT messages the router may send
    IdMax,     \* bound on the request ids a session uses (see IdGen)
    LateKinds, \* ids for which a push may come after their close was confirmed
    NoOp       \* "no call"

ReplyKinds == {"call", "register", "unregister", "subscribe", "unsubscribe", "publish"}
OpenKinds  == {"register", "subscribe"}
CloseKinds == {"unregister", "unsubscribe"}
Kinds      == ReplyKinds \cup {"notify", "leave"}   \* notify: publish without acknowledge
Keys       == ReplyKinds \X (1..IdMax)              \* the six *_requests dictionaries

ASSUME PeerAssumption ==
    /\ NoOp \notin Ops
    /\ IdMax \in Nat \ {0}
    /\ LateKinds \subseteq OpenKinds

VARIABLES
    kind,        \* of each call, its method,
    rid,         \*   its request id,
    target,      \*   and the id it closes; for leave, the goodbye future it waits on
    link,        \* the connection: "up" or "down"
    toRouter,    \* requests sent and not answered
    fromRouter,  \* messages the router sent, oldest first
    push,        \* the pushed messages: id they are for, sent after its close?
    live,        \* ids the router considers open
    goodbyeSent  \* the router said GOODBYE

requestVars == <<kind, rid, target>>
routerVars  == <<push, live, goodbyeSent>>
netVars     == <<link, toRouter, fromRouter, routerVars>>
peerVars    == <<requestVars, netVars>>

NoPush == [handle |-> NoOp, late |-> FALSE]

\* `op' is the call the router answers; no code reads it, the properties compare it
\* with the call that gets the answer.
Reply(o, ok, h) ==
    [type |-> "reply", key |-> <<kind[o], rid[o]>>, op |-> o, ok |-> ok, handle |-> h]
Pushed(n) == [type |-> "push", n |-> n]
Goodbye   == [type |-> "goodbye"]
Messages  ==
    [type : {"reply"}, key : Keys, op : Ops, ok : BOOLEAN, handle : Ops \cup {NoOp}]
        \cup [type : {"push"}, n : Pushes] \cup {Goodbye}

PeerInit ==
    /\ kind = [o \in Ops |-> "call"]
    /\ rid = [o \in Ops |-> 0]
    /\ target = [o \in Ops |-> NoOp]
    /\ link = "up"
    /\ toRouter = {}
    /\ fromRouter = <<>>
    /\ push = [n \in Pushes |-> NoPush]
    /\ live = {}
    /\ goodbyeSent = FALSE

PeerTypeOK ==
    /\ kind \in [Ops -> Kinds]
    /\ rid \in [Ops -> 0..IdMax]
    /\ target \in [Ops -> Ops \cup {NoOp}]
    /\ link \in {"up", "down"}
    /\ toRouter \subseteq Ops
    /\ fromRouter \in Seq(Messages)
    /\ push \in [Pushes -> [handle : Ops \cup {NoOp}, late : BOOLEAN]]
    /\ live \subseteq Ops
    /\ goodbyeSent \in BOOLEAN

\* A message the session writes gets lost when the connection is gone.
Transmit(o) == toRouter' = IF link = "up" THEN toRouter \cup {o} ELSE toRouter

-----------------------------------------------------------------------------

RouterUp == link = "up" /\ ~goodbyeSent

\* The id a successful answer carries: a fresh one, or, for a topic the
\* session already subscribes to, the id of that subscription.
AnswerHandles(o) ==
    CASE kind[o] = "register"  -> {o}
      [] kind[o] = "subscribe" -> {o} \cup {h \in live : kind[h] = "subscribe"}
      [] OTHER -> {NoOp}

LiveAfter(o, h) ==
    CASE kind[o] \in OpenKinds  -> live \cup {h}
      [] kind[o] \in CloseKinds -> live \ {target[o]}
      [] OTHER -> live

RouterAccept(o) ==
    /\ RouterUp
    /\ o \in toRouter
    /\ kind[o] \in ReplyKinds
    /\ kind[o] \in CloseKinds => target[o] \in live
    /\ \E h \in AnswerHandles(o) :
          /\ fromRouter' = Append(fromRouter, Reply(o, TRUE, h))
          /\ live' = LiveAfter(o, h)
    /\ toRouter' = toRouter \ {o}
    /\ UNCHANGED <<requestVars, link, push, goodbyeSent>>

RouterRefuse(o) ==
    /\ RouterUp
    /\ o \in toRouter
    /\ kind[o] \in ReplyKinds
    /\ fromRouter' = Append(fromRouter, Reply(o, FALSE, NoOp))
    /\ toRouter' = toRouter \ {o}
    /\ UNCHANGED <<requestVars, link, routerVars>>

\* An EVENT on its way to the session may be overtaken by UNSUBSCRIBED.
ClosedBefore(h) == \E p \in Ops : kind[p] \in CloseKinds /\ target[p] = h

RouterPush(n) ==
    /\ RouterUp
    /\ push[n] = NoPush
    /\ \E h \in Ops :
          /\ h \in live \/ (ClosedBefore(h) /\ kind[h] \in LateKinds)
          /\ push' = [push EXCEPT ![n] = [handle |-> h, late |-> h \notin live]]
    /\ fromRouter' = Append(fromRouter, Pushed(n))
    /\ UNCHANGED <<requestVars, link, toRouter, live, goodbyeSent>>

\* In answer to a GOODBYE or of the router's own accord.
RouterGoodbye ==
    /\ RouterUp
    /\ goodbyeSent' = TRUE
    /\ fromRouter' = Append(fromRouter, Goodbye)
    /\ UNCHANGED <<requestVars, link, toRouter, push, live>>

LinkDown ==
    /\ link = "up"
    /\ link' = "down"
    /\ UNCHANGED <<requestVars, toRouter, fromRouter, routerVars>>

RouterClose == goodbyeSent /\ LinkDown

RouterAnswers(o) == RouterAccept(o) \/ RouterRefuse(o)

PeerNext ==
    \/ \E o \in Ops : RouterAnswers(o)
    \/ \E n \in Pushes : RouterPush(n)
    \/ RouterGoodbye
    \/ LinkDown
=============================================================================
