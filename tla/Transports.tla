----------------------------- MODULE Transports -----------------------------
(***************************************************************************)
(* The two raw socket transports side by side: a behaviour is that of one  *)
(* of them, on the threads of RawSocket or on the event loop of            *)
(* AsyncRawSocket, and what a session expects of its transport is stated   *)
(* once for both.  The two modules share their variables; stream holds the *)
(* pieces of frames in the one and whole frames in the other.              *)
(***************************************************************************)
EXTENDS RawSocket

VARIABLES transport,  \* "threads" or "asyncio"
          cancelled   \* asyncio: the pings whose future is cancelled

Asyncio == INSTANCE AsyncRawSocket

transportVars == <<vars, transport, cancelled>>

Threads(A) == transport = "threads" /\ A /\ UNCHANGED <<transport, cancelled>>
EventLoop(A) ==
    transport = "asyncio" /\ A /\ UNCHANGED <<transport, lock, answering>>

TransportsInit ==
    \/ transport = "threads" /\ Init /\ cancelled = {}
    \/ transport = "asyncio" /\ Asyncio!Init /\ lock = NoOne /\ answering = NoOne

TransportsNext == Threads(Next) \/ EventLoop(Asyncio!Next)

\* Threads and coroutines that can run do; a lock that is free again and again is won
\* in the end.  Nothing is asked of the peer.
TransportsSpec ==
    /\ TransportsInit /\ [][TransportsNext]_transportVars
    /\ \A o \in Ops : /\ SF_transportVars(Threads(Locked(o)))
                      /\ WF_transportVars(Threads(CallStep(o)))
                      /\ WF_transportVars(EventLoop(Asyncio!CallStep(o)))
    /\ SF_transportVars(Threads(PongLocked))
    /\ WF_transportVars(Threads(ReaderStep))
    /\ WF_transportVars(EventLoop(Asyncio!ReaderStep))

-----------------------------------------------------------------------------
(* Properties                                                              *)

Both(P, Q) == IF transport = "threads" THEN P ELSE Q

\* The peer sees whole frames, however many threads write (transports.py:152); a
\* coroutine hands over a frame in one piece.
WholeFrames == transport = "threads" => FramesWhole

\* The numbers of the peer's frames of one kind, in their order, once each and
\* without a gap.
InOrder(kind, numbers) ==
    /\ \A i \in DOMAIN numbers :
          numbers[i] \in 1..Len(peerSent) /\ peerSent[numbers[i]].kind = kind
    /\ \A i, j \in DOMAIN numbers : i < j => numbers[i] < numbers[j]
    /\ \A k \in 1..Len(peerSent), j \in DOMAIN numbers :
          peerSent[k].kind = kind /\ k < numbers[j] => \E i \in DOMAIN numbers : numbers[i] = k

\* What the peer sends is dealt with in its order: its pings are answered once each as
\* they came, and no message is lost, repeated or overtaken because pings and pongs
\* lie between (transports.py 124-144, 241-271).
FramesInOrder ==
    InOrder("WAMP", delivered) /\ InOrder("PING", Both(Pongs, Asyncio!Pongs))

\* ping() returns only if the peer has read this very ping (transports.py:179, 306).
HonestPings == Both(PingIsHonest, Asyncio!PingIsHonest)

\* read() fails on a connection that is lost or closed, which only the asynchronous
\* transport notes, on a frame it does not know, at the recursion limit, and for a PONG
\* that comes after its ping has timed out, which only the asynchronous transport
\* stumbles over (transports.py:135, 145, 257, 268, 272).
ReadFailures == Both(ReadFailureExplained, Asyncio!ReadFailureExplained)

Blocked == ~Both(HasRoom, Asyncio!HasRoom)

\* Every write and ping ends, whatever becomes of the connection, of the reader and of
\* the other calls, which may hold the lock when they fail; unless the peer keeps the
\* connection and from some moment on reads no more: neither sendall() nor drain() has a
\* timeout, and a ping's covers only the wait for its PONG (transports.py:93, 153, 176, 300).
EveryCallEnds ==
    \A o \in Ops :
        \/ pc[o] \in {"locking", "draining"} ~> pc[o] \in {"returned", "timed_out", "raised"}
        \/ <>[]Blocked
=============================================================================
