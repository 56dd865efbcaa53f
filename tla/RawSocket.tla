------------------------------ MODULE RawSocket ------------------------------
(***************************************************************************)
(* RawSocketTransport of xconn/transports.py: threads that write messages  *)
(* and pings share one socket with the thread that reads it and answers    *)
(* the peer's pings.  sendall() may hand a frame to the kernel in pieces,  *)
(* here its header and its payload; the write lock keeps frames whole.     *)
(***************************************************************************)
EXTENDS Naturals, Sequences

CONSTANTS
    MaxOps,         \* calls of write() and ping()
    MaxPeerFrames,  \* messages and pings the peer sends of its own accord
    RecursionLimit, \* frames one read() may skip before the interpreter gives up
    Capacity,       \* frames that may be under way before sendall() blocks
    Reader,         \* the thread that calls read()
    NoOne

ASSUME RawSocketAssumption ==
    /\ MaxOps \in Nat /\ MaxPeerFrames \in Nat
    /\ Reader \notin 1..MaxOps /\ NoOne \notin 1..MaxOps /\ Reader # NoOne
    /\ RecursionLimit \in Nat \ {0} /\ Capacity \in Nat \ {0}

VARIABLES
    pc,        \* where each call stands
    call,      \* which method it is
    lock,      \* holder of _write_lock
    stream,    \* the pieces written to the socket, oldest first
    pending,   \* _pending_pings: the pings whose PONG has not come
    result,    \* the pings whose future is set
    reader,    \* where read() stands
    answering, \* the PING it answers
    depth,     \* frames this read() has skipped, one recursive call each
    delivered, \* the messages read() has returned
    connected, \* is_connected()
    link,      \* the connection
    incoming,  \* frames on their way from the peer
    peerRead,  \* pieces the peer has read
    peerSent   \* the frames it has sent of its own accord

callVars == <<pc, call, pending, result>>
readVars == <<reader, answering, depth, delivered>>
peerVars == <<incoming, peerRead, peerSent>>
vars == <<callVars, lock, stream, readVars, connected, link, peerVars>>

\* The calls, and the peer's frames, are numbered in the order in which they begin.
Ops == 1..MaxOps

Frame(kind, id) == [kind |-> kind, id |-> id]
Frames == [kind : {"WAMP", "PING", "PONG", "UNKNOWN"}, id : Nat]

Init ==
    /\ pc = [o \in Ops |-> "idle"]
    /\ call = [o \in Ops |-> "WAMP"]
    /\ lock = NoOne
    /\ stream = <<>>
    /\ pending = {}
    /\ result = {}
    /\ reader = "read"
    /\ answering = NoOne
    /\ depth = 0
    /\ delivered = <<>>
    /\ connected = TRUE
    /\ link = "up"
    /\ incoming = <<>>
    /\ peerRead = 0
    /\ peerSent = <<>>

-----------------------------------------------------------------------------
(* write() and ping()                                                      *)

\* Faulty: the lock is not waited for.
AcquireAnyway(thread) == lock' = thread

Acquire(thread) == lock = NoOne /\ lock' = thread

\* The socket has no timeout: while the connection lasts, sendall() blocks, with the
\* lock held, until the peer has read enough.
HasRoom == link = "down" \/ Len(stream) - peerRead < 2 * Capacity

\* One piece of a frame leaves; on a lost connection it may vanish.
Put(frame, part) ==
    /\ HasRoom
    /\ stream' = IF link = "up" THEN Append(stream, [frame |-> frame, part |-> part]) ELSE stream

\* ping() enters its payload before it takes the lock.
Begin(o, kind) ==
    /\ pc[o] = "idle"
    /\ \A p \in 1..o - 1 : pc[p] # "idle"
    /\ call' = [call EXCEPT ![o] = kind]
    /\ pending' = IF kind = "PING" THEN pending \cup {o} ELSE pending
    /\ pc' = [pc EXCEPT ![o] = "locking"]
    /\ UNCHANGED <<result, lock, stream, readVars, connected, link, peerVars>>

Locked(o) ==
    /\ pc[o] = "locking"
    /\ Acquire(o)
    /\ pc' = [pc EXCEPT ![o] = "header"]
    /\ UNCHANGED <<call, pending, result, stream, readVars, connected, link, peerVars>>

SendHeader(o) ==
    /\ pc[o] = "header"
    /\ Put(Frame(call[o], o), "header")
    /\ pc' = [pc EXCEPT ![o] = "payload"]
    /\ UNCHANGED <<call, pending, result, lock, readVars, connected, link, peerVars>>

\* A socket that was closed in the middle of a sendall() goes when that is over.
Unlock ==
    /\ lock' = NoOne
    /\ link' = IF connected THEN link ELSE "down"

SendPayload(o) ==
    /\ pc[o] = "payload"
    /\ Put(Frame(call[o], o), "payload")
    /\ Unlock
    /\ pc' = [pc EXCEPT ![o] = IF call[o] = "PING" THEN "awaiting" ELSE "returned"]
    /\ UNCHANGED <<call, pending, result, readVars, connected, peerVars>>

\* sendall() raises, on a lost connection or on the rest of a frame when the socket was
\* closed: the lock is released, the transport is marked disconnected.
SendRaises ==
    /\ link = "down" \/ (~connected /\ HasRoom)
    /\ lock' = NoOne
    /\ link' = "down"
    /\ connected' = FALSE

SendFails(o) ==
    /\ pc[o] \in {"header", "payload"}
    /\ SendRaises
    /\ pc' = [pc EXCEPT ![o] = "raised"]
    /\ UNCHANGED <<call, pending, result, stream, readVars, peerVars>>

\* Faulty: the timeout is not looked at (as in WebSocketTransport.ping).
PingEndsAnyway(o) ==
    /\ pc[o] = "awaiting"
    /\ pc' = [pc EXCEPT ![o] = "returned"]
    /\ UNCHANGED <<call, pending, result, lock, stream, readVars, connected, link, peerVars>>

\* f.result(timeout); a ping that times out stays in _pending_pings.
PingEnds(o) ==
    /\ pc[o] = "awaiting"
    /\ pc' = [pc EXCEPT ![o] = IF o \in result THEN "returned" ELSE "timed_out"]
    /\ UNCHANGED <<call, pending, result, lock, stream, readVars, connected, link, peerVars>>

\* Closing the socket does not reliably wake a thread that is blocked in sendall().
Close ==
    /\ link = "up"
    /\ connected
    /\ link' \in IF HasRoom THEN {"down"} ELSE {"down", "up"}
    /\ connected' = FALSE
    /\ UNCHANGED <<callVars, lock, stream, readVars, peerVars>>

-----------------------------------------------------------------------------
(* read(), called again whenever it returns                                *)

\* read() calls itself to go on to the next frame.
SkipFrame ==
    /\ depth' = depth + 1
    /\ reader' = IF depth + 1 < RecursionLimit THEN "read" ELSE "failed"

Take(kind) ==
    /\ reader = "read"
    /\ incoming # <<>>
    /\ Head(incoming).kind = kind
    /\ incoming' = Tail(incoming)
    /\ UNCHANGED <<peerRead, peerSent, link>>

ReadMessage ==
    /\ Take("WAMP")
    /\ delivered' = Append(delivered, Head(incoming).id)
    /\ depth' = 0
    /\ UNCHANGED <<callVars, lock, stream, reader, answering, connected>>

\* MessageHeader.from_bytes or read() raises ValueError.
ReadUnknown ==
    /\ Take("UNKNOWN")
    /\ reader' = "failed"
    /\ UNCHANGED <<callVars, lock, stream, answering, depth, delivered, connected>>

\* The future of a ping that has timed out is set all the same.
ReadPong ==
    /\ Take("PONG")
    /\ LET o == Head(incoming).id
       IN /\ pending' = pending \ {o}
          /\ result' = IF o \in pending THEN result \cup {o} ELSE result
    /\ SkipFrame
    /\ UNCHANGED <<pc, call, lock, stream, answering, delivered, connected>>

\* Faulty: the payload of an earlier PING is echoed.
ReadPingStale ==
    /\ Take("PING")
    /\ answering' = IF answering = NoOne THEN Head(incoming).id ELSE answering
    /\ reader' = "locking"
    /\ UNCHANGED <<callVars, lock, stream, depth, delivered, connected>>

ReadPing ==
    /\ Take("PING")
    /\ answering' = Head(incoming).id
    /\ reader' = "locking"
    /\ UNCHANGED <<callVars, lock, stream, depth, delivered, connected>>

PongLocked ==
    /\ reader = "locking"
    /\ Acquire(Reader)
    /\ reader' = "header"
    /\ UNCHANGED <<callVars, stream, answering, depth, delivered, connected, link, peerVars>>

PongHeader ==
    /\ reader = "header"
    /\ Put(Frame("PONG", answering), "header")
    /\ reader' = "payload"
    /\ UNCHANGED <<callVars, lock, answering, depth, delivered, connected, link, peerVars>>

PongPayload ==
    /\ reader = "payload"
    /\ Put(Frame("PONG", answering), "payload")
    /\ Unlock
    /\ SkipFrame
    /\ UNCHANGED <<callVars, answering, delivered, connected, peerVars>>

PongFails ==
    /\ reader \in {"header", "payload"}
    /\ SendRaises
    /\ reader' = "failed"
    /\ UNCHANGED <<callVars, stream, answering, depth, delivered, peerVars>>

\* recv() fails or returns nothing, or the socket is closed.  The transport is not
\* marked disconnected.
ReadFails ==
    /\ reader = "read"
    /\ link = "down" \/ ~connected
    /\ reader' = "failed"
    /\ UNCHANGED <<callVars, lock, stream, answering, depth, delivered, connected, link,
                   peerVars>>

-----------------------------------------------------------------------------
(* The peer and the network: external.                                     *)

\* The peer reads one frame and answers a PING with a PONG.
PeerReads ==
    /\ link = "up"
    /\ peerRead + 2 <= Len(stream)
    /\ peerRead' = peerRead + 2
    /\ LET frame == stream[peerRead + 1].frame
       IN incoming' = IF frame.kind = "PING"
                      THEN Append(incoming, Frame("PONG", frame.id)) ELSE incoming
    /\ UNCHANGED <<callVars, lock, stream, readVars, connected, link, peerSent>>

PeerSends(kind) ==
    /\ link = "up"
    /\ Len(peerSent) < MaxPeerFrames
    /\ peerSent' = Append(peerSent, Frame(kind, Len(peerSent) + 1))
    /\ incoming' = Append(incoming, Frame(kind, Len(peerSent) + 1))
    /\ UNCHANGED <<callVars, lock, stream, readVars, connected, link, peerRead>>

LinkDown ==
    /\ link = "up"
    /\ link' = "down"
    /\ UNCHANGED <<callVars, lock, stream, readVars, connected, peerVars>>

CallStep(o) == Locked(o) \/ SendHeader(o) \/ SendPayload(o) \/ SendFails(o) \/ PingEnds(o)

ReaderStep ==
    \/ ReadMessage \/ ReadUnknown \/ ReadPong \/ ReadPing
    \/ PongLocked \/ PongHeader \/ PongPayload \/ PongFails \/ ReadFails

Next ==
    \/ \E o \in Ops : CallStep(o) \/ \E kind \in {"WAMP", "PING"} : Begin(o, kind)
    \/ Close
    \/ ReaderStep
    \/ PeerReads
    \/ \E kind \in {"WAMP", "PING", "UNKNOWN"} : PeerSends(kind)
    \/ LinkDown

Spec == Init /\ [][Next]_vars

-----------------------------------------------------------------------------
(* Properties                                                              *)

\* Every variable keeps its type.
TypeOK ==
    /\ pc \in [Ops -> {"idle", "locking", "header", "payload", "awaiting", "returned",
                       "timed_out", "raised"}]
    /\ call \in [Ops -> {"WAMP", "PING"}]
    /\ lock \in Ops \cup {Reader, NoOne}
    /\ pending \subseteq Ops /\ result \subseteq Ops
    /\ reader \in {"read", "locking", "header", "payload", "failed"}
    /\ answering \in 1..MaxPeerFrames \cup {NoOne}
    /\ depth \in 0..RecursionLimit
    /\ connected \in BOOLEAN
    /\ link \in {"up", "down"}
    /\ peerRead \in 0..Len(stream)
    /\ stream \in Seq([frame : Frames, part : {"header", "payload"}])
    /\ delivered \in Seq(Nat)
    /\ incoming \in Seq(Frames)
    /\ peerSent \in Seq(Frames)

\* However many threads write, the peer sees whole frames: every payload follows
\* its own header, and only the last frame may be incomplete (transports.py:152).
FramesWhole ==
    \A i \in 1..Len(stream) :
        /\ stream[i].part = IF i % 2 = 1 THEN "header" ELSE "payload"
        /\ i % 2 = 0 => stream[i].frame = stream[i - 1].frame

\* The pings answered: by each position of the stream at which a PONG begins.
Pongs ==
    [i \in {j \in 1..Len(stream) : stream[j].frame.kind = "PONG" /\ stream[j].part = "header"}
        |-> stream[i].frame.id]

\* ping() returns only if the peer has read this very ping.
PingIsHonest ==
    \A o \in Ops :
        pc[o] = "returned" /\ call[o] = "PING" =>
            \E i \in 1..peerRead : stream[i].frame = Frame("PING", o)

\* The peer sent a frame of a kind read() does not know, and it has been read.
UnknownRead ==
    \E k \in 1..Len(peerSent) :
        peerSent[k].kind = "UNKNOWN" /\ \A i \in 1..Len(incoming) : incoming[i] # peerSent[k]

\* read() fails only on a connection that is lost or closed, on a frame it does not know
\* (transports.py:145), or when so many pings and pongs came without a message between
\* them that its recursion is too deep (transports.py:135).
ReadFailureExplained ==
    reader = "failed" =>
        link = "down" \/ ~connected \/ UnknownRead \/ depth = RecursionLimit
=============================================================================
