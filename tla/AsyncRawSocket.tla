--------------------------- MODULE AsyncRawSocket ---------------------------
(***************************************************************************)
(* AsyncRawSocketTransport of xconn/transports.py.  Its coroutines run on  *)
(* one event loop and hand a frame to the StreamWriter in one piece, so    *)
(* there is no lock; they suspend in drain(), in readexactly() and while   *)
(* ping() awaits its future, which wait_for cancels when time is up.       *)
(***************************************************************************)
EXTENDS Naturals, Sequences

CONSTANTS
    MaxOps,         \* calls of write() and ping()
    MaxPeerFrames,  \* messages and pings the peer sends of its own accord
    RecursionLimit, \* frames one read() may skip before the interpreter gives up
    Capacity        \* frames that may be under way before drain() waits
                    \* (RawSocketAssumption says what these are)

VARIABLES
    pc,        \* where each call stands
    call,      \* which method it is
    pending,   \* _pending_pings: the pings whose PONG has not come
    result,    \* the pings whose future is set
    cancelled, \* the pings whose future is cancelled
    stream,    \* the frames written, oldest first
    reader,    \* where read() stands
    depth,     \* frames this read() has skipped, one recursive call each
    delivered, \* the messages read() has returned
    connected, \* is_connected()
    link,      \* the connection
    incoming,  \* frames on their way from the peer
    peerRead,  \* frames the peer has read
    peerSent   \* the frames it has sent of its own accord

callVars == <<pc, call, pending, result, cancelled>>
readVars == <<reader, depth, delivered>>
peerVars == <<incoming, peerRead, peerSent>>
vars == <<callVars, stream, readVars, connected, link, peerVars>>

\* The calls, and the peer's frames, are numbered in the order in which they begin.
Ops == 1..MaxOps

Frame(kind, id) == [kind |-> kind, id |-> id]
Frames == [kind : {"WAMP", "PING", "PONG", "UNKNOWN"}, id : Nat]

Init ==
    /\ pc = [o \in Ops |-> "idle"]
    /\ call = [o \in Ops |-> "WAMP"]
    /\ pending = {}
    /\ result = {}
    /\ cancelled = {}
    /\ stream = <<>>
    /\ reader = "read"
    /\ depth = 0
    /\ delivered = <<>>
    /\ connected = TRUE
    /\ link = "up"
    /\ incoming = <<>>
    /\ peerRead = 0
    /\ peerSent = <<>>

-----------------------------------------------------------------------------
(* write() and ping()                                                      *)

\* writer.write; on a connection that is lost or being closed the frame vanishes.
Put(frame) ==
    stream' = IF link = "up" /\ connected THEN Append(stream, frame) ELSE stream

\* drain() waits, without a timeout, until the peer has read enough.
HasRoom == link = "down" \/ Len(stream) - peerRead <= Capacity

\* ping() enters its payload first; neither suspends before drain().
Begin(o, kind) ==
    /\ pc[o] = "idle"
    /\ \A p \in 1..o - 1 : pc[p] # "idle"
    /\ call' = [call EXCEPT ![o] = kind]
    /\ pending' = IF kind = "PING" THEN pending \cup {o} ELSE pending
    /\ Put(Frame(kind, o))
    /\ pc' = [pc EXCEPT ![o] = "draining"]
    /\ UNCHANGED <<result, cancelled, readVars, connected, link, peerVars>>

Drained(o) ==
    /\ pc[o] = "draining"
    /\ HasRoom
    /\ pc' = [pc EXCEPT ![o] = IF call[o] = "PING" THEN "awaiting" ELSE "returned"]
    /\ UNCHANGED <<call, pending, result, cancelled, stream, readVars, connected, link,
                   peerVars>>

DrainFails(o) ==
    /\ pc[o] = "draining"
    /\ link = "down"
    /\ connected' = FALSE
    /\ pc' = [pc EXCEPT ![o] = "raised"]
    /\ UNCHANGED <<call, pending, result, cancelled, stream, readVars, link, peerVars>>

PingReturns(o) ==
    /\ pc[o] = "awaiting"
    /\ o \in result
    /\ pc' = [pc EXCEPT ![o] = "returned"]
    /\ UNCHANGED <<call, pending, result, cancelled, stream, readVars, connected, link,
                   peerVars>>

\* Faulty: the future is awaited without wait_for.
PingWaitsForever(o) == FALSE

\* wait_for cancels the future; the entry of _pending_pings stays.
PingTimesOut(o) ==
    /\ pc[o] = "awaiting"
    /\ o \notin result
    /\ cancelled' = cancelled \cup {o}
    /\ pc' = [pc EXCEPT ![o] = "timed_out"]
    /\ UNCHANGED <<call, pending, result, stream, readVars, connected, link, peerVars>>

\* What is buffered is written first: the connection may stay until the peer has read.
Close ==
    /\ link = "up"
    /\ connected
    /\ link' = IF HasRoom THEN "down" ELSE "up"
    /\ connected' = FALSE
    /\ UNCHANGED <<callVars, stream, readVars, peerVars>>

-----------------------------------------------------------------------------
(* read(), called again whenever it returns                                *)

\* read() calls itself to go on to the next frame.
SkipFrame ==
    /\ depth' = depth + 1
    /\ reader' = IF depth + 1 < RecursionLimit THEN "read" ELSE "failed"

Take(kind) ==
    /\ reader = "read"
    /\ incoming # <<>>
    /\ Head(incoming).kind = kind
    /\ incoming' = Tail(incoming)
    /\ UNCHANGED <<peerRead, peerSent, link>>

ReadMessage ==
    /\ Take("WAMP")
    /\ delivered' = Append(delivered, Head(incoming).id)
    /\ depth' = 0
    /\ UNCHANGED <<callVars, stream, reader, connected>>

\* MessageHeader.from_bytes or read() raises ValueError; the connection stays as it is.
ReadUnknown ==
    /\ Take("UNKNOWN")
    /\ reader' = "failed"
    /\ UNCHANGED <<callVars, stream, depth, delivered, connected>>

\* A PONG for a ping that has timed out: set_result on its cancelled future raises
\* InvalidStateError out of read(); the connection stays as it is.
ReadPong ==
    /\ Take("PONG")
    /\ LET o == Head(incoming).id
       IN /\ pending' = pending \ {o}
          /\ IF o \in pending \cap cancelled
             THEN reader' = "failed" /\ UNCHANGED <<result, depth>>
             ELSE /\ result' = IF o \in pending THEN result \cup {o} ELSE result
                  /\ SkipFrame
    /\ UNCHANGED <<pc, call, cancelled, stream, delivered, connected>>

ReadPing ==
    /\ Take("PING")
    /\ Put(Frame("PONG", Head(incoming).id))
    /\ reader' = "draining"
    /\ UNCHANGED <<callVars, depth, delivered, connected>>

PongDrained ==
    /\ reader = "draining"
    /\ HasRoom
    /\ SkipFrame
    /\ UNCHANGED <<callVars, stream, delivered, connected, link, peerVars>>

PongFails ==
    /\ reader = "draining"
    /\ link = "down"
    /\ connected' = FALSE
    /\ reader' = "failed"
    /\ UNCHANGED <<callVars, stream, depth, delivered, link, peerVars>>

\* Faulty: as in RawSocketTransport, the transport is not marked disconnected.
ReadFailsUnnoticed ==
    /\ reader = "read"
    /\ link = "down"
    /\ reader' = "failed"
    /\ UNCHANGED <<callVars, stream, depth, delivered, connected, link, peerVars>>

\* readexactly() raises, and the transport is marked disconnected.
ReadFails ==
    /\ reader = "read"
    /\ link = "down"
    /\ reader' = "failed"
    /\ connected' = FALSE
    /\ UNCHANGED <<callVars, stream, depth, delivered, link, peerVars>>

-----------------------------------------------------------------------------
(* The peer and the network: external.                                     *)

PeerReads ==
    /\ link = "up"
    /\ peerRead < Len(stream)
    /\ peerRead' = peerRead + 1
    /\ LET frame == stream[peerRead + 1]
       IN incoming' = IF frame.kind = "PING"
                      THEN Append(incoming, Frame("PONG", frame.id)) ELSE incoming
    /\ UNCHANGED <<callVars, stream, readVars, connected, link, peerSent>>

PeerSends(kind) ==
    /\ link = "up"
    /\ Len(peerSent) < MaxPeerFrames
    /\ peerSent' = Append(peerSent, Frame(kind, Len(peerSent) + 1))
    /\ incoming' = Append(incoming, Frame(kind, Len(peerSent) + 1))
    /\ UNCHANGED <<callVars, stream, readVars, connected, link, peerRead>>

LinkDown ==
    /\ link = "up"
    /\ link' = "down"
    /\ UNCHANGED <<callVars, stream, readVars, connected, peerVars>>

CallStep(o) == Drained(o) \/ DrainFails(o) \/ PingReturns(o) \/ PingTimesOut(o)

ReaderStep ==
    \/ ReadMessage \/ ReadUnknown \/ ReadPong \/ ReadPing
    \/ PongDrained \/ PongFails \/ ReadFails

Next ==
    \/ \E o \in Ops : CallStep(o) \/ \E kind \in {"WAMP", "PING"} : Begin(o, kind)
    \/ Close
    \/ ReaderStep
    \/ PeerReads
    \/ \E kind \in {"WAMP", "PING", "UNKNOWN"} : PeerSends(kind)
    \/ LinkDown

Spec == Init /\ [][Next]_vars

-----------------------------------------------------------------------------
(* Properties                                                              *)

\* Every variable keeps its type.
TypeOK ==
    /\ pc \in [Ops -> {"idle", "draining", "awaiting", "returned", "timed_out", "raised"}]
    /\ call \in [Ops -> {"WAMP", "PING"}]
    /\ pending \subseteq Ops /\ result \subseteq Ops /\ cancelled \subseteq Ops
    /\ reader \in {"read", "draining", "failed"}
    /\ depth \in 0..RecursionLimit
    /\ connected \in BOOLEAN
    /\ link \in {"up", "down"}
    /\ peerRead \in 0..Len(stream)
    /\ stream \in Seq(Frames)
    /\ delivered \in Seq(Nat)
    /\ incoming \in Seq(Frames)
    /\ peerSent \in Seq(Frames)

\* The pings answered: by the position of the PONG in the stream.
Pongs == [i \in {j \in 1..Len(stream) : stream[j].kind = "PONG"} |-> stream[i].id]

\* ping() returns only if the peer has read this very ping.
PingIsHonest ==
    \A o \in Ops :
        pc[o] = "returned" /\ call[o] = "PING" =>
            \E i \in 1..peerRead : stream[i] = Frame("PING", o)

\* The peer sent a frame of a kind read() does not know, and it has been read.
UnknownRead ==
    \E k \in 1..Len(peerSent) :
        peerSent[k].kind = "UNKNOWN" /\ \A i \in 1..Len(incoming) : incoming[i] # peerSent[k]

\* read() fails for four reasons only: the connection is lost or closed, and then the
\* transport knows it; a frame came that it does not know (transports.py:272); so many
\* pings and pongs came without a message between them that the recursion is too deep
\* (transports.py:257); or a PONG came for a ping that had timed out (transports.py:268).
ReadFailureExplained ==
    reader = "failed" =>
        \/ ~connected \/ UnknownRead \/ depth = RecursionLimit
        \/ \E o \in cancelled : o \notin pending
=============================================================================
