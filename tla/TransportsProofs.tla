--------------------------- MODULE TransportsProofs ---------------------------
(***************************************************************************)
(* For any number of calls, of the peer's frames and any recursion limit:  *)
(* the two raw socket transports keep frames whole and in order, a ping    *)
(* that returns was read by the peer, and read() fails only for the        *)
(* reasons given.                                                          *)
(***************************************************************************)
EXTENDS Transports, SequenceTheorems, TLAPS

Kinds == {"WAMP", "PING"}
PeerKinds == Kinds \cup {"UNKNOWN"}

\* Each transport leaves the variables of the other alone.
Types ==
    /\ transport \in {"threads", "asyncio"}
    /\ transport = "threads" => TypeOK /\ cancelled = {}
    /\ transport = "asyncio" => Asyncio!TypeOK /\ lock = NoOne /\ answering = NoOne

\* The numbers of the peer's own frames that are still on their way.
Due ==
    {k \in 1..Len(peerSent) :
        \E i \in 1..Len(incoming) : incoming[i].kind # "PONG" /\ incoming[i].id = k}

\* The peer numbers its frames, and those on their way are the last it sent.
FromPeer ==
    /\ Len(peerSent) <= MaxPeerFrames
    /\ \A k \in 1..Len(peerSent) : peerSent[k].id = k /\ peerSent[k].kind \in PeerKinds
    /\ \A i \in 1..Len(incoming) : incoming[i].kind # "PONG" =>
          incoming[i].id \in 1..Len(peerSent) /\ peerSent[incoming[i].id] = incoming[i]
    /\ \A i, j \in 1..Len(incoming) :
          i < j /\ incoming[i].kind # "PONG" /\ incoming[j].kind # "PONG" =>
              incoming[i].id < incoming[j].id
    /\ \A k, l \in 1..Len(peerSent) : k \in Due /\ k < l => l \in Due

\* The numbers keep the order of the peer's frames of one kind, and all of these
\* came before those on their way.
Settled(kind, numbers) ==
    /\ InOrder(kind, numbers)
    /\ \A i \in DOMAIN numbers, k \in Due : numbers[i] < k

\* A message that is no longer on its way was delivered.
Delivery ==
    /\ Settled("WAMP", delivered)
    /\ \A k \in 1..Len(peerSent) :
          peerSent[k].kind = "WAMP" /\ k \notin Due =>
              \E i \in DOMAIN delivered : delivered[i] = k

Answers == Both(Pongs, Asyncio!Pongs)

\* read() has taken a PING and has not yet written the PONG's header.
Answering == transport = "threads" /\ reader \in {"locking", "header"}

\* What is written now is not lost at once.
Alive == link = "up" /\ (transport = "threads" \/ connected)

\* A PING that is no longer on its way was answered or is the one being answered; on
\* a lost connection an answer may vanish, but then no later one comes.
Replies ==
    /\ Settled("PING", Answers)
    /\ Answering =>
          /\ peerSent[answering].kind = "PING"
          /\ \A i \in DOMAIN Answers : Answers[i] < answering
          /\ \A k \in Due : answering < k
    /\ transport = "threads" /\ reader \in {"locking", "header", "payload"} =>
          answering \in 1..Len(peerSent)
    /\ Alive =>
          \A k \in 1..Len(peerSent) :
              peerSent[k].kind = "PING" /\ k \notin Due =>
                  (Answering /\ answering = k) \/ \E i \in DOMAIN Answers : Answers[i] = k

\* The lock is held by whoever stands between header and payload.
Locks ==
    /\ \A o \in Ops : pc[o] \in {"header", "payload"} <=> lock = o
    /\ reader \in {"header", "payload"} <=> lock = Reader

\* While the connection lasts, a frame is incomplete only as long as its thread is
\* about to write the payload.
Halves ==
    link = "up" =>
        /\ Len(stream) % 2 = 1 => reader = "payload" \/ \E o \in Ops : pc[o] = "payload"
        /\ \A o \in Ops : pc[o] = "payload" =>
              Len(stream) % 2 = 1 /\ stream[Len(stream)].frame = Frame(call[o], o)
        /\ reader = "payload" =>
              Len(stream) % 2 = 1 /\ stream[Len(stream)].frame = Frame("PONG", answering)

Whole == transport = "threads" => Locks /\ FramesWhole /\ Halves

\* The peer has read the PING of call o.
Seen(o) == \E i \in 1..peerRead : Both(stream[i].frame, stream[i]) = Frame("PING", o)

\* The pings whose PONG is on its way.
Coming ==
    {o \in Nat : \E i \in 1..Len(incoming) : incoming[i].kind = "PONG" /\ incoming[i].id = o}

Seeing ==
    /\ \A o \in Coming : Seen(o)
    /\ \A o \in result : Seen(o)
    /\ HonestPings

\* A ping whose future is cancelled has ended, and no new one takes its number.
Failing ==
    /\ reader # "failed" => depth < RecursionLimit
    /\ transport = "asyncio" => \A o \in cancelled : pc[o] = "timed_out"
    /\ ReadFailures

IInv ==
    /\ Types /\ FromPeer /\ Delivery /\ Replies
    /\ Whole /\ Seeing /\ Failing

-----------------------------------------------------------------------------
(* Types                                                                   *)

Pieces == [frame : Frames, part : {"header", "payload"}]

\* What both transports have in common.
LEMMA SharedTypes ==
    ASSUME Types
    PROVE  /\ delivered \in Seq(Nat) /\ incoming \in Seq(Frames) /\ peerSent \in Seq(Frames)
           /\ depth \in 0..RecursionLimit /\ link \in {"up", "down"} /\ connected \in BOOLEAN
           /\ peerRead \in 0..Len(stream) /\ Len(stream) \in Nat
           /\ result \subseteq Ops /\ pending \subseteq Ops
           /\ call \in [Ops -> Kinds]
<1>1. Asyncio!Frames = Frames /\ Asyncio!Ops = Ops
  BY DEF Frames, Asyncio!Frames, Ops, Asyncio!Ops
<1>2. CASE transport = "threads"
  BY <1>2, LenProperties DEF Types, TypeOK, Kinds
<1>3. CASE transport = "asyncio"
  BY <1>1, <1>3, LenProperties DEF Types, Asyncio!TypeOK, Kinds
<1> QED
  BY <1>2, <1>3 DEF Types

LEMMA FrameType ==
    /\ \A kind \in {"WAMP", "PING", "PONG", "UNKNOWN"}, id \in Nat :
          Frame(kind, id) \in Frames /\ Asyncio!Frame(kind, id) = Frame(kind, id)
    /\ \A kind, id : Frame(kind, id).kind = kind /\ Frame(kind, id).id = id
    /\ \A frame \in Frames : frame.kind \in {"WAMP", "PING", "PONG", "UNKNOWN"} /\ frame.id \in Nat
    /\ Asyncio!Frames = Frames /\ Asyncio!Ops = Ops
<1> QED
  BY DEF Frame, Frames, Asyncio!Frame, Asyncio!Frames, Ops, Asyncio!Ops

\* What is appended to a sequence stands behind what was there.
LEMMA AppendAt ==
    ASSUME NEW S, NEW s \in Seq(S), NEW e \in S
    PROVE  /\ Append(s, e) \in Seq(S) /\ Len(s) \in Nat
           /\ Len(Append(s, e)) = Len(s) + 1
           /\ \A i \in 1..Len(s) : Append(s, e)[i] = s[i]
           /\ Append(s, e)[Len(s) + 1] = e
           /\ 1..Len(Append(s, e)) = 1..Len(s) \cup {Len(s) + 1}
<1> QED
  BY AppendProperties, LenProperties

LEMMA TailAt ==
    ASSUME NEW S, NEW s \in Seq(S), s # <<>>
    PROVE  /\ Tail(s) \in Seq(S) /\ Len(s) \in Nat \ {0}
           /\ Len(Tail(s)) = Len(s) - 1
           /\ \A i \in 1..Len(Tail(s)) : Tail(s)[i] = s[i + 1] /\ i + 1 \in 1..Len(s)
           /\ \A i \in 2..Len(s) : i - 1 \in 1..Len(Tail(s)) /\ Tail(s)[i - 1] = s[i]
           /\ Head(s) = s[1] /\ Head(s) \in S
<1> QED
  BY HeadTailProperties, EmptySeq, LenProperties

-----------------------------------------------------------------------------
(* The peer's frames on their way                                          *)

LEMMA NothingArrives ==
    ASSUME FromPeer, incoming' = incoming, peerSent' = peerSent
    PROVE  FromPeer' /\ Due' = Due
<1> QED
  BY DEF FromPeer, Due

LEMMA PongArrives ==
    ASSUME Types, FromPeer, NEW id \in Nat,
           incoming' = Append(incoming, Frame("PONG", id)), peerSent' = peerSent
    PROVE  FromPeer' /\ Due' = Due
<1> DEFINE pong == Frame("PONG", id)
<1>1. incoming \in Seq(Frames) /\ pong \in Frames /\ pong.kind = "PONG"
  BY SharedTypes, FrameType
<1> HIDE DEF pong
<1>2. /\ Len(incoming) \in Nat
      /\ 1..Len(incoming') = 1..Len(incoming) \cup {Len(incoming) + 1}
      /\ \A i \in 1..Len(incoming) : incoming'[i] = incoming[i]
      /\ incoming'[Len(incoming) + 1] = pong
  BY <1>1, AppendAt DEF pong
<1>3. Due' = Due
  BY <1>1, <1>2 DEF Due
<1>4. \A i \in 1..Len(incoming') : incoming'[i].kind # "PONG" =>
          i \in 1..Len(incoming) /\ incoming'[i] = incoming[i]
  BY <1>1, <1>2
<1>5. \A i \in 1..Len(incoming') : incoming'[i].kind # "PONG" =>
          incoming'[i].id \in 1..Len(peerSent') /\ peerSent'[incoming'[i].id] = incoming'[i]
  BY <1>4 DEF FromPeer
<1>6. \A i, j \in 1..Len(incoming') :
          i < j /\ incoming'[i].kind # "PONG" /\ incoming'[j].kind # "PONG" =>
              incoming'[i].id < incoming'[j].id
  <2> SUFFICES ASSUME NEW i \in 1..Len(incoming'), NEW j \in 1..Len(incoming'), i < j,
                      incoming'[i].kind # "PONG", incoming'[j].kind # "PONG"
               PROVE  incoming'[i].id < incoming'[j].id
    OBVIOUS
  <2>1. /\ i \in 1..Len(incoming) /\ incoming'[i] = incoming[i]
        /\ j \in 1..Len(incoming) /\ incoming'[j] = incoming[j]
    BY <1>4
  <2>2. incoming[i].kind # "PONG" /\ incoming[j].kind # "PONG"
    BY <2>1
  <2>3. incoming[i].id < incoming[j].id
    BY <2>1, <2>2 DEF FromPeer
  <2> QED
    BY <2>1, <2>3
<1>7. \A k, l \in 1..Len(peerSent') : k \in Due' /\ k < l => l \in Due'
  BY <1>3 DEF FromPeer
<1> QED
  BY <1>3, <1>5, <1>6, <1>7 DEF FromPeer

LEMMA PeerFrameArrives ==
    ASSUME Types, FromPeer, NEW kind \in PeerKinds, NEW n \in Nat, n = Len(peerSent),
           n < MaxPeerFrames,
           peerSent' = Append(peerSent, Frame(kind, n + 1)),
           incoming' = Append(incoming, Frame(kind, n + 1))
    PROVE  /\ FromPeer'
           /\ Due' = Due \cup {n + 1}
           /\ Due \subseteq 1..n
           /\ 1..Len(peerSent') = 1..n \cup {n + 1}
           /\ \A k \in 1..n : peerSent'[k] = peerSent[k]
           /\ peerSent'[n + 1].kind = kind
<1> DEFINE new == Frame(kind, n + 1)
<1>1. /\ incoming \in Seq(Frames) /\ peerSent \in Seq(Frames) /\ new \in Frames
      /\ new.kind = kind /\ new.id = n + 1 /\ new.kind # "PONG"
  BY SharedTypes, FrameType DEF Kinds, PeerKinds
<1> HIDE DEF new
<1>2. PICK m \in Nat : m = Len(incoming)
  BY <1>1, LenProperties
<1>3. /\ 1..Len(incoming') = 1..m \cup {m + 1}
      /\ \A i \in 1..m : incoming'[i] = incoming[i]
      /\ incoming'[m + 1] = new
  BY <1>1, <1>2, AppendAt DEF new
<1>4. /\ Len(peerSent') = n + 1
      /\ 1..Len(peerSent') = 1..n \cup {n + 1}
      /\ \A k \in 1..n : peerSent'[k] = peerSent[k]
      /\ peerSent'[n + 1] = new
  BY <1>1, AppendAt DEF new
<1>5. Due' = Due \cup {n + 1}
  BY <1>1, <1>2, <1>3, <1>4 DEF Due, FromPeer
<1>6. Due \subseteq 1..n
  BY DEF Due
<1>7. n + 1 <= MaxPeerFrames
  BY RawSocketAssumption
<1>8. ASSUME NEW i \in 1..m, incoming[i].kind # "PONG"
      PROVE  incoming[i].id \in 1..n /\ peerSent[incoming[i].id] = incoming[i]
  BY <1>2, <1>8 DEF FromPeer
<1>9. \A i \in 1..Len(incoming') : incoming'[i].kind # "PONG" =>
          incoming'[i].id \in 1..Len(peerSent') /\ peerSent'[incoming'[i].id] = incoming'[i]
  <2> SUFFICES ASSUME NEW i \in 1..Len(incoming'), incoming'[i].kind # "PONG"
               PROVE  /\ incoming'[i].id \in 1..Len(peerSent')
                      /\ peerSent'[incoming'[i].id] = incoming'[i]
    OBVIOUS
  <2>1. CASE i \in 1..m
    <3>1. incoming'[i] = incoming[i]
      BY <1>3, <2>1
    <3>2. incoming[i].id \in 1..n /\ peerSent[incoming[i].id] = incoming[i]
      BY <1>8, <2>1, <3>1
    <3> QED
      BY <1>4, <3>1, <3>2
  <2>2. CASE i = m + 1
    BY <1>1, <1>3, <1>4, <2>2
  <2> QED
    BY <1>3, <2>1, <2>2
<1>10. \A i, j \in 1..Len(incoming') :
          i < j /\ incoming'[i].kind # "PONG" /\ incoming'[j].kind # "PONG" =>
              incoming'[i].id < incoming'[j].id
  BY <1>1, <1>2, <1>3, <1>8 DEF FromPeer
<1>11. \A k, l \in 1..Len(peerSent') : k \in Due' /\ k < l => l \in Due'
  BY <1>4, <1>5, <1>6 DEF FromPeer
<1>12. \A k \in 1..Len(peerSent') : peerSent'[k].id = k /\ peerSent'[k].kind \in PeerKinds
  BY <1>1, <1>4 DEF FromPeer
<1> QED
  BY <1>1, <1>4, <1>5, <1>6, <1>7, <1>9, <1>10, <1>11, <1>12 DEF FromPeer

\* The first frame on its way is the next of the peer's own, or a PONG.
LEMMA FrameTaken ==
    ASSUME Types, FromPeer, incoming # <<>>, incoming' = Tail(incoming),
           peerSent' = peerSent
    PROVE  /\ FromPeer'
           /\ Head(incoming) \in Frames
           /\ Head(incoming).kind = "PONG" => Due' = Due
           /\ Head(incoming).kind # "PONG" =>
                 \E h \in Due :
                     /\ Head(incoming).id = h /\ peerSent[h] = Head(incoming)
                     /\ Due' = Due \ {h} /\ \A k \in Due : k = h \/ h < k
<1>1. incoming \in Seq(Frames)
  BY SharedTypes
<1>2. PICK n \in Nat \ {0} : n = Len(incoming)
  BY <1>1, TailAt
<1>3. /\ Len(incoming') = n - 1
      /\ \A i \in 1..n - 1 : incoming'[i] = incoming[i + 1] /\ i + 1 \in 1..n
      /\ \A i \in 2..n : i - 1 \in 1..n - 1 /\ incoming'[i - 1] = incoming[i]
      /\ Head(incoming) = incoming[1] /\ Head(incoming) \in Frames
  BY <1>1, <1>2, TailAt
<1>4. \A k \in Due' : k \in Due /\ \E i \in 2..n : incoming[i].kind # "PONG" /\ incoming[i].id = k
  BY <1>2, <1>3 DEF Due
<1>5. \A k \in 1..Len(peerSent) :
          (\E i \in 2..n : incoming[i].kind # "PONG" /\ incoming[i].id = k) => k \in Due'
  <2> SUFFICES ASSUME NEW k \in 1..Len(peerSent), NEW i \in 2..n,
                      incoming[i].kind # "PONG", incoming[i].id = k
               PROVE  k \in Due'
    OBVIOUS
  <2>1. i - 1 \in 1..Len(incoming') /\ incoming'[i - 1] = incoming[i]
    BY <1>3
  <2> QED
    BY <2>1 DEF Due
<1>6. CASE Head(incoming).kind = "PONG"
  <2>1. Due' = Due
    BY <1>2, <1>3, <1>4, <1>5, <1>6 DEF Due
  <2>2. FromPeer'
    BY <1>2, <1>3, <2>1 DEF FromPeer
  <2> QED
    BY <1>3, <1>6, <2>1, <2>2
<1>7. CASE Head(incoming).kind # "PONG"
  <2>1. PICK h : h = Head(incoming).id
    OBVIOUS
  <2>2. h \in 1..Len(peerSent) /\ peerSent[h] = Head(incoming) /\ h \in Due
    BY <1>2, <1>3, <1>7, <2>1 DEF FromPeer, Due
  <2>3. \A i \in 2..n : incoming[i].kind # "PONG" => h < incoming[i].id
    BY <1>2, <1>3, <1>7, <2>1 DEF FromPeer
  <2>4. \A k \in Due : k = h \/ \E i \in 2..n : incoming[i].kind # "PONG" /\ incoming[i].id = k
    BY <1>2, <1>3, <1>7, <2>1 DEF Due
  <2>5. \A k \in Due : k = h \/ h < k
    BY <2>3, <2>4
  <2>6. h \notin Due'
    <3> SUFFICES ASSUME h \in Due' PROVE FALSE
      OBVIOUS
    <3>1. PICK i \in 2..n : incoming[i].kind # "PONG" /\ incoming[i].id = h
      BY <1>4
    <3> QED
      BY <2>2, <2>3, <3>1
  <2>7. Due' = Due \ {h}
    <3>1. Due' \subseteq Due \ {h}
      BY <1>4, <2>6
    <3>2. ASSUME NEW k \in Due, k # h PROVE k \in Due'
      <4>1. k \in 1..Len(peerSent)
        BY DEF Due
      <4> QED
        BY <1>5, <2>4, <3>2, <4>1
    <3> QED
      BY <3>1, <3>2
  <2>8. \A k, l \in 1..Len(peerSent) : k \in Due' /\ k < l => l \in Due'
    <3> SUFFICES ASSUME NEW k \in 1..Len(peerSent), NEW l \in 1..Len(peerSent),
                        k \in Due', k < l
                 PROVE  l \in Due'
      OBVIOUS
    <3>1. k \in Due /\ k # h /\ l \in Due
      BY <2>7 DEF FromPeer
    <3>2. h < k
      BY <2>5, <3>1
    <3> QED
      BY <2>2, <2>7, <3>1, <3>2
  <2>9. FromPeer'
    BY <1>2, <1>3, <2>8 DEF FromPeer
  <2> QED
    BY <1>3, <1>7, <2>1, <2>2, <2>5, <2>7, <2>9
<1> QED
  BY <1>6, <1>7

-----------------------------------------------------------------------------
(* Numbers in order                                                        *)

\* Frames of the peer that leave the network do not disturb what came before.
LEMMA SettledKept ==
    ASSUME NEW kind, NEW f, Settled(kind, f), peerSent' = peerSent, Due' \subseteq Due
    PROVE  Settled(kind, f)'
<1> QED
  BY DEF Settled, InOrder

\* Nor does a new frame, which is the last.
LEMMA SettledWhenPeerSends ==
    ASSUME NEW kind, NEW f, Settled(kind, f), NEW n \in Nat, n = Len(peerSent),
           1..Len(peerSent') = 1..n \cup {n + 1},
           \A k \in 1..n : peerSent'[k] = peerSent[k],
           Due' = Due \cup {n + 1}
    PROVE  Settled(kind, f)'
<1>1. \A i \in DOMAIN f : f[i] \in 1..n /\ f[i] \in 1..Len(peerSent') /\ f[i] < n + 1
  BY DEF Settled, InOrder
<1>2. \A i \in DOMAIN f, k \in Due' : f[i] < k
  BY <1>1 DEF Settled
<1>3. ASSUME NEW k \in 1..Len(peerSent'), NEW j \in DOMAIN f, k < f[j]
      PROVE  k \in 1..n
  BY <1>1, <1>3
<1>4. \A k \in 1..Len(peerSent'), j \in DOMAIN f :
          peerSent'[k].kind = kind /\ k < f[j] => \E i \in DOMAIN f : f[i] = k
  BY <1>3 DEF Settled, InOrder
<1>5. \A i \in DOMAIN f : f[i] \in 1..Len(peerSent') /\ peerSent'[f[i]].kind = kind
  BY <1>1 DEF Settled, InOrder
<1> QED
  BY <1>2, <1>4, <1>5 DEF Settled, InOrder

\* g is f with one more number, the next of its kind.
Extends(kind, f, g, n, h) ==
    /\ DOMAIN f \subseteq 0..n - 1 /\ DOMAIN g = DOMAIN f \cup {n}
    /\ \A i \in DOMAIN f : g[i] = f[i] /\ f[i] < h
    /\ g[n] = h
    /\ peerSent[h].kind = kind
    /\ \A k \in Due : k = h \/ h < k
    /\ \A k \in 1..Len(peerSent) :
          peerSent[k].kind = kind /\ k < h => \E i \in DOMAIN f : f[i] = k

LEMMA SettledNext ==
    ASSUME NEW kind, NEW f, NEW g, NEW n \in Nat, NEW h \in 1..Len(peerSent),
           Settled(kind, f), Extends(kind, f, g, n, h),
           peerSent' = peerSent, Due' = Due \ {h}
    PROVE  Settled(kind, g)'
<1> USE DEF Extends
<1>1. \A i \in DOMAIN g : i = n \/ (i \in DOMAIN f /\ i < n)
  OBVIOUS
<1>2. n \notin DOMAIN f
  OBVIOUS
<1>3. \A i \in DOMAIN g : g[i] \in 1..Len(peerSent) /\ peerSent[g[i]].kind = kind
  BY <1>1 DEF Settled, InOrder
<1>4. ASSUME NEW i \in DOMAIN g, NEW j \in DOMAIN g, i < j PROVE g[i] < g[j]
  <2>1. i \in DOMAIN f
    BY <1>1, <1>4
  <2>2. CASE j = n
    BY <2>1, <2>2
  <2>3. CASE j \in DOMAIN f
    BY <1>4, <2>1, <2>3 DEF Settled, InOrder
  <2> QED
    BY <1>1, <2>2, <2>3
<1>5. ASSUME NEW k \in 1..Len(peerSent), NEW j \in DOMAIN g,
             peerSent[k].kind = kind, k < g[j]
      PROVE  \E i \in DOMAIN g : g[i] = k
  <2>1. \E i \in DOMAIN f : f[i] = k
    <3>1. CASE j = n
      BY <1>5, <3>1
    <3>2. CASE j \in DOMAIN f
      BY <1>5, <3>2 DEF Settled, InOrder
    <3> QED
      BY <1>1, <3>1, <3>2
  <2> QED
    BY <2>1
<1>6. \A i \in DOMAIN g, k \in Due' : g[i] < k
  BY <1>1 DEF Settled
<1> QED
  BY <1>3, <1>4, <1>5, <1>6 DEF Settled, InOrder

-----------------------------------------------------------------------------
(* What a step does to the frames from the peer                            *)

Rests == UNCHANGED <<incoming, peerSent>>
PongComes(id) == incoming' = Append(incoming, Frame("PONG", id)) /\ peerSent' = peerSent
FrameComes(kind) ==
    /\ Len(peerSent) < MaxPeerFrames
    /\ peerSent' = Append(peerSent, Frame(kind, Len(peerSent) + 1))
    /\ incoming' = Append(incoming, Frame(kind, Len(peerSent) + 1))
FrameLeaves == incoming # <<>> /\ incoming' = Tail(incoming) /\ peerSent' = peerSent

LEMMA TransportStays == TransportsNext => transport' = transport
<1> QED
  BY DEF TransportsNext, Threads, EventLoop

\* The peer answers a PING it has read, and nothing else.
LEMMA PeerAnswers ==
    ASSUME Types, transport' = transport,
           \/ transport = "threads" /\ PeerReads
           \/ transport = "asyncio" /\ Asyncio!PeerReads
    PROVE  Rests \/ \E id \in Nat : PongComes(id) /\ Seen(id)'
<1>1. PICK p \in Nat : p = peerRead + 1 /\ p \in 1..Len(stream) /\ p \in 1..peerRead'
  <2>1. /\ peerRead \in 0..Len(stream) /\ Len(stream) \in Nat
        /\ peerRead + 1 <= Len(stream) /\ peerRead' \in {peerRead + 1, peerRead + 2}
    BY SharedTypes DEF PeerReads, Asyncio!PeerReads
  <2> QED
    BY <2>1
<1>2. stream' = stream /\ peerSent' = peerSent
  BY DEF PeerReads, Asyncio!PeerReads
<1>3. ASSUME NEW frame \in Frames, frame = Both(stream[p].frame, stream[p]),
             incoming' = IF frame.kind = "PING"
                         THEN Append(incoming, Frame("PONG", frame.id)) ELSE incoming
      PROVE  Rests \/ \E id \in Nat : PongComes(id) /\ Seen(id)'
  <2>1. CASE frame.kind # "PING"
    BY <1>2, <1>3, <2>1 DEF Rests
  <2>2. CASE frame.kind = "PING"
    <3>1. frame = Frame("PING", frame.id) /\ frame.id \in Nat
      BY <2>2 DEF Frame, Frames
    <3>2. PICK o \in Nat : o = frame.id
      BY <3>1
    <3>3. Both(stream[p].frame, stream[p])' = Frame("PING", o)
      BY <1>2, <1>3, <3>1, <3>2 DEF Both
    <3>4. Seen(o)'
      BY <1>1, <3>3 DEF Seen, Both, Frame
    <3>5. PongComes(o)
      BY <1>2, <1>3, <2>2, <3>2 DEF PongComes
    <3> QED
      BY <3>4, <3>5
  <2> QED
    BY <2>1, <2>2
<1>4. CASE transport = "threads" /\ PeerReads
  <2>1. stream \in Seq(Pieces)
    BY <1>4 DEF Types, TypeOK, Pieces
  <2>2. stream[p] \in Pieces
    BY <1>1, <2>1
  <2>3. PICK frame : frame = stream[p].frame /\ frame \in Frames
    BY <2>2 DEF Pieces
  <2>4. incoming' = IF frame.kind = "PING"
                    THEN Append(incoming, Frame("PONG", frame.id)) ELSE incoming
    BY <1>1, <1>4, <2>3 DEF PeerReads
  <2> QED
    BY <1>3, <1>4, <2>3, <2>4 DEF Both
<1>5. CASE transport = "asyncio" /\ Asyncio!PeerReads
  <2>1. stream \in Seq(Frames)
    BY <1>5, FrameType DEF Types, Asyncio!TypeOK
  <2>2. PICK frame \in Frames : frame = stream[p]
    BY <1>1, <2>1
  <2>3. incoming' = IF frame.kind = "PING"
                    THEN Append(incoming, Frame("PONG", frame.id)) ELSE incoming
    BY <1>1, <1>5, <2>2 DEF Asyncio!PeerReads, Asyncio!Frame, Frame
  <2> QED
    BY <1>3, <1>5, <2>2, <2>3 DEF Both
<1> QED
  BY <1>4, <1>5

\* A frame leaves when read() takes it, and is delivered if it is a message.
LEMMA NetworkSteps ==
    ASSUME Types, TransportsNext
    PROVE  \/ Rests /\ delivered' = delivered
           \/ delivered' = delivered /\ \E id \in Nat : PongComes(id) /\ Seen(id)'
           \/ delivered' = delivered /\ \E kind \in PeerKinds : FrameComes(kind)
           \/ FrameLeaves /\ Head(incoming).kind # "WAMP" /\ delivered' = delivered
           \/ /\ FrameLeaves /\ Head(incoming).kind = "WAMP"
              /\ delivered' = Append(delivered, Head(incoming).id)
<1> DEFINE Goal ==
      \/ Rests /\ delivered' = delivered
      \/ delivered' = delivered /\ \E id \in Nat : PongComes(id) /\ Seen(id)'
      \/ delivered' = delivered /\ \E kind \in PeerKinds : FrameComes(kind)
      \/ FrameLeaves /\ Head(incoming).kind # "WAMP" /\ delivered' = delivered
      \/ /\ FrameLeaves /\ Head(incoming).kind = "WAMP"
         /\ delivered' = Append(delivered, Head(incoming).id)
<1> SUFFICES Goal
  OBVIOUS
<1> USE DEF callVars, readVars, peerVars
<1> USE DEF Asyncio!callVars, Asyncio!readVars, Asyncio!peerVars
<1>1. CASE Threads(Next)
  <2>1. CASE \E o \in Ops : CallStep(o) \/ \E kind \in {"WAMP", "PING"} : Begin(o, kind)
    BY <2>1 DEF CallStep, Begin, Locked, SendHeader, SendPayload, SendFails, PingEnds, Rests
  <2>2. CASE Close \/ LinkDown
    BY <2>2 DEF Close, LinkDown, Rests
  <2>3. CASE ReadMessage
    BY <2>3 DEF ReadMessage, Take, FrameLeaves
  <2>4. CASE ReadPong \/ ReadPing \/ ReadUnknown
    BY <2>4 DEF ReadPong, ReadPing, ReadUnknown, Take, FrameLeaves
  <2>5. CASE PongLocked \/ PongHeader \/ PongPayload \/ PongFails \/ ReadFails
    BY <2>5 DEF PongLocked, PongHeader, PongPayload, PongFails, ReadFails, Rests
  <2>6. CASE PeerReads
    BY <1>1, <2>6, PeerAnswers, TransportStays DEF Threads, PeerReads
  <2>7. CASE \E kind \in {"WAMP", "PING", "UNKNOWN"} : PeerSends(kind)
    BY <2>7 DEF PeerSends, FrameComes, Kinds, PeerKinds
  <2> HIDE DEF Goal
  <2> QED
    BY <1>1, <2>1, <2>2, <2>3, <2>4, <2>5, <2>6, <2>7 DEF Threads, Next, ReaderStep
<1>2. CASE EventLoop(Asyncio!Next)
  <2>1. CASE \E o \in Asyncio!Ops : Asyncio!CallStep(o) \/ \E kind \in {"WAMP", "PING"} : Asyncio!Begin(o, kind)
    BY <2>1 DEF Asyncio!CallStep, Asyncio!Begin, Asyncio!Drained, Asyncio!DrainFails,
                Asyncio!PingReturns, Asyncio!PingTimesOut, Rests
  <2>2. CASE Asyncio!Close \/ Asyncio!LinkDown
    BY <2>2 DEF Asyncio!Close, Asyncio!LinkDown, Rests
  <2>3. CASE Asyncio!ReadMessage
    BY <2>3 DEF Asyncio!ReadMessage, Asyncio!Take, FrameLeaves
  <2>4. CASE Asyncio!ReadPong \/ Asyncio!ReadPing \/ Asyncio!ReadUnknown
    BY <2>4 DEF Asyncio!ReadPong, Asyncio!ReadPing, Asyncio!ReadUnknown, Asyncio!Take, FrameLeaves
  <2>5. CASE Asyncio!PongDrained \/ Asyncio!PongFails \/ Asyncio!ReadFails
    BY <2>5 DEF Asyncio!PongDrained, Asyncio!PongFails, Asyncio!ReadFails, Rests
  <2>6. CASE Asyncio!PeerReads
    BY <1>2, <2>6, PeerAnswers, TransportStays DEF EventLoop, Asyncio!PeerReads
  <2>7. CASE \E kind \in {"WAMP", "PING", "UNKNOWN"} : Asyncio!PeerSends(kind)
    BY <2>7 DEF Asyncio!PeerSends, Asyncio!Frame, Frame, FrameComes, Kinds, PeerKinds
  <2> HIDE DEF Goal
  <2> QED
    BY <1>2, <2>1, <2>2, <2>3, <2>4, <2>5, <2>6, <2>7 DEF EventLoop, Asyncio!Next, Asyncio!ReaderStep
<1> HIDE DEF Goal
<1> QED
  BY <1>1, <1>2 DEF TransportsNext

-----------------------------------------------------------------------------
(* Messages are delivered in order                                         *)

LEMMA FromPeerSteps ==
    ASSUME Types, FromPeer, TransportsNext
    PROVE  FromPeer'
<1>1. CASE Rests
  BY <1>1, NothingArrives DEF Rests
<1>2. CASE \E id \in Nat : PongComes(id)
  BY <1>2, PongArrives DEF PongComes
<1>3. CASE \E kind \in PeerKinds : FrameComes(kind)
  <2>1. PICK kind \in PeerKinds : FrameComes(kind)
    BY <1>3
  <2>2. Len(peerSent) \in Nat
    BY SharedTypes, LenProperties
  <2> QED
    BY <2>1, <2>2, PeerFrameArrives DEF FrameComes
<1>4. CASE FrameLeaves
  BY <1>4, FrameTaken DEF FrameLeaves
<1> QED
  BY <1>1, <1>2, <1>3, <1>4, NetworkSteps

LEMMA DeliverySteps ==
    ASSUME Types, FromPeer, Delivery, TransportsNext
    PROVE  Delivery'
<1>1. ASSUME peerSent' = peerSent, Due' = Due, delivered' = delivered
      PROVE  Delivery'
  <2>1. PICK f : f = delivered
    OBVIOUS
  <2>2. Settled("WAMP", f)'
    BY <1>1, <2>1, SettledKept DEF Delivery
  <2> QED
    BY <1>1, <2>1, <2>2 DEF Delivery
<1>2. CASE Rests /\ delivered' = delivered
  BY <1>1, <1>2, NothingArrives DEF Rests
<1>3. CASE delivered' = delivered /\ \E id \in Nat : PongComes(id)
  BY <1>1, <1>3, PongArrives DEF PongComes
<1>4. CASE delivered' = delivered /\ \E kind \in PeerKinds : FrameComes(kind)
  <2>1. PICK kind \in PeerKinds : FrameComes(kind)
    BY <1>4
  <2>2. PICK n \in Nat : n = Len(peerSent)
    BY SharedTypes, LenProperties
  <2>3. /\ Due' = Due \cup {n + 1}
        /\ Due \subseteq 1..n
        /\ 1..Len(peerSent') = 1..n \cup {n + 1}
        /\ \A k \in 1..n : peerSent'[k] = peerSent[k]
    BY <2>1, <2>2, PeerFrameArrives DEF FrameComes
  <2>4. PICK f : f = delivered
    OBVIOUS
  <2>5. Settled("WAMP", f)'
    BY <2>2, <2>3, <2>4, SettledWhenPeerSends DEF Delivery
  <2>6. \A k \in 1..Len(peerSent') : k \notin Due' => k \in 1..n /\ k \notin Due /\ peerSent'[k] = peerSent[k]
    BY <2>3
  <2>7. \A k \in 1..Len(peerSent') :
            peerSent'[k].kind = "WAMP" /\ k \notin Due' => \E i \in DOMAIN f : f[i] = k
    BY <2>2, <2>4, <2>6 DEF Delivery
  <2> QED
    BY <1>4, <2>4, <2>5, <2>7 DEF Delivery
<1>5. CASE FrameLeaves /\ Head(incoming).kind # "WAMP" /\ delivered' = delivered
  <2>1. CASE Head(incoming).kind = "PONG"
    BY <1>1, <1>5, <2>1, FrameTaken DEF FrameLeaves
  <2>2. CASE Head(incoming).kind # "PONG"
    <3>1. PICK h \in Due : /\ Head(incoming).id = h /\ peerSent[h] = Head(incoming)
                           /\ Due' = Due \ {h}
      BY <1>5, <2>2, FrameTaken DEF FrameLeaves
    <3>2. PICK f : f = delivered
      OBVIOUS
    <3>3. Settled("WAMP", f)'
      BY <1>5, <3>1, <3>2, SettledKept DEF Delivery, FrameLeaves
    <3>4. \A k \in 1..Len(peerSent) :
              peerSent[k].kind = "WAMP" /\ k \notin Due' => \E i \in DOMAIN f : f[i] = k
      BY <1>5, <3>1, <3>2 DEF Delivery
    <3> QED
      BY <1>5, <3>2, <3>3, <3>4 DEF Delivery, FrameLeaves
  <2> QED
    BY <2>1, <2>2
<1>6. CASE /\ FrameLeaves /\ Head(incoming).kind = "WAMP"
           /\ delivered' = Append(delivered, Head(incoming).id)
  <2>1. PICK h \in Due : /\ Head(incoming).id = h /\ peerSent[h] = Head(incoming)
                         /\ Due' = Due \ {h} /\ \A k \in Due : k = h \/ h < k
    BY <1>6, FrameTaken DEF FrameLeaves
  <2>2. PICK f, g : f = delivered /\ g = delivered'
    OBVIOUS
  <2>3. h \in 1..Len(peerSent) /\ h \in Nat /\ peerSent[h].kind = "WAMP"
    BY <1>6, <2>1 DEF Due
  <2>4. f \in Seq(Nat) /\ g = Append(f, h)
    BY <1>6, <2>1, <2>2, SharedTypes
  <2>5. PICK m \in Nat : m = Len(f)
    BY <2>4, LenProperties
  <2>6. /\ DOMAIN f = 1..m /\ DOMAIN g = 1..m \cup {m + 1}
        /\ \A i \in 1..m : g[i] = f[i]
        /\ g[m + 1] = h
    <3>1. g \in Seq(Nat) /\ 1..Len(g) = 1..m \cup {m + 1} /\ (\A i \in 1..m : g[i] = f[i]) /\ g[m + 1] = h
      BY <2>3, <2>4, <2>5, AppendAt
    <3>2. DOMAIN f = 1..Len(f) /\ DOMAIN g = 1..Len(g)
      BY <2>4, <3>1, LenProperties
    <3> QED
      BY <2>5, <3>1, <3>2
  <2>7. \A k \in 1..Len(peerSent) :
            peerSent[k].kind = "WAMP" /\ k \notin Due => \E i \in DOMAIN f : f[i] = k
    BY <2>2 DEF Delivery
  <2>8. \A k \in 1..Len(peerSent) : k < h => k \notin Due
    BY <2>1, <2>3
  <2>9. Settled("WAMP", f)
    BY <2>2 DEF Delivery
  <2>10. \A i \in DOMAIN f : f[i] < h
    BY <2>1, <2>9 DEF Settled
  <2>11. \A k \in 1..Len(peerSent) :
             peerSent[k].kind = "WAMP" /\ k < h => \E i \in DOMAIN f : f[i] = k
    BY <2>7, <2>8
  <2>12. PICK n \in Nat : n = m + 1
    OBVIOUS
  <2>13. Settled("WAMP", g)'
    <3>1. /\ DOMAIN f \subseteq 0..n - 1 /\ DOMAIN g = DOMAIN f \cup {n}
          /\ \A i \in DOMAIN f : g[i] = f[i]
          /\ g[n] = h
      BY <2>6, <2>12
    <3>2. Extends("WAMP", f, g, n, h)
      BY <2>1, <2>3, <2>10, <2>11, <3>1 DEF Extends
    <3>3. Due' = Due \ {h} /\ peerSent' = peerSent
      BY <1>6, <2>1 DEF FrameLeaves
    <3> QED
      BY <2>3, <2>9, <3>2, <3>3, SettledNext
  <2>14. \A k \in 1..Len(peerSent) :
             peerSent[k].kind = "WAMP" /\ k \notin Due' => \E i \in DOMAIN g : g[i] = k
    <3> SUFFICES ASSUME NEW k \in 1..Len(peerSent), peerSent[k].kind = "WAMP", k \notin Due'
                 PROVE  \E i \in DOMAIN g : g[i] = k
      OBVIOUS
    <3>1. CASE k = h
      BY <2>6, <3>1
    <3>2. CASE k # h
      <4>1. PICK i \in DOMAIN f : f[i] = k
        BY <2>1, <2>7, <3>2
      <4> QED
        BY <2>6, <4>1
    <3> QED
      BY <3>1, <3>2
  <2> QED
    BY <1>6, <2>2, <2>13, <2>14 DEF Delivery, FrameLeaves
<1> QED
  BY <1>2, <1>3, <1>4, <1>5, <1>6, NetworkSteps

-----------------------------------------------------------------------------
(* Pings are answered in order                                             *)

PongAt == {j \in 1..Len(stream) : stream[j].frame.kind = "PONG" /\ stream[j].part = "header"}
PongAlone == {j \in 1..Len(stream) : stream[j].kind = "PONG"}

LEMMA AnswersAre ==
    ASSUME Types
    PROVE  /\ transport = "threads" =>
                 /\ Answers = Pongs /\ DOMAIN Answers = PongAt
                 /\ \A i \in PongAt : Answers[i] = stream[i].frame.id
           /\ transport = "asyncio" =>
                 /\ Answers = Asyncio!Pongs /\ DOMAIN Answers = PongAlone
                 /\ \A i \in PongAlone : Answers[i] = stream[i].id
<1> QED
  BY DEF Answers, Both, Pongs, Asyncio!Pongs, PongAt, PongAlone

LEMMA AnswersKept ==
    ASSUME transport' = transport, stream' = stream
    PROVE  Answers' = Answers
<1> QED
  BY DEF Answers, Both, Pongs, Asyncio!Pongs

\* What a thread writes is no answer, unless it is the header of a PONG.
LEMMA PieceWritten ==
    ASSUME Types, transport = "threads", transport' = transport,
           NEW frame \in Frames, NEW part \in {"header", "payload"}, Put(frame, part),
           NEW n \in Nat, n = Len(stream)
    PROVE  /\ frame.kind # "PONG" \/ part # "header" \/ link # "up" => Answers' = Answers
           /\ frame.kind = "PONG" /\ part = "header" /\ link = "up" =>
                 /\ DOMAIN Answers \subseteq 0..n /\ DOMAIN Answers' = DOMAIN Answers \cup {n + 1}
                 /\ \A i \in DOMAIN Answers : Answers'[i] = Answers[i]
                 /\ Answers'[n + 1] = frame.id
<1>1. CASE link # "up"
  BY <1>1, AnswersKept DEF Put
<1>2. CASE link = "up"
  <2> DEFINE new == [frame |-> frame, part |-> part]
  <2>1. stream \in Seq(Pieces) /\ new \in Pieces
    BY DEF Types, TypeOK, Pieces
  <2>2. new.frame = frame /\ new.part = part
    OBVIOUS
  <2>3. stream' = Append(stream, new)
    BY <1>2 DEF Put
  <2> HIDE DEF new
  <2>4. /\ 1..Len(stream') = 1..n \cup {n + 1}
        /\ \A i \in 1..n : stream'[i] = stream[i]
        /\ stream'[n + 1] = new
    BY <2>1, <2>3, AppendAt
  <2>5. Answers = Pongs /\ Answers' = Pongs'
    BY DEF Answers, Both
  <2>6. PongAt \subseteq 1..n
    BY DEF PongAt
  <2>7. DOMAIN Pongs = PongAt /\ (DOMAIN Pongs)' = PongAt' /\ DOMAIN Pongs' = PongAt'
    BY DEF Pongs, PongAt
  <2>8. (\A i \in PongAt : Pongs[i] = stream[i].frame.id) /\ \A i \in PongAt' : Pongs'[i] = stream'[i].frame.id
    BY DEF Pongs, PongAt
  <2>9. CASE frame.kind # "PONG" \/ part # "header"
    <3>1. PongAt' = PongAt
      BY <2>2, <2>4, <2>9 DEF PongAt
    <3>2. \A i \in PongAt : stream'[i].frame.id = stream[i].frame.id
      BY <2>4, <2>6
    <3>3. Pongs = [i \in PongAt |-> stream[i].frame.id] /\ Pongs' = [i \in PongAt' |-> stream'[i].frame.id]
      BY DEF Pongs, PongAt
    <3>4. Pongs' = Pongs
      BY <3>1, <3>2, <3>3
    <3> QED
      BY <1>2, <2>5, <2>9, <3>4
  <2>10. CASE frame.kind = "PONG" /\ part = "header"
    <3>1. PongAt' = PongAt \cup {n + 1}
      BY <2>2, <2>4, <2>10 DEF PongAt
    <3>2. \A i \in PongAt : Pongs'[i] = Pongs[i]
      BY <2>4, <2>6, <2>8, <3>1
    <3>3. Pongs'[n + 1] = frame.id
      BY <2>2, <2>4, <2>8, <3>1
    <3>4. DOMAIN Answers = PongAt /\ DOMAIN Answers' = PongAt'
      BY <2>5, <2>7
    <3>5. DOMAIN Answers \subseteq 0..n /\ DOMAIN Answers' = DOMAIN Answers \cup {n + 1}
      BY <2>6, <3>1, <3>4
    <3>6. \A i \in DOMAIN Answers : Answers'[i] = Answers[i]
      BY <2>5, <3>2, <3>4
    <3>7. Answers'[n + 1] = frame.id
      BY <2>5, <3>3
    <3> QED
      BY <1>2, <2>10, <3>5, <3>6, <3>7
  <2> QED
    BY <2>9, <2>10
<1> QED
  BY <1>1, <1>2

LEMMA FrameWritten ==
    ASSUME Types, transport = "asyncio", transport' = transport,
           NEW frame \in Frames, Asyncio!Put(frame),
           NEW n \in Nat, n = Len(stream)
    PROVE  /\ frame.kind # "PONG" \/ ~Alive => Answers' = Answers
           /\ frame.kind = "PONG" /\ Alive =>
                 /\ DOMAIN Answers \subseteq 0..n /\ DOMAIN Answers' = DOMAIN Answers \cup {n + 1}
                 /\ \A i \in DOMAIN Answers : Answers'[i] = Answers[i]
                 /\ Answers'[n + 1] = frame.id
<1>1. CASE ~Alive
  BY <1>1, AnswersKept DEF Asyncio!Put, Alive
<1>2. CASE Alive
  <2>1. stream \in Seq(Frames)
    BY FrameType DEF Types, Asyncio!TypeOK
  <2>2. stream' = Append(stream, frame)
    BY <1>2 DEF Asyncio!Put, Alive
  <2>3. /\ 1..Len(stream') = 1..n \cup {n + 1}
        /\ \A i \in 1..n : stream'[i] = stream[i]
        /\ stream'[n + 1] = frame
    BY <2>1, <2>2, AppendAt
  <2>4. Answers = Asyncio!Pongs /\ Answers' = Asyncio!Pongs'
    BY DEF Answers, Both
  <2>5. PongAlone \subseteq 1..n
    BY DEF PongAlone
  <2>6. Answers = [i \in PongAlone |-> stream[i].id] /\ Answers' = [i \in PongAlone' |-> stream'[i].id]
    BY <2>4 DEF Asyncio!Pongs, PongAlone
  <2>7. CASE frame.kind # "PONG"
    <3>1. PongAlone' = PongAlone
      BY <2>3, <2>7 DEF PongAlone
    <3>2. \A i \in PongAlone : stream'[i].id = stream[i].id
      BY <2>3, <2>5
    <3>3. Answers' = Answers
      BY <2>6, <3>1, <3>2
    <3> QED
      BY <1>2, <2>7, <3>3
  <2>8. CASE frame.kind = "PONG"
    <3>1. PongAlone' = PongAlone \cup {n + 1}
      BY <2>3, <2>8 DEF PongAlone
    <3>2. \A i \in PongAlone : Answers'[i] = Answers[i]
      BY <2>3, <2>5, <2>6, <3>1
    <3>3. Answers'[n + 1] = frame.id
      BY <2>3, <2>6, <3>1
    <3>4. DOMAIN Answers = PongAlone /\ DOMAIN Answers' = PongAlone'
      BY <2>6
    <3>5. DOMAIN Answers \subseteq 0..n /\ DOMAIN Answers' = DOMAIN Answers \cup {n + 1}
      BY <2>5, <3>1, <3>4
    <3>6. \A i \in DOMAIN Answers : Answers'[i] = Answers[i]
      BY <3>2, <3>4
    <3> QED
      BY <1>2, <2>8, <3>3, <3>5, <3>6
  <2> QED
    BY <2>7, <2>8
<1> QED
  BY <1>1, <1>2

\* Where no PONG is written and no PING taken, the answers stay in order.
LEMMA RepliesKept ==
    ASSUME Replies, transport' = transport, Answers' = Answers, peerSent' = peerSent,
           Due' \subseteq Due, \A k \in Due : k \notin Due' => peerSent[k].kind # "PING",
           Answering' => Answering, answering' = answering,
           transport = "threads" /\ reader' \in {"locking", "header", "payload"} =>
               reader \in {"locking", "header", "payload"},
           Alive' => Alive /\ (Answering => Answering')
    PROVE  Replies'
<1>1. PICK f : f = Answers
  OBVIOUS
<1>2. Settled("PING", f)'
  BY <1>1, SettledKept DEF Replies
<1>3. f = Answers'
  BY <1>1
<1> HIDE DEF Answers
<1>4. Answering' =>
          /\ peerSent[answering].kind = "PING"
          /\ \A i \in DOMAIN f : f[i] < answering
          /\ \A k \in Due' : answering < k
  BY <1>1 DEF Replies
<1>5. transport = "threads" /\ reader' \in {"locking", "header", "payload"} =>
          answering \in 1..Len(peerSent)
  BY DEF Replies
<1>6. Alive' =>
          \A k \in 1..Len(peerSent) :
              peerSent[k].kind = "PING" /\ k \notin Due' =>
                  (Answering' /\ answering = k) \/ \E i \in DOMAIN f : f[i] = k
  BY <1>1 DEF Replies
<1>7. Settled("PING", Answers)'
  BY <1>2, <1>3
<1> HIDE DEF Answering, Alive
<1> QED
  BY <1>3, <1>4, <1>5, <1>6, <1>7 DEF Replies

LEMMA NoPingTaken ==
    ASSUME Types, FromPeer, FrameLeaves, Head(incoming).kind # "PING"
    PROVE  /\ peerSent' = peerSent /\ Due' \subseteq Due
           /\ \A k \in Due : k \notin Due' => peerSent[k].kind # "PING"
<1>1. CASE Head(incoming).kind = "PONG"
  BY <1>1, FrameTaken DEF FrameLeaves
<1>2. CASE Head(incoming).kind # "PONG"
  BY <1>2, FrameTaken DEF FrameLeaves
<1> QED
  BY <1>1, <1>2

LEMMA PingTaken ==
    ASSUME Types, FromPeer, FrameLeaves, Head(incoming).kind = "PING"
    PROVE  \E h \in Due : /\ Head(incoming).id = h /\ peerSent[h].kind = "PING"
                          /\ h \in 1..Len(peerSent) /\ h \in Nat
                          /\ Due' = Due \ {h} /\ \A k \in Due : k = h \/ h < k
                          /\ peerSent' = peerSent
<1>1. PICK h \in Due : /\ Head(incoming).id = h /\ peerSent[h] = Head(incoming)
                       /\ Due' = Due \ {h} /\ \A k \in Due : k = h \/ h < k
  BY FrameTaken DEF FrameLeaves
<1>2. h \in 1..Len(peerSent) /\ h \in Nat
  BY DEF Due
<1>3. peerSent[h].kind = "PING"
  BY <1>1
<1> QED
  BY <1>1, <1>2, <1>3 DEF FrameLeaves

LEMMA RepliesWhenPeerSends ==
    ASSUME Types, FromPeer, Replies, transport' = transport, Answers' = Answers,
           NEW kind \in PeerKinds, FrameComes(kind),
           UNCHANGED <<reader, answering, link, connected>>
    PROVE  Replies'
<1>1. PICK n \in Nat : n = Len(peerSent)
  BY SharedTypes, LenProperties
<1>2. /\ Due' = Due \cup {n + 1}
      /\ Due \subseteq 1..n
      /\ 1..Len(peerSent') = 1..n \cup {n + 1}
      /\ \A k \in 1..n : peerSent'[k] = peerSent[k]
  BY <1>1, PeerFrameArrives DEF FrameComes
<1>3. PICK f : f = Answers
  OBVIOUS
<1>4. Settled("PING", f)'
  BY <1>1, <1>2, <1>3, SettledWhenPeerSends DEF Replies
<1>5. Answering' = Answering /\ Alive' = Alive
  BY DEF Answering, Alive
<1>6. transport = "threads" /\ reader \in {"locking", "header", "payload"} => answering \in 1..n
  BY <1>1 DEF Replies
<1>7. Answering =>
          /\ answering \in 1..n
          /\ peerSent'[answering].kind = "PING"
          /\ \A i \in DOMAIN f : f[i] < answering
          /\ \A k \in Due' : answering < k
  <2> SUFFICES ASSUME Answering
               PROVE  /\ answering \in 1..n
                      /\ peerSent'[answering].kind = "PING"
                      /\ \A i \in DOMAIN f : f[i] < answering
                      /\ \A k \in Due' : answering < k
    OBVIOUS
  <2>1. answering \in 1..n
    BY <1>6 DEF Answering
  <2> QED
    BY <1>2, <1>3, <2>1 DEF Replies
<1>8. \A k \in 1..Len(peerSent') :
          k \notin Due' => k \in 1..n /\ k \notin Due /\ peerSent'[k] = peerSent[k]
  BY <1>2
<1>9. Alive =>
          \A k \in 1..Len(peerSent') :
              peerSent'[k].kind = "PING" /\ k \notin Due' =>
                  (Answering /\ answering = k) \/ \E i \in DOMAIN f : f[i] = k
  BY <1>1, <1>3, <1>8 DEF Replies
<1>10. Settled("PING", Answers)'
  BY <1>3, <1>4
<1>11. f = Answers'
  BY <1>3
<1> HIDE DEF Answers, Answering, Alive
<1> QED
  BY <1>2, <1>5, <1>6, <1>7, <1>9, <1>10, <1>11 DEF Replies

\* A thread that has taken a PING answers it next.
LEMMA RepliesWhenPingRead ==
    ASSUME Types, FromPeer, Replies, transport' = transport, transport = "threads", ReadPing
    PROVE  Replies'
<1>1. /\ FrameLeaves /\ Head(incoming).kind = "PING"
      /\ answering' = Head(incoming).id /\ reader = "read" /\ reader' = "locking"
      /\ stream' = stream /\ Alive' = Alive
  BY DEF ReadPing, Take, FrameLeaves, Alive
<1>2. PICK h \in Due : /\ Head(incoming).id = h /\ peerSent[h].kind = "PING"
                       /\ h \in 1..Len(peerSent) /\ h \in Nat
                       /\ Due' = Due \ {h} /\ \A k \in Due : k = h \/ h < k
                       /\ peerSent' = peerSent
  BY <1>1, PingTaken
<1>3. PICK f : f = Answers
  OBVIOUS
<1>4. f = Answers'
  BY <1>1, <1>3, AnswersKept
<1>5. Settled("PING", f)' /\ Settled("PING", f)
  BY <1>2, <1>3, SettledKept DEF Replies
<1>6. Answering' /\ answering' = h /\ ~Answering
  BY <1>1, <1>2 DEF Answering
<1>7. \A i \in DOMAIN f : f[i] < h
  BY <1>5 DEF Settled
<1>8. Alive =>
          \A k \in 1..Len(peerSent) :
              peerSent[k].kind = "PING" /\ k \notin Due' => h = k \/ \E i \in DOMAIN f : f[i] = k
  BY <1>2, <1>3, <1>6 DEF Replies
<1>9. \A k \in Due' : h < k
  BY <1>2
<1>10. Settled("PING", Answers)'
  BY <1>4, <1>5
<1> HIDE DEF Answers, Answering, Alive
<1> QED
  BY <1>1, <1>2, <1>4, <1>6, <1>7, <1>8, <1>9, <1>10 DEF Replies

\* The answer to PING h is written: its header, or on the event loop the whole frame.
AnswerWritten(n, h) ==
    /\ DOMAIN Answers \subseteq 0..n /\ DOMAIN Answers' = DOMAIN Answers \cup {n + 1}
    /\ \A i \in DOMAIN Answers : Answers'[i] = Answers[i] /\ Answers[i] < h
    /\ Answers'[n + 1] = h
    /\ \A k \in Due : k = h \/ h < k
    /\ peerSent[h].kind = "PING" /\ peerSent' = peerSent /\ Due' = Due \ {h}

LEMMA RepliesWhenAnswered ==
    ASSUME Replies, NEW n \in Nat, NEW h \in 1..Len(peerSent), AnswerWritten(n, h),
           ~Answering', Alive, Answering => answering = h,
           transport' = "threads" /\ reader' \in {"locking", "header", "payload"} =>
               answering' \in 1..Len(peerSent)
    PROVE  Replies'
<1>1. PICK f, g :
          /\ f = Answers /\ g = Answers'
          /\ DOMAIN f \subseteq 0..n /\ DOMAIN g = DOMAIN f \cup {n + 1}
          /\ \A i \in DOMAIN f : g[i] = f[i] /\ f[i] < h
          /\ g[n + 1] = h
  BY DEF AnswerWritten
<1>2. /\ \A k \in Due : k = h \/ h < k
      /\ peerSent[h].kind = "PING" /\ peerSent' = peerSent /\ Due' = Due \ {h}
  BY DEF AnswerWritten
<1>3. \A k \in 1..Len(peerSent) :
          peerSent[k].kind = "PING" /\ k \notin Due => k = h \/ \E i \in DOMAIN f : f[i] = k
  BY <1>1 DEF Replies
<1>4. \A k \in 1..Len(peerSent) : k < h => k \notin Due
  <2> SUFFICES ASSUME NEW k \in 1..Len(peerSent), k < h, k \in Due PROVE FALSE
    OBVIOUS
  <2>1. k = h \/ h < k
    BY <1>2
  <2> QED
    BY <2>1
<1>5. \A k \in 1..Len(peerSent) :
          peerSent[k].kind = "PING" /\ k < h => \E i \in DOMAIN f : f[i] = k
  BY <1>3, <1>4
<1>6. PICK m \in Nat : m = n + 1
  OBVIOUS
<1>7. Extends("PING", f, g, m, h)
  BY <1>1, <1>2, <1>5, <1>6 DEF Extends
<1>8. Settled("PING", f)
  BY <1>1 DEF Replies
<1>9. Settled("PING", g)'
  BY <1>2, <1>6, <1>7, <1>8, SettledNext
<1>10. \A k \in 1..Len(peerSent) :
          peerSent[k].kind = "PING" /\ k \notin Due' => \E i \in DOMAIN g : g[i] = k
  <2> SUFFICES ASSUME NEW k \in 1..Len(peerSent), peerSent[k].kind = "PING", k \notin Due'
               PROVE  \E i \in DOMAIN g : g[i] = k
    OBVIOUS
  <2>1. CASE k = h
    BY <1>1, <2>1
  <2>2. CASE k # h
    <3>1. PICK i \in DOMAIN f : f[i] = k
      BY <1>2, <1>3, <2>2
    <3> QED
      BY <1>1, <3>1
  <2> QED
    BY <2>1, <2>2
<1>11. Settled("PING", Answers)'
  BY <1>1, <1>9
<1> HIDE DEF Answers, Answering, Alive
<1> QED
  BY <1>1, <1>2, <1>10, <1>11 DEF Replies

LEMMA RepliesOnThreads ==
    ASSUME Types, FromPeer, Replies, Threads(Next)
    PROVE  Replies'
<1> DEFINE Goal == Replies'
<1> SUFFICES Goal
  OBVIOUS
<1> USE DEF callVars, readVars, peerVars
<1>1. /\ transport = "threads" /\ transport' = "threads" /\ transport' = transport
      /\ call \in [Ops -> Kinds] /\ Ops \subseteq Nat
  BY SharedTypes DEF Threads, Ops
<1>2. PICK n \in Nat : n = Len(stream)
  BY SharedTypes
<1>3. ASSUME peerSent' = peerSent, Due' = Due, Answers' = Answers, answering' = answering,
             reader' = reader, link' \in {link, "down"}
      PROVE  Goal
  BY <1>1, <1>3, RepliesKept DEF Answering, Alive
<1>4. ASSUME Rests, Answers' = Answers, answering' = answering,
             reader' = reader, link' \in {link, "down"}
      PROVE  Goal
  BY <1>3, <1>4, NothingArrives DEF Rests
<1>5. ASSUME NEW o \in Ops, CallStep(o) \/ \E kind \in {"WAMP", "PING"} : Begin(o, kind)
      PROVE  Goal
  <2>1. Answers' = Answers
    <3>1. Frame(call[o], o) \in Frames /\ Frame(call[o], o).kind # "PONG"
      BY <1>1, FrameType DEF Kinds
    <3>2. CASE SendHeader(o)
      BY <1>1, <1>2, <3>1, <3>2, PieceWritten DEF SendHeader
    <3>3. CASE SendPayload(o)
      BY <1>1, <1>2, <3>1, <3>3, PieceWritten DEF SendPayload
    <3>4. CASE ~SendHeader(o) /\ ~SendPayload(o)
      BY <1>1, <1>5, <3>4, AnswersKept DEF CallStep, Begin, Locked, SendFails, PingEnds
    <3> QED
      BY <3>2, <3>3, <3>4
  <2>2. Rests /\ answering' = answering /\ reader' = reader /\ link' \in {link, "down"}
    BY <1>5 DEF CallStep, Begin, Locked, SendHeader, SendPayload, SendFails, PingEnds, Rests,
                Unlock, SendRaises
  <2> QED
    BY <1>4, <2>1, <2>2
<1>6. CASE Close \/ LinkDown
  <2>1. Answers' = Answers
    BY <1>1, <1>6, AnswersKept DEF Close, LinkDown
  <2> QED
    BY <1>4, <1>6, <2>1 DEF Close, LinkDown, Rests
<1>7. CASE ReadMessage \/ ReadPong \/ ReadUnknown
  <2>1. Answers' = Answers
    BY <1>1, <1>7, AnswersKept DEF ReadMessage, ReadPong, ReadUnknown
  <2>2. /\ FrameLeaves /\ Head(incoming).kind # "PING"
        /\ reader = "read" /\ reader' \in {"read", "failed"}
        /\ answering' = answering /\ link' = link
    BY <1>7 DEF ReadMessage, ReadPong, ReadUnknown, Take, FrameLeaves, SkipFrame
  <2> QED
    BY <1>1, <2>1, <2>2, NoPingTaken, RepliesKept DEF Answering, Alive
<1>8. CASE ReadPing
  BY <1>1, <1>8, RepliesWhenPingRead
<1>9. CASE PongLocked
  <2>1. Answers' = Answers
    BY <1>1, <1>9, AnswersKept DEF PongLocked
  <2>2. Rests /\ reader = "locking" /\ reader' = "header" /\ UNCHANGED <<answering, link>>
    BY <1>9 DEF PongLocked, Rests
  <2> QED
    BY <1>1, <2>1, <2>2, NothingArrives, RepliesKept DEF Answering, Alive, Rests
<1>10. CASE PongHeader
  <2>1. /\ Rests /\ reader = "header" /\ reader' = "payload"
        /\ Put(Frame("PONG", answering), "header") /\ UNCHANGED <<answering, link>>
    BY <1>10 DEF PongHeader, Rests
  <2>2. PICK h : h = answering
    OBVIOUS
  <2>3. h \in 1..Len(peerSent) /\ h \in Nat /\ Answering /\ ~Answering'
    BY <1>1, <2>1, <2>2 DEF Replies, Answering
  <2>4. Frame("PONG", h) \in Frames /\ Frame("PONG", h).kind = "PONG" /\ Frame("PONG", h).id = h
    BY <2>3, FrameType
  <2>5. Put(Frame("PONG", h), "header") /\ peerSent' = peerSent /\ Due' = Due
    BY <2>1, <2>2, NothingArrives DEF Rests
  <2>6. CASE link # "up"
    <3>1. Answers' = Answers
      BY <1>1, <1>2, <2>4, <2>5, <2>6, PieceWritten
    <3> QED
      BY <1>1, <2>1, <2>3, <2>5, <2>6, <3>1, RepliesKept DEF Alive
  <2>7. CASE link = "up"
    <3>1. /\ DOMAIN Answers \subseteq 0..n /\ DOMAIN Answers' = DOMAIN Answers \cup {n + 1}
          /\ \A i \in DOMAIN Answers : Answers'[i] = Answers[i]
          /\ Answers'[n + 1] = h
      BY <1>1, <1>2, <2>4, <2>5, <2>7, PieceWritten
    <3>2. /\ peerSent[h].kind = "PING"
          /\ \A i \in DOMAIN Answers : Answers[i] < h
          /\ \A k \in Due : h < k
      BY <2>2, <2>3 DEF Replies
    <3>3. h \notin Due
      BY <2>3, <3>2
    <3>4. AnswerWritten(n, h)
      BY <2>5, <3>1, <3>2, <3>3 DEF AnswerWritten
    <3>5. answering = h /\ answering' = h
      BY <2>1, <2>2
    <3> QED
      BY <1>1, <2>3, <2>7, <3>4, <3>5, RepliesWhenAnswered DEF Alive
  <2> QED
    BY <2>6, <2>7
<1>11. CASE PongPayload
  <2>1. /\ Rests /\ reader = "payload" /\ reader' \in {"read", "failed"}
        /\ Put(Frame("PONG", answering), "payload")
        /\ answering' = answering /\ link' \in {link, "down"}
    BY <1>11 DEF PongPayload, SkipFrame, Unlock, Rests
  <2>2. answering \in Nat
    BY <1>1, <2>1 DEF Replies
  <2>3. Frame("PONG", answering) \in Frames
    BY <2>2, FrameType
  <2>4. Answers' = Answers
    BY <1>1, <1>2, <2>1, <2>3, PieceWritten
  <2> QED
    BY <1>1, <2>1, <2>4, NothingArrives, RepliesKept DEF Answering, Alive, Rests
<1>12. CASE PongFails \/ ReadFails
  <2>1. Answers' = Answers
    BY <1>1, <1>12, AnswersKept DEF PongFails, ReadFails
  <2>2. /\ Rests /\ reader' = "failed" /\ answering' = answering
        /\ link' = "down" \/ (link' = link /\ ~Answering)
    BY <1>12 DEF PongFails, ReadFails, SendRaises, Answering, Rests
  <2> QED
    BY <1>1, <2>1, <2>2, NothingArrives, RepliesKept DEF Answering, Alive, Rests
<1>13. CASE PeerReads
  <2>1. Answers' = Answers
    BY <1>1, <1>13, AnswersKept DEF PeerReads
  <2>2. UNCHANGED <<answering, reader, link, delivered>>
    BY <1>13 DEF PeerReads
  <2>3. Rests \/ \E id \in Nat : PongComes(id)
    BY <1>1, <1>13, PeerAnswers
  <2>4. peerSent' = peerSent /\ Due' = Due
    BY <2>3, NothingArrives, PongArrives DEF Rests, PongComes
  <2> QED
    BY <1>3, <2>1, <2>2, <2>4
<1>14. CASE \E kind \in {"WAMP", "PING", "UNKNOWN"} : PeerSends(kind)
  <2>1. PICK kind \in PeerKinds : PeerSends(kind)
    BY <1>14 DEF Kinds, PeerKinds
  <2>2. Answers' = Answers
    BY <1>1, <2>1, AnswersKept DEF PeerSends
  <2> QED
    BY <1>1, <2>1, <2>2, RepliesWhenPeerSends DEF PeerSends, FrameComes
<1> HIDE DEF Goal
<1> QED
  BY <1>5, <1>6, <1>7, <1>8, <1>9, <1>10, <1>11, <1>12, <1>13, <1>14 DEF Threads, Next, ReaderStep

LEMMA RepliesOnEventLoop ==
    ASSUME Types, FromPeer, Replies, EventLoop(Asyncio!Next)
    PROVE  Replies'
<1> DEFINE Goal == Replies'
<1> SUFFICES Goal
  OBVIOUS
<1> USE DEF Asyncio!callVars, Asyncio!readVars, Asyncio!peerVars
<1>1. /\ transport = "asyncio" /\ transport' = "asyncio" /\ transport' = transport
      /\ answering' = answering /\ ~Answering /\ ~Answering'
      /\ call \in [Ops -> Kinds] /\ Ops \subseteq Nat /\ Asyncio!Ops = Ops
  BY SharedTypes, FrameType DEF EventLoop, Ops, Answering
<1>2. PICK n \in Nat : n = Len(stream)
  BY SharedTypes
<1>3. ASSUME Rests, Answers' = Answers, Alive' => Alive
      PROVE  Goal
  BY <1>1, <1>3, NothingArrives, RepliesKept DEF Rests
<1>4. ASSUME NEW o \in Ops, NEW kind \in {"WAMP", "PING"}, Asyncio!Begin(o, kind)
      PROVE  Goal
  <2>1. /\ Asyncio!Frame(kind, o) \in Frames /\ Asyncio!Frame(kind, o).kind # "PONG"
    BY <1>1, FrameType
  <2>2. Answers' = Answers
    BY <1>1, <1>2, <1>4, <2>1, FrameWritten DEF Asyncio!Begin
  <2> QED
    BY <1>1, <1>3, <1>4, <2>2 DEF Asyncio!Begin, Rests, Alive
<1>5. ASSUME NEW o \in Ops, Asyncio!CallStep(o)
      PROVE  Goal
  <2>1. stream' = stream /\ Rests /\ (Alive' => Alive)
    BY <1>1, <1>5 DEF Asyncio!CallStep, Asyncio!Drained, Asyncio!DrainFails,
                      Asyncio!PingReturns, Asyncio!PingTimesOut, Rests, Alive
  <2> QED
    BY <1>1, <1>3, <2>1, AnswersKept
<1>6. CASE Asyncio!Close \/ Asyncio!LinkDown
  <2>1. Answers' = Answers
    BY <1>1, <1>6, AnswersKept DEF Asyncio!Close, Asyncio!LinkDown
  <2> QED
    BY <1>1, <1>3, <1>6, <2>1 DEF Asyncio!Close, Asyncio!LinkDown, Rests, Alive
<1>7. CASE Asyncio!ReadMessage \/ Asyncio!ReadPong \/ Asyncio!ReadUnknown
  <2>1. Answers' = Answers
    BY <1>1, <1>7, AnswersKept DEF Asyncio!ReadMessage, Asyncio!ReadPong, Asyncio!ReadUnknown
  <2>2. FrameLeaves /\ Head(incoming).kind # "PING" /\ Alive' = Alive
    BY <1>1, <1>7 DEF Asyncio!ReadMessage, Asyncio!ReadPong, Asyncio!ReadUnknown,
                      Asyncio!Take, FrameLeaves, Alive
  <2> QED
    BY <1>1, <2>1, <2>2, NoPingTaken, RepliesKept
<1>8. CASE Asyncio!ReadPing
  <2>1. /\ FrameLeaves /\ Head(incoming).kind = "PING" /\ Alive' = Alive
        /\ Asyncio!Put(Asyncio!Frame("PONG", Head(incoming).id))
    BY <1>1, <1>8 DEF Asyncio!ReadPing, Asyncio!Take, FrameLeaves, Alive
  <2>2. PICK h \in Due : /\ Head(incoming).id = h /\ peerSent[h].kind = "PING"
                         /\ h \in 1..Len(peerSent) /\ h \in Nat
                         /\ Due' = Due \ {h} /\ \A k \in Due : k = h \/ h < k
                         /\ peerSent' = peerSent
    BY <2>1, PingTaken
  <2>3. PICK frame \in Frames : /\ frame.kind = "PONG" /\ frame.id = h
                                /\ Asyncio!Put(frame)
    BY <2>1, <2>2, FrameType
  <2>4. CASE ~Alive
    <3>1. PICK f : f = Answers
      OBVIOUS
    <3>2. f = Answers'
      BY <1>1, <1>2, <2>3, <2>4, <3>1, FrameWritten
    <3>3. Settled("PING", f)'
      BY <2>2, <3>1, SettledKept DEF Replies
    <3>4. Settled("PING", Answers)'
      BY <3>2, <3>3
    <3> HIDE DEF Answers, Answering, Alive
    <3> QED
      BY <1>1, <2>1, <2>4, <3>4 DEF Replies
  <2>5. CASE Alive
    <3>1. /\ DOMAIN Answers \subseteq 0..n /\ DOMAIN Answers' = DOMAIN Answers \cup {n + 1}
          /\ \A i \in DOMAIN Answers : Answers'[i] = Answers[i]
          /\ Answers'[n + 1] = h
      BY <1>1, <1>2, <2>3, <2>5, FrameWritten
    <3>2. \A i \in DOMAIN Answers : Answers[i] < h
      BY DEF Replies, Settled
    <3>3. AnswerWritten(n, h)
      BY <2>2, <3>1, <3>2 DEF AnswerWritten
    <3> QED
      BY <1>1, <2>2, <2>5, <3>3, RepliesWhenAnswered
  <2> QED
    BY <2>4, <2>5
<1>9. CASE Asyncio!PongDrained \/ Asyncio!PongFails \/ Asyncio!ReadFails
  <2>1. stream' = stream /\ Rests /\ (Alive' => Alive)
    BY <1>1, <1>9 DEF Asyncio!PongDrained, Asyncio!PongFails, Asyncio!ReadFails, Rests, Alive
  <2> QED
    BY <1>1, <1>3, <2>1, AnswersKept
<1>10. CASE Asyncio!PeerReads
  <2>1. Answers' = Answers /\ Alive' = Alive
    BY <1>1, <1>10, AnswersKept DEF Asyncio!PeerReads, Alive
  <2>2. Rests \/ \E id \in Nat : PongComes(id)
    BY <1>1, <1>10, PeerAnswers
  <2>3. peerSent' = peerSent /\ Due' = Due
    BY <2>2, NothingArrives, PongArrives DEF Rests, PongComes
  <2> QED
    BY <1>1, <2>1, <2>3, RepliesKept
<1>11. CASE \E kind \in {"WAMP", "PING", "UNKNOWN"} : Asyncio!PeerSends(kind)
  <2>1. PICK kind \in PeerKinds : Asyncio!PeerSends(kind)
    BY <1>11 DEF Kinds, PeerKinds
  <2>2. Answers' = Answers
    BY <1>1, <2>1, AnswersKept DEF Asyncio!PeerSends
  <2>3. FrameComes(kind) /\ UNCHANGED <<reader, link, connected>>
    BY <2>1 DEF Asyncio!PeerSends, Asyncio!Frame, Frame, FrameComes
  <2> QED
    BY <1>1, <2>2, <2>3, RepliesWhenPeerSends
<1> HIDE DEF Goal
<1> QED
  BY <1>1, <1>4, <1>5, <1>6, <1>7, <1>8, <1>9, <1>10, <1>11
  DEF EventLoop, Asyncio!Next, Asyncio!ReaderStep

-----------------------------------------------------------------------------
(* Type correctness                                                        *)

\* What is written keeps the type of the stream and adds to it at its end.
LEMMA PutType ==
    ASSUME Types, transport = "threads",
           NEW frame \in Frames, NEW part \in {"header", "payload"}, Put(frame, part)
    PROVE  stream' \in Seq(Pieces) /\ peerRead \in 0..Len(stream')
<1>1. /\ stream \in Seq(Pieces) /\ [frame |-> frame, part |-> part] \in Pieces
      /\ Len(stream) \in Nat /\ peerRead \in 0..Len(stream)
  BY SharedTypes DEF Types, TypeOK, Pieces
<1>2. CASE link = "up"
  <2>1. stream' = Append(stream, [frame |-> frame, part |-> part])
    BY <1>2 DEF Put
  <2>2. stream' \in Seq(Pieces) /\ Len(stream') = Len(stream) + 1
    BY <1>1, <2>1, AppendAt
  <2> QED
    BY <1>1, <2>2
<1>3. CASE link # "up"
  BY <1>1, <1>3 DEF Put
<1> QED
  BY <1>2, <1>3

LEMMA AsyncPutType ==
    ASSUME Types, transport = "asyncio", NEW frame \in Frames, Asyncio!Put(frame)
    PROVE  stream' \in Seq(Frames) /\ peerRead \in 0..Len(stream')
<1>1. stream \in Seq(Frames) /\ Len(stream) \in Nat /\ peerRead \in 0..Len(stream)
  BY SharedTypes, FrameType DEF Types, Asyncio!TypeOK
<1>2. CASE Alive
  <2>1. stream' = Append(stream, frame)
    BY <1>2 DEF Asyncio!Put, Alive
  <2>2. stream' \in Seq(Frames) /\ Len(stream') = Len(stream) + 1
    BY <1>1, <2>1, AppendAt
  <2> QED
    BY <1>1, <2>2
<1>3. CASE ~Alive
  BY <1>1, <1>3 DEF Asyncio!Put, Alive
<1> QED
  BY <1>2, <1>3

\* The frames from the peer keep their types.
LEMMA NetworkTypes ==
    ASSUME Types, TransportsNext
    PROVE  incoming' \in Seq(Frames) /\ peerSent' \in Seq(Frames) /\ delivered' \in Seq(Nat)
<1>1. incoming \in Seq(Frames) /\ peerSent \in Seq(Frames) /\ delivered \in Seq(Nat)
  BY SharedTypes
<1>2. CASE \E id \in Nat : PongComes(id)
  <2>1. PICK frame \in Frames : incoming' = Append(incoming, frame) /\ peerSent' = peerSent
    BY <1>2, FrameType DEF PongComes
  <2> QED
    BY <1>1, <1>2, <2>1, AppendProperties, NetworkSteps DEF Rests, FrameComes, FrameLeaves
<1>3. CASE \E kind \in PeerKinds : FrameComes(kind)
  <2>1. PICK kind \in PeerKinds : FrameComes(kind)
    BY <1>3
  <2>2. Len(peerSent) + 1 \in Nat
    BY <1>1, LenProperties
  <2>3. PICK frame \in Frames :
            incoming' = Append(incoming, frame) /\ peerSent' = Append(peerSent, frame)
    BY <2>1, <2>2, FrameType DEF FrameComes, Kinds, PeerKinds
  <2>4. incoming' \in Seq(Frames) /\ peerSent' \in Seq(Frames) /\ Len(peerSent') = Len(peerSent) + 1
    BY <1>1, <2>3, AppendProperties
  <2>5. peerSent' # peerSent
    BY <1>1, <2>4, LenProperties
  <2> QED
    BY <1>1, <2>4, <2>5, NetworkSteps DEF Rests, PongComes, FrameLeaves
<1>4. CASE Rests /\ delivered' = delivered
  BY <1>1, <1>4 DEF Rests
<1>5. CASE FrameLeaves /\ delivered' \in {delivered, Append(delivered, Head(incoming).id)}
  <2>1. Tail(incoming) \in Seq(Frames) /\ Head(incoming) \in Frames
    BY <1>1, <1>5, HeadTailProperties DEF FrameLeaves
  <2>2. Head(incoming).id \in Nat
    BY <2>1, FrameType
  <2>3. Append(delivered, Head(incoming).id) \in Seq(Nat)
    BY <1>1, <2>2, AppendProperties
  <2> QED
    BY <1>1, <1>5, <2>1, <2>3 DEF FrameLeaves
<1> QED
  BY <1>2, <1>3, <1>4, <1>5, NetworkSteps

LEMMA DepthSteps ==
    \A d \in 0..RecursionLimit : d < RecursionLimit => d + 1 \in 0..RecursionLimit
<1> QED
  BY RawSocketAssumption

LEMMA TypesOnThreads ==
    ASSUME Types, FromPeer, Replies, Failing, Threads(Next)
    PROVE  Types'
<1> USE DEF callVars, readVars, peerVars
<1>1. /\ transport = "threads" /\ transport' = "threads" /\ cancelled' = {} /\ TypeOK
      /\ reader \in {"locking", "header", "payload"} => answering \in 1..Len(peerSent)
      /\ reader # "failed" => depth < RecursionLimit
      /\ Next
  BY DEF Types, Threads, Replies, Failing
<1>2. SUFFICES TypeOK'
  BY <1>1 DEF Types
<1>3. incoming' \in Seq(Frames) /\ peerSent' \in Seq(Frames) /\ delivered' \in Seq(Nat)
  BY NetworkTypes DEF TransportsNext
<1>4. /\ depth \in 0..RecursionLimit /\ RecursionLimit \in Nat \ {0}
      /\ depth < RecursionLimit => depth + 1 \in 0..RecursionLimit
  BY <1>1, DepthSteps, RawSocketAssumption DEF TypeOK
<1>5. Len(stream) \in Nat /\ peerRead \in 0..Len(stream)
  BY SharedTypes
<1>6. stream \in Seq(Pieces)
  BY <1>1 DEF TypeOK, Pieces
<1> DEFINE PcType == pc' \in [Ops -> {"idle", "locking", "header", "payload", "awaiting",
                                       "returned", "timed_out", "raised"}]
           CallTypes == /\ PcType /\ call' \in [Ops -> {"WAMP", "PING"}]
                        /\ pending' \subseteq Ops /\ result' \subseteq Ops
           ReaderTypes == /\ reader' \in {"read", "locking", "header", "payload", "failed"}
                          /\ answering' \in 1..MaxPeerFrames \cup {NoOne}
                          /\ depth' \in 0..RecursionLimit
           LinkTypes == /\ connected' \in BOOLEAN /\ link' \in {"up", "down"}
                        /\ lock' \in Ops \cup {Reader, NoOne}
           StreamTypes == peerRead' \in 0..Len(stream') /\ stream' \in Seq(Pieces)
<1>7. SUFFICES CallTypes /\ ReaderTypes /\ LinkTypes /\ StreamTypes
  BY <1>3 DEF TypeOK, Pieces
<1>8. ASSUME NEW o \in Ops, NEW kind \in {"WAMP", "PING"}, Begin(o, kind)
      PROVE  CallTypes /\ ReaderTypes /\ LinkTypes /\ StreamTypes
  BY <1>1, <1>5, <1>6, <1>8 DEF TypeOK, Begin
<1>9. ASSUME NEW o \in Ops, CallStep(o)
      PROVE  CallTypes /\ ReaderTypes /\ LinkTypes /\ StreamTypes
  <2>1. CallTypes /\ ReaderTypes /\ LinkTypes
    BY <1>1, <1>9 DEF TypeOK, CallStep, Locked, SendHeader, SendPayload, SendFails, PingEnds,
                      Acquire, Unlock, SendRaises
  <2>2. Frame(call[o], o) \in Frames
    <3>1. call[o] \in Kinds /\ o \in Nat
      BY SharedTypes DEF Ops
    <3> QED
      BY <3>1, FrameType DEF Kinds
  <2>3. StreamTypes
    <3>1. CASE SendHeader(o)
      BY <1>1, <2>2, <3>1, PutType DEF SendHeader
    <3>2. CASE SendPayload(o)
      BY <1>1, <2>2, <3>2, PutType DEF SendPayload
    <3>3. CASE ~SendHeader(o) /\ ~SendPayload(o)
      BY <1>5, <1>6, <1>9, <3>3 DEF CallStep, Locked, SendFails, PingEnds
    <3> QED
      BY <3>1, <3>2, <3>3
  <2> QED
    BY <2>1, <2>3
<1>10. CASE Close \/ LinkDown
  BY <1>1, <1>5, <1>6, <1>10 DEF TypeOK, Close, LinkDown
<1>11. CASE ReadMessage \/ ReadUnknown
  BY <1>1, <1>4, <1>5, <1>6, <1>11 DEF TypeOK, ReadMessage, ReadUnknown, Take
<1>12. CASE ReadPong
  <2>1. reader = "read"
    BY <1>12 DEF ReadPong, Take
  <2>2. depth' = depth + 1 /\ depth' \in 0..RecursionLimit /\ reader' \in {"read", "failed"}
    BY <1>1, <1>4, <1>12, <2>1 DEF ReadPong, SkipFrame
  <2>3. pending' \subseteq pending /\ result' \subseteq result \cup pending
    BY <1>12 DEF ReadPong
  <2> QED
    BY <1>1, <1>5, <1>6, <1>12, <2>2, <2>3 DEF TypeOK, ReadPong, Take
<1>13. CASE ReadPing
  <2>1. FrameLeaves /\ Head(incoming).kind = "PING" /\ answering' = Head(incoming).id
    BY <1>13 DEF ReadPing, Take, FrameLeaves
  <2>2. answering' \in 1..Len(peerSent)
    BY <2>1, PingTaken
  <2>3. answering' \in 1..MaxPeerFrames
    <3>1. Len(peerSent) \in Nat /\ Len(peerSent) <= MaxPeerFrames /\ MaxPeerFrames \in Nat
      BY SharedTypes, LenProperties, RawSocketAssumption DEF FromPeer
    <3> QED
      BY <2>2, <3>1
  <2> QED
    BY <1>1, <1>5, <1>6, <1>13, <2>3 DEF TypeOK, ReadPing, Take
<1>14. CASE PongLocked
  BY <1>1, <1>5, <1>6, <1>14 DEF TypeOK, PongLocked, Acquire
<1>15. CASE PongHeader
  <2>1. Frame("PONG", answering) \in Frames
    BY <1>1, <1>15, FrameType DEF PongHeader
  <2>2. StreamTypes
    BY <1>1, <1>15, <2>1, PutType DEF PongHeader
  <2> QED
    BY <1>1, <1>15, <2>2 DEF TypeOK, PongHeader
<1>16. CASE PongPayload
  <2>1. Frame("PONG", answering) \in Frames
    BY <1>1, <1>16, FrameType DEF PongPayload
  <2>2. StreamTypes
    BY <1>1, <1>16, <2>1, PutType DEF PongPayload
  <2>3. depth' = depth + 1 /\ depth' \in 0..RecursionLimit /\ reader' \in {"read", "failed"}
    BY <1>1, <1>4, <1>16 DEF PongPayload, SkipFrame
  <2> QED
    BY <1>1, <1>16, <2>2, <2>3 DEF TypeOK, PongPayload, Unlock
<1>17. CASE PongFails \/ ReadFails
  BY <1>1, <1>5, <1>6, <1>17 DEF TypeOK, PongFails, SendRaises, ReadFails
<1>18. CASE PeerReads
  <2>1. peerRead' \in 0..Len(stream)
    BY <1>5, <1>18 DEF PeerReads
  <2> QED
    BY <1>1, <1>6, <1>18, <2>1 DEF TypeOK, PeerReads
<1>19. CASE \E kind \in {"WAMP", "PING", "UNKNOWN"} : PeerSends(kind)
  BY <1>1, <1>5, <1>6, <1>19 DEF TypeOK, PeerSends
<1> HIDE DEF CallTypes, ReaderTypes, LinkTypes, StreamTypes
<1> QED
  BY <1>1, <1>8, <1>9, <1>10, <1>11, <1>12, <1>13, <1>14, <1>15, <1>16, <1>17, <1>18, <1>19
  DEF Next, ReaderStep

LEMMA TypesOnEventLoop ==
    ASSUME Types, FromPeer, Failing, EventLoop(Asyncio!Next)
    PROVE  Types'
<1> USE DEF Asyncio!callVars, Asyncio!readVars, Asyncio!peerVars
<1>1. /\ transport = "asyncio" /\ transport' = "asyncio" /\ lock' = NoOne /\ answering' = NoOne
      /\ Asyncio!TypeOK
      /\ reader # "failed" => depth < RecursionLimit
      /\ Asyncio!Next
  BY DEF Types, EventLoop, Failing
<1>2. SUFFICES Asyncio!TypeOK'
  BY <1>1 DEF Types
<1>3. incoming' \in Seq(Frames) /\ peerSent' \in Seq(Frames) /\ delivered' \in Seq(Nat)
  BY NetworkTypes DEF TransportsNext
<1>4. /\ depth \in 0..RecursionLimit /\ RecursionLimit \in Nat \ {0}
      /\ depth < RecursionLimit => depth + 1 \in 0..RecursionLimit
  BY <1>1, DepthSteps, RawSocketAssumption DEF Asyncio!TypeOK
<1>5. Len(stream) \in Nat /\ peerRead \in 0..Len(stream)
  BY SharedTypes
<1>6. stream \in Seq(Frames) /\ Asyncio!Frames = Frames /\ Asyncio!Ops = Ops
  BY <1>1, FrameType DEF Asyncio!TypeOK
<1> DEFINE CallTypes == /\ pc' \in [Ops -> {"idle", "draining", "awaiting", "returned",
                                             "timed_out", "raised"}]
                        /\ call' \in [Ops -> {"WAMP", "PING"}]
                        /\ pending' \subseteq Ops /\ result' \subseteq Ops
                        /\ cancelled' \subseteq Ops
           ReaderTypes == /\ reader' \in {"read", "draining", "failed"}
                          /\ depth' \in 0..RecursionLimit
           LinkTypes == connected' \in BOOLEAN /\ link' \in {"up", "down"}
           StreamTypes == peerRead' \in 0..Len(stream') /\ stream' \in Seq(Frames)
<1>7. SUFFICES CallTypes /\ ReaderTypes /\ LinkTypes /\ StreamTypes
  BY <1>3, <1>6 DEF Asyncio!TypeOK
<1>8. ASSUME NEW o \in Ops, NEW kind \in {"WAMP", "PING"}, Asyncio!Begin(o, kind)
      PROVE  CallTypes /\ ReaderTypes /\ LinkTypes /\ StreamTypes
  <2>1. Asyncio!Frame(kind, o) \in Frames
    BY FrameType DEF Ops
  <2>2. StreamTypes
    BY <1>1, <1>8, <2>1, AsyncPutType DEF Asyncio!Begin
  <2> QED
    BY <1>1, <1>6, <1>8, <2>2 DEF Asyncio!TypeOK, Asyncio!Begin
<1>9. ASSUME NEW o \in Ops, Asyncio!CallStep(o)
      PROVE  CallTypes /\ ReaderTypes /\ LinkTypes /\ StreamTypes
  <2>1. CASE Asyncio!Drained(o)
    BY <1>1, <1>5, <1>6, <2>1 DEF Asyncio!TypeOK, Asyncio!Drained
  <2>2. CASE Asyncio!DrainFails(o)
    BY <1>1, <1>5, <1>6, <2>2 DEF Asyncio!TypeOK, Asyncio!DrainFails
  <2>3. CASE Asyncio!PingReturns(o)
    BY <1>1, <1>5, <1>6, <2>3 DEF Asyncio!TypeOK, Asyncio!PingReturns
  <2>4. CASE Asyncio!PingTimesOut(o)
    BY <1>1, <1>5, <1>6, <2>4 DEF Asyncio!TypeOK, Asyncio!PingTimesOut
  <2> HIDE DEF CallTypes, ReaderTypes, LinkTypes, StreamTypes
  <2> QED
    BY <1>9, <2>1, <2>2, <2>3, <2>4 DEF Asyncio!CallStep
<1>10. CASE Asyncio!Close \/ Asyncio!LinkDown
  BY <1>1, <1>5, <1>6, <1>10 DEF Asyncio!TypeOK, Asyncio!Close, Asyncio!LinkDown
<1>11. CASE Asyncio!ReadMessage \/ Asyncio!ReadUnknown
  BY <1>1, <1>4, <1>5, <1>6, <1>11
  DEF Asyncio!TypeOK, Asyncio!ReadMessage, Asyncio!ReadUnknown, Asyncio!Take
<1>12. CASE Asyncio!ReadPong
  <2>1. reader = "read"
    BY <1>12 DEF Asyncio!ReadPong, Asyncio!Take
  <2>2. depth' \in 0..RecursionLimit /\ reader' \in {"read", "failed"}
    BY <1>1, <1>4, <1>12, <2>1 DEF Asyncio!ReadPong, Asyncio!SkipFrame
  <2>3. pending' \subseteq pending /\ result' \subseteq result \cup pending
    BY <1>12 DEF Asyncio!ReadPong
  <2> QED
    BY <1>1, <1>5, <1>6, <1>12, <2>2, <2>3 DEF Asyncio!TypeOK, Asyncio!ReadPong, Asyncio!Take
<1>13. CASE Asyncio!ReadPing
  <2>1. Head(incoming) \in Frames
    BY <1>13, SharedTypes, HeadTailProperties DEF Asyncio!ReadPing, Asyncio!Take
  <2>2. Asyncio!Frame("PONG", Head(incoming).id) \in Frames
    BY <2>1, FrameType
  <2>3. StreamTypes
    BY <1>1, <1>13, <2>2, AsyncPutType DEF Asyncio!ReadPing, Asyncio!Take
  <2> QED
    BY <1>1, <1>6, <1>13, <2>3 DEF Asyncio!TypeOK, Asyncio!ReadPing, Asyncio!Take
<1>14. CASE Asyncio!PongDrained
  <2>1. depth' \in 0..RecursionLimit /\ reader' \in {"read", "failed"}
    BY <1>1, <1>4, <1>14 DEF Asyncio!PongDrained, Asyncio!SkipFrame
  <2> QED
    BY <1>1, <1>5, <1>6, <1>14, <2>1 DEF Asyncio!TypeOK, Asyncio!PongDrained
<1>15. CASE Asyncio!PongFails \/ Asyncio!ReadFails
  BY <1>1, <1>5, <1>6, <1>15 DEF Asyncio!TypeOK, Asyncio!PongFails, Asyncio!ReadFails
<1>16. CASE Asyncio!PeerReads
  <2>1. peerRead' \in 0..Len(stream)
    BY <1>5, <1>16 DEF Asyncio!PeerReads
  <2> QED
    BY <1>1, <1>6, <1>16, <2>1 DEF Asyncio!TypeOK, Asyncio!PeerReads
<1>17. CASE \E kind \in {"WAMP", "PING", "UNKNOWN"} : Asyncio!PeerSends(kind)
  BY <1>1, <1>5, <1>6, <1>17 DEF Asyncio!TypeOK, Asyncio!PeerSends
<1> HIDE DEF CallTypes, ReaderTypes, LinkTypes, StreamTypes
<1> QED
  BY <1>1, <1>6, <1>8, <1>9, <1>10, <1>11, <1>12, <1>13, <1>14, <1>15, <1>16, <1>17
  DEF Asyncio!Next, Asyncio!ReaderStep

-----------------------------------------------------------------------------
(* Whole frames                                                            *)

LEMMA Parity ==
    \A n \in Nat : /\ n % 2 \in {0, 1}
                   /\ (n + 1) % 2 = 1 <=> n % 2 = 0
                   /\ (n + 1) % 2 = 0 <=> n % 2 = 1
<1> QED
  OBVIOUS

\* A header after whole frames and a payload after its header keep frames whole.
LEMMA PieceFits ==
    ASSUME Types, transport = "threads", FramesWhole, link = "up",
           NEW frame \in Frames, NEW part \in {"header", "payload"}, Put(frame, part),
           \/ part = "header" /\ Len(stream) % 2 # 1
           \/ part = "payload" /\ Len(stream) % 2 = 1 /\ stream[Len(stream)].frame = frame
    PROVE  /\ FramesWhole'
           /\ Len(stream') % 2 = 1 <=> part = "header"
           /\ stream'[Len(stream')].frame = frame
<1>1. PICK n \in Nat : n = Len(stream)
  BY SharedTypes
<1>2. PICK new \in Pieces : /\ new.frame = frame /\ new.part = part
                            /\ stream' = Append(stream, new)
  <2>1. [frame |-> frame, part |-> part] \in Pieces
    BY DEF Pieces
  <2> QED
    BY <2>1 DEF Put
<1>3. stream \in Seq(Pieces)
  BY DEF Types, TypeOK, Pieces
<1>4. /\ Len(stream') = n + 1
      /\ 1..Len(stream') = 1..n \cup {n + 1}
      /\ \A i \in 1..n : stream'[i] = stream[i]
      /\ stream'[n + 1] = new
  BY <1>1, <1>2, <1>3, AppendAt
<1>5. \/ part = "header" /\ n % 2 = 0 /\ (n + 1) % 2 = 1
      \/ /\ part = "payload" /\ n % 2 = 1 /\ (n + 1) % 2 = 0
         /\ n \in 1..n /\ stream[n].frame = frame
  BY <1>1, Parity
<1>6. ASSUME NEW i \in 1..n
      PROVE  /\ stream'[i].part = IF i % 2 = 1 THEN "header" ELSE "payload"
             /\ i % 2 = 0 => stream'[i].frame = stream'[i - 1].frame
  <2>1. /\ stream[i].part = IF i % 2 = 1 THEN "header" ELSE "payload"
        /\ i % 2 = 0 => stream[i].frame = stream[i - 1].frame
    BY <1>1 DEF FramesWhole
  <2>2. i % 2 = 0 => i - 1 \in 1..n
    OBVIOUS
  <2> QED
    BY <1>4, <2>1, <2>2
<1>7. stream'[n + 1].part = IF (n + 1) % 2 = 1 THEN "header" ELSE "payload"
  BY <1>2, <1>4, <1>5
<1>8. (n + 1) % 2 = 0 => stream'[n + 1].frame = stream'[(n + 1) - 1].frame
  <2>1. (n + 1) - 1 = n
    OBVIOUS
  <2> QED
    BY <1>2, <1>4, <1>5, <2>1
<1>9. FramesWhole'
  <2> SUFFICES ASSUME NEW i \in 1..Len(stream')
               PROVE  /\ stream'[i].part = IF i % 2 = 1 THEN "header" ELSE "payload"
                      /\ i % 2 = 0 => stream'[i].frame = stream'[i - 1].frame
    BY DEF FramesWhole
  <2>1. CASE i \in 1..n
    BY <1>6, <2>1
  <2>2. CASE i = n + 1
    BY <1>7, <1>8, <2>2
  <2> QED
    BY <1>4, <2>1, <2>2
<1> QED
  BY <1>2, <1>4, <1>5, <1>9

LEMMA LocksSteps ==
    ASSUME Types, transport = "threads", Locks, Next
    PROVE  Locks'
<1> USE DEF callVars, readVars, peerVars
<1>1. TypeOK
  BY DEF Types
<1>2. Reader \notin Ops /\ NoOne \notin Ops /\ Reader # NoOne
  BY RawSocketAssumption DEF Ops
<1>3. ASSUME UNCHANGED <<pc, lock, reader>>
      PROVE  Locks'
  BY <1>3 DEF Locks
<1>4. ASSUME NEW o \in Ops, NEW kind \in {"WAMP", "PING"}, Begin(o, kind)
      PROVE  Locks'
  BY <1>1, <1>2, <1>4 DEF TypeOK, Locks, Begin
<1>5. ASSUME NEW o \in Ops, CallStep(o)
      PROVE  Locks'
  <2>1. CASE Locked(o)
    BY <1>1, <1>2, <2>1 DEF TypeOK, Locks, Locked, Acquire
  <2>2. CASE SendHeader(o)
    BY <1>1, <1>2, <2>2 DEF TypeOK, Locks, SendHeader
  <2>3. CASE SendPayload(o)
    BY <1>1, <1>2, <2>3 DEF TypeOK, Locks, SendPayload, Unlock
  <2>4. CASE SendFails(o)
    BY <1>1, <1>2, <2>4 DEF TypeOK, Locks, SendFails, SendRaises
  <2>5. CASE PingEnds(o)
    BY <1>1, <1>2, <2>5 DEF TypeOK, Locks, PingEnds
  <2> QED
    BY <1>5, <2>1, <2>2, <2>3, <2>4, <2>5 DEF CallStep
<1>6. CASE Close \/ LinkDown \/ PeerReads \/ \E kind \in {"WAMP", "PING", "UNKNOWN"} : PeerSends(kind)
  BY <1>3, <1>6 DEF Close, LinkDown, PeerReads, PeerSends
<1>7. CASE ReadMessage \/ ReadUnknown \/ ReadPong \/ ReadPing \/ ReadFails
  BY <1>1, <1>2, <1>7
  DEF TypeOK, Locks, ReadMessage, ReadUnknown, ReadPong, ReadPing, ReadFails, Take, SkipFrame
<1>8. CASE PongLocked
  BY <1>1, <1>2, <1>8 DEF TypeOK, Locks, PongLocked, Acquire
<1>9. CASE PongHeader
  BY <1>1, <1>2, <1>9 DEF TypeOK, Locks, PongHeader
<1>10. CASE PongPayload \/ PongFails
  BY <1>1, <1>2, <1>10 DEF TypeOK, Locks, PongPayload, PongFails, SkipFrame, Unlock, SendRaises
<1> QED
  BY <1>4, <1>5, <1>6, <1>7, <1>8, <1>9, <1>10 DEF Next, ReaderStep

\* Only a step that writes can tear a frame, and the connection never comes back.
LEMMA HalvesKept ==
    ASSUME FramesWhole, Halves, stream' = stream, link' = "up" => link = "up",
           reader = "payload" => reader' = "payload",
           reader' = "payload" => reader = "payload" /\ answering' = answering,
           \A o \in Ops : pc[o] = "payload" => pc'[o] = "payload",
           \A o \in Ops : pc'[o] = "payload" => pc[o] = "payload" /\ call'[o] = call[o]
    PROVE  FramesWhole' /\ Halves'
<1>1. FramesWhole'
  BY DEF FramesWhole
<1>2. Halves'
  BY DEF Halves, Frame
<1> QED
  BY <1>1, <1>2

LEMMA WholeSteps ==
    ASSUME Types, Whole, Replies, TransportsNext
    PROVE  Whole'
<1> USE DEF callVars, readVars, peerVars
<1> SUFFICES ASSUME transport' = "threads" PROVE Locks' /\ FramesWhole' /\ Halves'
  BY DEF Whole
<1>1. /\ transport = "threads" /\ Next /\ TypeOK /\ Locks /\ FramesWhole /\ Halves
  BY TransportStays DEF TransportsNext, Threads, EventLoop, Whole, Types
<1>2. Locks'
  BY <1>1, LocksSteps
<1>3. Reader \notin Ops /\ NoOne \notin Ops /\ Reader # NoOne
  BY RawSocketAssumption DEF Ops
<1>4. Len(stream) % 2 \in {0, 1}
  BY SharedTypes, Parity
<1> DEFINE Goal == FramesWhole' /\ Halves'
<1>5. SUFFICES Goal
  BY <1>2
<1>6. ASSUME UNCHANGED <<stream, reader, answering, pc, call>>, link' \in {link, "down"}
      PROVE  Goal
  BY <1>1, <1>6, HalvesKept
<1>7. ASSUME NEW o \in Ops, NEW kind \in {"WAMP", "PING"}, Begin(o, kind)
      PROVE  Goal
  <2>1. /\ stream' = stream /\ link' = link /\ reader' = reader /\ answering' = answering
        /\ pc[o] = "idle" /\ pc' = [pc EXCEPT ![o] = "locking"]
        /\ call' = [call EXCEPT ![o] = kind]
    BY <1>7 DEF Begin
  <2>2. \A p \in Ops : pc'[p] = IF p = o THEN "locking" ELSE pc[p]
    BY <1>1, <2>1 DEF TypeOK
  <2>3. \A p \in Ops \ {o} : call'[p] = call[p]
    BY <1>1, <2>1 DEF TypeOK
  <2> QED
    BY <1>1, <2>1, <2>2, <2>3, HalvesKept
<1>8. ASSUME NEW o \in Ops, CallStep(o)
      PROVE  Goal
  <2>1. Frame(call[o], o) \in Frames
    <3>1. call[o] \in Kinds /\ o \in Nat
      BY SharedTypes DEF Ops
    <3> QED
      BY <3>1, FrameType DEF Kinds
  <2>2. /\ call' = call /\ reader' = reader /\ answering' = answering
        /\ link' \in {link, "down"}
    BY <1>8 DEF CallStep, Locked, SendHeader, SendPayload, SendFails, PingEnds, Unlock, SendRaises
  <2>3. CASE Locked(o) \/ PingEnds(o)
    <3>1. /\ stream' = stream /\ pc[o] \in {"locking", "awaiting"}
          /\ pc' \in {[pc EXCEPT ![o] = "header"], [pc EXCEPT ![o] = "returned"],
                      [pc EXCEPT ![o] = "timed_out"]}
      BY <2>3 DEF Locked, PingEnds
    <3>2. \A p \in Ops : (p # o => pc'[p] = pc[p]) /\ pc'[o] # "payload"
      BY <1>1, <3>1 DEF TypeOK
    <3> QED
      BY <1>1, <2>2, <3>1, <3>2, HalvesKept
  <2>4. CASE SendFails(o)
    <3>1. stream' = stream /\ link' = "down"
      BY <2>4 DEF SendFails, SendRaises
    <3> QED
      BY <1>1, <3>1 DEF FramesWhole, Halves
  <2>5. CASE link # "up" /\ (SendHeader(o) \/ SendPayload(o))
    <3>1. stream' = stream
      BY <2>5 DEF SendHeader, SendPayload, Put
    <3> QED
      BY <1>1, <2>2, <2>5, <3>1 DEF FramesWhole, Halves
  <2>6. CASE link = "up" /\ SendHeader(o)
    <3>1. /\ Put(Frame(call[o], o), "header") /\ pc[o] = "header"
          /\ pc' = [pc EXCEPT ![o] = "payload"]
      BY <2>6 DEF SendHeader
    <3>2. lock = o /\ reader # "payload" /\ \A p \in Ops \ {o} : pc[p] # "payload"
      BY <1>1, <1>3, <3>1 DEF Locks
    <3>3. Len(stream) % 2 # 1
      BY <1>1, <2>6, <3>1, <3>2 DEF Halves
    <3>4. /\ FramesWhole' /\ Len(stream') % 2 = 1
          /\ stream'[Len(stream')].frame = Frame(call[o], o)
      BY <1>1, <2>1, <2>6, <3>1, <3>3, PieceFits
    <3>5. pc'[o] = "payload" /\ \A p \in Ops \ {o} : pc'[p] # "payload"
      BY <1>1, <3>1, <3>2 DEF TypeOK
    <3>6. Halves'
      BY <2>2, <3>2, <3>4, <3>5 DEF Halves, Frame
    <3> QED
      BY <3>4, <3>6
  <2>7. CASE link = "up" /\ SendPayload(o)
    <3>1. /\ Put(Frame(call[o], o), "payload") /\ pc[o] = "payload"
          /\ pc' \in {[pc EXCEPT ![o] = "awaiting"], [pc EXCEPT ![o] = "returned"]}
      BY <2>7 DEF SendPayload
    <3>2. lock = o /\ reader # "payload" /\ \A p \in Ops \ {o} : pc[p] # "payload"
      BY <1>1, <1>3, <3>1 DEF Locks
    <3>3. Len(stream) % 2 = 1 /\ stream[Len(stream)].frame = Frame(call[o], o)
      BY <1>1, <2>7, <3>1 DEF Halves
    <3>4. FramesWhole' /\ Len(stream') % 2 # 1
      BY <1>1, <2>1, <2>7, <3>1, <3>3, PieceFits
    <3>5. \A p \in Ops : pc'[p] # "payload"
      BY <1>1, <3>1, <3>2 DEF TypeOK
    <3>6. Halves'
      BY <2>2, <3>2, <3>4, <3>5 DEF Halves
    <3> QED
      BY <3>4, <3>6
  <2> QED
    BY <1>8, <2>3, <2>4, <2>5, <2>6, <2>7 DEF CallStep
<1>9. CASE Close \/ LinkDown \/ PeerReads \/ \E kind \in {"WAMP", "PING", "UNKNOWN"} : PeerSends(kind)
  BY <1>6, <1>9 DEF Close, LinkDown, PeerReads, PeerSends
<1>10. CASE ReadMessage \/ ReadUnknown \/ ReadPong \/ ReadPing \/ ReadFails \/ PongLocked
  <2>1. /\ stream' = stream /\ link' = link /\ pc' = pc /\ call' = call
        /\ reader # "payload" /\ reader' # "payload"
    BY <1>10 DEF ReadMessage, ReadUnknown, ReadPong, ReadPing, ReadFails, PongLocked, Take,
                 SkipFrame
  <2> QED
    BY <1>1, <2>1, HalvesKept
<1>11. CASE PongFails
  <2>1. stream' = stream /\ link' = "down"
    BY <1>11 DEF PongFails, SendRaises
  <2> QED
    BY <1>1, <2>1 DEF FramesWhole, Halves
<1>12. CASE PongHeader \/ PongPayload
  <2>1. /\ UNCHANGED <<pc, call, answering>> /\ reader \in {"header", "payload"}
        /\ link' \in {link, "down"}
    BY <1>12 DEF PongHeader, PongPayload, Unlock
  <2>2. Frame("PONG", answering) \in Frames
    <3>1. answering \in Nat
      BY <1>1, <2>1 DEF Replies
    <3> QED
      BY <3>1, FrameType
  <2>3. \A p \in Ops : pc[p] # "payload"
    BY <1>1, <1>3, <2>1 DEF Locks
  <2>4. CASE link # "up"
    <3>1. stream' = stream
      BY <1>12, <2>4 DEF PongHeader, PongPayload, Put
    <3> QED
      BY <1>1, <2>1, <2>4, <3>1 DEF FramesWhole, Halves
  <2>5. CASE link = "up" /\ PongHeader
    <3>1. Put(Frame("PONG", answering), "header") /\ reader = "header" /\ reader' = "payload"
      BY <2>5 DEF PongHeader
    <3>2. Len(stream) % 2 # 1
      BY <1>1, <2>3, <2>5, <3>1 DEF Halves
    <3>3. /\ FramesWhole' /\ Len(stream') % 2 = 1
          /\ stream'[Len(stream')].frame = Frame("PONG", answering)
      BY <1>1, <2>2, <2>5, <3>1, <3>2, PieceFits
    <3>4. Halves'
      BY <2>1, <2>3, <3>1, <3>3 DEF Halves, Frame
    <3> QED
      BY <3>3, <3>4
  <2>6. CASE link = "up" /\ PongPayload
    <3>1. Put(Frame("PONG", answering), "payload") /\ reader = "payload" /\ reader' # "payload"
      BY <2>6 DEF PongPayload, SkipFrame
    <3>2. Len(stream) % 2 = 1 /\ stream[Len(stream)].frame = Frame("PONG", answering)
      BY <1>1, <2>6, <3>1 DEF Halves
    <3>3. FramesWhole' /\ Len(stream') % 2 # 1
      BY <1>1, <2>2, <2>6, <3>1, <3>2, PieceFits
    <3>4. Halves'
      BY <2>1, <2>3, <3>1, <3>3 DEF Halves
    <3> QED
      BY <3>3, <3>4
  <2> QED
    BY <1>12, <2>1, <2>4, <2>5, <2>6
<1> HIDE DEF Goal
<1> QED
  BY <1>1, <1>7, <1>8, <1>9, <1>10, <1>11, <1>12 DEF Next, ReaderStep

-----------------------------------------------------------------------------
(* What the peer has read                                                  *)

LEMMA AppendBehind ==
    ASSUME NEW S, NEW s \in Seq(S), NEW e
    PROVE  \A i \in 1..Len(s) : Append(s, e)[i] = s[i]
<1> QED
  OBVIOUS

\* What is written stays written, and what is read stays read.
LEMMA StreamGrows ==
    ASSUME Types, TransportsNext
    PROVE  /\ \A i \in 1..Len(stream) : stream'[i] = stream[i]
           /\ \/ peerRead' = peerRead
              \/ transport = "threads" /\ PeerReads
              \/ transport = "asyncio" /\ Asyncio!PeerReads
<1> DEFINE Kept == \A i \in 1..Len(stream) : stream'[i] = stream[i]
           Goal == /\ Kept
                   /\ \/ peerRead' = peerRead
                      \/ transport = "threads" /\ PeerReads
                      \/ transport = "asyncio" /\ Asyncio!PeerReads
<1> SUFFICES Goal
  OBVIOUS
<1> USE DEF callVars, readVars, peerVars
<1> USE DEF Asyncio!callVars, Asyncio!readVars, Asyncio!peerVars
<1>1. CASE Threads(Next)
  <2>1. stream \in Seq(Pieces) /\ transport = "threads"
    BY <1>1 DEF Types, TypeOK, Pieces, Threads
  <2>2. ASSUME NEW frame, NEW part, Put(frame, part) PROVE Kept
    BY <2>1, <2>2, AppendBehind DEF Put
  <2>3. CASE \E o \in Ops : CallStep(o) \/ \E kind \in {"WAMP", "PING"} : Begin(o, kind)
    <3>1. PICK o \in Ops : CallStep(o) \/ \E kind \in {"WAMP", "PING"} : Begin(o, kind)
      BY <2>3
    <3>2. peerRead' = peerRead
      BY <3>1 DEF CallStep, Begin, Locked, SendHeader, SendPayload, SendFails, PingEnds
    <3>3. CASE SendHeader(o) \/ SendPayload(o)
      BY <2>2, <3>2, <3>3 DEF SendHeader, SendPayload
    <3>4. CASE ~SendHeader(o) /\ ~SendPayload(o)
      BY <3>1, <3>2, <3>4 DEF CallStep, Begin, Locked, SendFails, PingEnds
    <3> QED
      BY <3>3, <3>4
  <2>4. CASE PongHeader \/ PongPayload
    BY <2>2, <2>4 DEF PongHeader, PongPayload
  <2>5. CASE \/ Close \/ LinkDown \/ ReadMessage \/ ReadUnknown \/ ReadPong \/ ReadPing \/ PongLocked
             \/ PongFails \/ ReadFails \/ \E kind \in {"WAMP", "PING", "UNKNOWN"} : PeerSends(kind)
    BY <2>5 DEF Close, LinkDown, ReadMessage, ReadUnknown, ReadPong, ReadPing, PongLocked, PongFails,
                ReadFails, PeerSends, Take
  <2>6. CASE PeerReads
    BY <2>1, <2>6 DEF PeerReads
  <2> HIDE DEF Goal
  <2> QED
    BY <1>1, <2>3, <2>4, <2>5, <2>6 DEF Threads, Next, ReaderStep
<1>2. CASE EventLoop(Asyncio!Next)
  <2>1. stream \in Seq(Frames) /\ transport = "asyncio"
    BY <1>2, FrameType DEF Types, Asyncio!TypeOK, EventLoop
  <2>2. ASSUME NEW frame, Asyncio!Put(frame) PROVE Kept
    BY <2>1, <2>2, AppendBehind DEF Asyncio!Put
  <2>3. CASE \E o \in Asyncio!Ops, kind \in {"WAMP", "PING"} : Asyncio!Begin(o, kind)
    BY <2>2, <2>3 DEF Asyncio!Begin
  <2>4. CASE \E o \in Asyncio!Ops : Asyncio!CallStep(o)
    BY <2>4 DEF Asyncio!CallStep, Asyncio!Drained, Asyncio!DrainFails,
                Asyncio!PingReturns, Asyncio!PingTimesOut
  <2>5. CASE Asyncio!ReadPing
    BY <2>2, <2>5 DEF Asyncio!ReadPing, Asyncio!Take
  <2>6. CASE \/ Asyncio!Close \/ Asyncio!LinkDown \/ Asyncio!ReadMessage \/ Asyncio!ReadUnknown
             \/ Asyncio!ReadPong
             \/ Asyncio!PongDrained \/ Asyncio!PongFails \/ Asyncio!ReadFails
             \/ \E kind \in {"WAMP", "PING", "UNKNOWN"} : Asyncio!PeerSends(kind)
    BY <2>6 DEF Asyncio!Close, Asyncio!LinkDown, Asyncio!ReadMessage, Asyncio!ReadUnknown,
                Asyncio!ReadPong,
                Asyncio!PongDrained, Asyncio!PongFails, Asyncio!ReadFails,
                Asyncio!PeerSends, Asyncio!Take
  <2>7. CASE Asyncio!PeerReads
    BY <2>1, <2>7 DEF Asyncio!PeerReads
  <2> HIDE DEF Goal
  <2> QED
    BY <1>2, <2>3, <2>4, <2>5, <2>6, <2>7 DEF EventLoop, Asyncio!Next, Asyncio!ReaderStep
<1> HIDE DEF Goal
<1> QED
  BY <1>1, <1>2 DEF TransportsNext

LEMMA SeenStays ==
    ASSUME Types, TransportsNext
    PROVE  \A o : Seen(o) => Seen(o)'
<1>1. transport' = transport
  BY TransportStays
<1>2. peerRead \in 0..Len(stream) /\ Len(stream) \in Nat
  BY SharedTypes
<1>3. peerRead' \in {peerRead, peerRead + 1, peerRead + 2}
  BY StreamGrows DEF PeerReads, Asyncio!PeerReads
<1>4. \A i \in 1..peerRead : stream'[i] = stream[i] /\ i \in 1..peerRead'
  BY <1>2, <1>3, StreamGrows
<1> QED
  BY <1>1, <1>4 DEF Seen, Both

\* The peer sends a PONG for a PING it has read.
LEMMA PongSeen ==
    ASSUME Types, TransportsNext, \A o \in Coming : Seen(o)
    PROVE  \A o \in Coming' : Seen(o)'
<1>1. incoming \in Seq(Frames) /\ Len(incoming) \in Nat
  BY SharedTypes, LenProperties
<1>2. ASSUME Coming' \subseteq Coming PROVE \A o \in Coming' : Seen(o)'
  BY <1>2, SeenStays
<1>3. CASE Rests
  BY <1>2, <1>3 DEF Rests, Coming
<1>4. CASE FrameLeaves
  <2>1. \A i \in 1..Len(incoming') : incoming'[i] = incoming[i + 1] /\ i + 1 \in 1..Len(incoming)
    BY <1>1, <1>4, TailAt DEF FrameLeaves
  <2> QED
    BY <1>2, <2>1 DEF Coming
<1>5. ASSUME NEW frame \in Frames, incoming' = Append(incoming, frame)
      PROVE  Coming' \subseteq Coming \cup (IF frame.kind = "PONG" THEN {frame.id} ELSE {})
  <2>1. /\ 1..Len(incoming') = 1..Len(incoming) \cup {Len(incoming) + 1}
        /\ \A i \in 1..Len(incoming) : incoming'[i] = incoming[i]
        /\ incoming'[Len(incoming) + 1] = frame
    BY <1>1, <1>5, AppendAt
  <2> QED
    BY <2>1 DEF Coming
<1>6. CASE \E kind \in PeerKinds : FrameComes(kind)
  <2>1. Len(peerSent) + 1 \in Nat
    BY SharedTypes, LenProperties
  <2>2. PICK frame \in Frames : incoming' = Append(incoming, frame) /\ frame.kind # "PONG"
    BY <1>6, <2>1, FrameType DEF FrameComes, Kinds, PeerKinds
  <2>3. Coming' \subseteq Coming
    BY <1>5, <2>2
  <2> QED
    BY <1>2, <2>3
<1>7. CASE \E id \in Nat : PongComes(id) /\ Seen(id)'
  <2>1. PICK id \in Nat : PongComes(id) /\ Seen(id)'
    BY <1>7
  <2>2. PICK frame \in Frames : incoming' = Append(incoming, frame) /\ frame.id = id
    BY <2>1, FrameType DEF PongComes
  <2>3. Coming' \subseteq Coming \cup {id}
    BY <1>5, <2>2
  <2> QED
    BY <2>1, <2>3, SeenStays
<1> QED
  BY <1>3, <1>4, <1>6, <1>7, NetworkSteps

-----------------------------------------------------------------------------
(* Honest pings                                                            *)

\* A future is set when the PONG comes, and ping() returns when its future is set.
LEMMA SeeingSteps ==
    ASSUME Types, Seeing, TransportsNext
    PROVE  Seeing'
<1> USE DEF callVars, readVars, peerVars
<1> USE DEF Asyncio!callVars, Asyncio!readVars, Asyncio!peerVars
<1>1. \A o \in Coming' : Seen(o)'
  BY PongSeen DEF Seeing
<1>2. incoming # <<>> /\ Head(incoming).kind = "PONG" => Seen(Head(incoming).id)
  <2>1. SUFFICES ASSUME incoming # <<>>, Head(incoming).kind = "PONG"
                 PROVE  Head(incoming).id \in Coming
    BY DEF Seeing
  <2>2. incoming \in Seq(Frames)
    BY SharedTypes
  <2>3. Head(incoming) = incoming[1] /\ 1 \in 1..Len(incoming) /\ Head(incoming) \in Frames
    BY <2>1, <2>2, TailAt
  <2>4. incoming[1].id \in Nat
    BY <2>3, FrameType
  <2> QED
    BY <2>1, <2>3, <2>4 DEF Coming
<1>3. \A o \in result' : Seen(o)
  <2>1. CASE ReadPong
    <3>1. result' \subseteq result \cup {Head(incoming).id}
      BY <2>1 DEF ReadPong
    <3> QED
      BY <1>2, <2>1, <3>1 DEF ReadPong, Take, Seeing
  <2>2. CASE Asyncio!ReadPong
    <3>1. result' \subseteq result \cup {Head(incoming).id}
      BY <2>2 DEF Asyncio!ReadPong
    <3> QED
      BY <1>2, <2>2, <3>1 DEF Asyncio!ReadPong, Asyncio!Take, Seeing
  <2>3. CASE ~ReadPong /\ ~Asyncio!ReadPong
    <3>1. result' = result
      <4>1. CASE Threads(Next)
        BY <2>3, <4>1
        DEF Threads, Next, CallStep, Begin, Locked, SendHeader, SendPayload, SendFails,
            PingEnds, Close, LinkDown, ReaderStep, ReadMessage, ReadUnknown, ReadPing, PongLocked,
            PongHeader, PongPayload, PongFails, ReadFails, PeerReads, PeerSends
      <4>2. CASE EventLoop(Asyncio!Next)
        BY <2>3, <4>2
        DEF EventLoop, Asyncio!Next, Asyncio!CallStep, Asyncio!Begin, Asyncio!Drained,
            Asyncio!DrainFails, Asyncio!PingReturns, Asyncio!PingTimesOut, Asyncio!Close,
            Asyncio!LinkDown, Asyncio!ReaderStep, Asyncio!ReadMessage, Asyncio!ReadUnknown, Asyncio!ReadPing,
            Asyncio!PongDrained, Asyncio!PongFails, Asyncio!ReadFails, Asyncio!PeerReads,
            Asyncio!PeerSends
      <4> QED
        BY <4>1, <4>2 DEF TransportsNext
    <3> QED
      BY <3>1 DEF Seeing
  <2> QED
    BY <2>1, <2>2, <2>3
<1>4. \A o \in Ops : pc[o] = "returned" /\ call[o] = "PING" => Seen(o)
  BY FrameType
  DEF Seeing, HonestPings, PingIsHonest, Asyncio!PingIsHonest, Asyncio!Frame, Frame,
      Both, Seen
<1>5. ASSUME NEW o \in Ops, pc'[o] = "returned", call'[o] = "PING"
      PROVE  Seen(o)
  <2>1. ASSUME UNCHANGED <<pc, call>> PROVE Seen(o)
    BY <1>4, <1>5, <2>1
  <2>2. CASE Threads(Next)
    <3>1. TypeOK
      BY <2>2 DEF Types, Threads
    <3>2. ASSUME NEW p \in Ops, NEW kind \in {"WAMP", "PING"}, Begin(p, kind)
          PROVE  Seen(o)
      <4>1. p # o
        BY <1>5, <3>1, <3>2 DEF TypeOK, Begin
      <4> QED
        BY <1>4, <1>5, <3>1, <3>2, <4>1 DEF TypeOK, Begin
    <3>3. ASSUME NEW p \in Ops, CallStep(p)
          PROVE  Seen(o)
      <4>1. CASE p # o
        BY <1>4, <1>5, <3>1, <3>3, <4>1
        DEF TypeOK, CallStep, Locked, SendHeader, SendPayload, SendFails, PingEnds
      <4>2. CASE p = o
        <5>1. PingEnds(o) /\ o \in result
          BY <1>5, <3>1, <3>3, <4>2
          DEF TypeOK, CallStep, Locked, SendHeader, SendPayload, SendFails, PingEnds
        <5> QED
          BY <5>1 DEF Seeing
      <4> QED
        BY <4>1, <4>2
    <3>4. CASE Close \/ LinkDown \/ ReaderStep \/ PeerReads
               \/ \E kind \in {"WAMP", "PING", "UNKNOWN"} : PeerSends(kind)
      BY <2>1, <3>4
      DEF Close, LinkDown, ReaderStep, ReadMessage, ReadUnknown, ReadPong, ReadPing, PongLocked,
          PongHeader, PongPayload, PongFails, ReadFails, PeerReads, PeerSends
    <3> QED
      BY <2>2, <3>2, <3>3, <3>4 DEF Threads, Next
  <2>3. CASE EventLoop(Asyncio!Next)
    <3>1. Asyncio!TypeOK /\ Asyncio!Ops = Ops
      BY <2>3, FrameType DEF Types, EventLoop
    <3>2. ASSUME NEW p \in Ops, NEW kind \in {"WAMP", "PING"}, Asyncio!Begin(p, kind)
          PROVE  Seen(o)
      <4>1. p # o
        BY <1>5, <3>1, <3>2 DEF Asyncio!TypeOK, Asyncio!Begin
      <4> QED
        BY <1>4, <1>5, <3>1, <3>2, <4>1 DEF Asyncio!TypeOK, Asyncio!Begin
    <3>3. ASSUME NEW p \in Ops, Asyncio!CallStep(p)
          PROVE  Seen(o)
      <4>1. CASE p # o
        BY <1>4, <1>5, <3>1, <3>3, <4>1
        DEF Asyncio!TypeOK, Asyncio!CallStep, Asyncio!Drained, Asyncio!DrainFails,
            Asyncio!PingReturns, Asyncio!PingTimesOut
      <4>2. CASE p = o
        <5>1. o \in result
          BY <1>5, <3>1, <3>3, <4>2
          DEF Asyncio!TypeOK, Asyncio!CallStep, Asyncio!Drained, Asyncio!DrainFails,
              Asyncio!PingReturns, Asyncio!PingTimesOut
        <5> QED
          BY <5>1 DEF Seeing
      <4> QED
        BY <4>1, <4>2
    <3>4. CASE Asyncio!Close \/ Asyncio!LinkDown \/ Asyncio!ReaderStep \/ Asyncio!PeerReads
               \/ \E kind \in {"WAMP", "PING", "UNKNOWN"} : Asyncio!PeerSends(kind)
      BY <2>1, <3>4
      DEF Asyncio!Close, Asyncio!LinkDown, Asyncio!ReaderStep, Asyncio!ReadMessage,
          Asyncio!ReadUnknown, Asyncio!ReadPong, Asyncio!ReadPing, Asyncio!PongDrained, Asyncio!PongFails,
          Asyncio!ReadFails, Asyncio!PeerReads, Asyncio!PeerSends
    <3> QED
      BY <2>3, <3>1, <3>2, <3>3, <3>4 DEF EventLoop, Asyncio!Next
  <2> QED
    BY <2>2, <2>3 DEF TransportsNext
<1>6. \A o \in Ops : pc'[o] = "returned" /\ call'[o] = "PING" => Seen(o)'
  BY <1>5, SeenStays
<1>7. HonestPings'
  BY <1>6, FrameType
  DEF HonestPings, PingIsHonest, Asyncio!PingIsHonest, Asyncio!Frame, Frame, Both, Seen
<1>8. \A o \in result' : Seen(o)'
  BY <1>3, SeenStays
<1> QED
  BY <1>1, <1>7, <1>8 DEF Seeing

-----------------------------------------------------------------------------
(* Why read() fails                                                        *)

UnknownTaken == \E k \in 1..Len(peerSent) : peerSent[k].kind = "UNKNOWN" /\ k \notin Due

\* A frame of the peer that is not on its way is not due.
LEMMA UnknownIsTaken ==
    ASSUME NEW sent, NEW coming, NEW due,
           \A k \in 1..Len(sent) : sent[k].id = k,
           \A i \in 1..Len(coming) : coming[i].kind # "PONG" =>
               coming[i].id \in 1..Len(sent) /\ sent[coming[i].id] = coming[i],
           due = {k \in 1..Len(sent) :
                     \E i \in 1..Len(coming) : coming[i].kind # "PONG" /\ coming[i].id = k}
    PROVE  (\E k \in 1..Len(sent) :
                sent[k].kind = "UNKNOWN" /\ \A i \in 1..Len(coming) : coming[i] # sent[k])
           <=> \E k \in 1..Len(sent) : sent[k].kind = "UNKNOWN" /\ k \notin due
<1>1. ASSUME NEW k \in 1..Len(sent), sent[k].kind = "UNKNOWN"
      PROVE  (\A i \in 1..Len(coming) : coming[i] # sent[k]) <=> k \notin due
  <2>1. ASSUME NEW i \in 1..Len(coming), coming[i] = sent[k] PROVE k \in due
    BY <1>1, <2>1
  <2>2. ASSUME k \in due PROVE \E i \in 1..Len(coming) : coming[i] = sent[k]
    BY <2>2
  <2> QED
    BY <2>1, <2>2
<1> QED
  BY <1>1

LEMMA UnknownSteps ==
    ASSUME Types, FromPeer, TransportsNext
    PROVE  /\ UnknownTaken => UnknownTaken'
           /\ FrameLeaves /\ Head(incoming).kind = "UNKNOWN" => UnknownTaken'
<1>1. ASSUME UnknownTaken PROVE UnknownTaken'
  <2>1. PICK k \in 1..Len(peerSent) : peerSent[k].kind = "UNKNOWN" /\ k \notin Due
    BY <1>1 DEF UnknownTaken
  <2>2. ASSUME peerSent' = peerSent, Due' \subseteq Due
        PROVE  UnknownTaken'
    BY <2>1, <2>2 DEF UnknownTaken
  <2>3. CASE Rests
    BY <2>2, <2>3, NothingArrives DEF Rests
  <2>4. CASE \E id \in Nat : PongComes(id)
    BY <2>2, <2>4, PongArrives DEF PongComes
  <2>5. CASE \E kind \in PeerKinds : FrameComes(kind)
    <3>1. PICK kind \in PeerKinds : FrameComes(kind)
      BY <2>5
    <3>2. PICK n \in Nat : n = Len(peerSent)
      BY SharedTypes, LenProperties
    <3>3. /\ Due' = Due \cup {n + 1}
          /\ 1..Len(peerSent') = 1..n \cup {n + 1}
          /\ \A j \in 1..n : peerSent'[j] = peerSent[j]
      BY <3>1, <3>2, PeerFrameArrives DEF FrameComes
    <3>4. k \in 1..n /\ k # n + 1
      BY <2>1, <3>2
    <3> QED
      BY <2>1, <3>3, <3>4 DEF UnknownTaken
  <2>6. CASE FrameLeaves
    <3>1. peerSent' = peerSent /\ Due' \subseteq Due
      BY <2>6, FrameTaken DEF FrameLeaves
    <3> QED
      BY <2>2, <3>1
  <2> QED
    BY <2>3, <2>4, <2>5, <2>6, NetworkSteps
<1>2. ASSUME FrameLeaves, Head(incoming).kind = "UNKNOWN" PROVE UnknownTaken'
  <2>1. PICK h \in Due : peerSent[h] = Head(incoming) /\ Due' = Due \ {h}
    BY <1>2, FrameTaken DEF FrameLeaves
  <2>2. h \in 1..Len(peerSent)
    BY DEF Due
  <2> QED
    BY <1>2, <2>1, <2>2 DEF UnknownTaken, FrameLeaves
<1> QED
  BY <1>1, <1>2

LEMMA FailingSteps ==
    ASSUME Types, FromPeer, Failing, TransportsNext
    PROVE  Failing'
<1> USE DEF callVars, readVars, peerVars
<1> USE DEF Asyncio!callVars, Asyncio!readVars, Asyncio!peerVars
<1>1. /\ depth \in 0..RecursionLimit /\ RecursionLimit \in Nat \ {0}
      /\ reader # "failed" => depth < RecursionLimit
  BY SharedTypes, RawSocketAssumption DEF Failing
<1>2. PICK Was \in BOOLEAN, Is \in BOOLEAN :
          /\ Was = UnknownTaken /\ Is = UnknownTaken' /\ (Was => Is)
          /\ FrameLeaves /\ Head(incoming).kind = "UNKNOWN" => Is
  <2>1. (UnknownTaken = TRUE \/ UnknownTaken = FALSE) /\ (UnknownTaken' = TRUE \/ UnknownTaken' = FALSE)
    BY DEF UnknownTaken
  <2> QED
    BY <2>1, UnknownSteps
<1>3. /\ UnknownRead <=> Was
      /\ Asyncio!UnknownRead <=> Was
      /\ UnknownRead' <=> Is
      /\ Asyncio!UnknownRead' <=> Is
  <2>1. (UnknownRead <=> UnknownTaken) /\ (Asyncio!UnknownRead <=> UnknownTaken)
    <3>1. PICK sent, coming, due : sent = peerSent /\ coming = incoming /\ due = Due
      OBVIOUS
    <3>2. /\ \A k \in 1..Len(sent) : sent[k].id = k
          /\ \A i \in 1..Len(coming) : coming[i].kind # "PONG" =>
                coming[i].id \in 1..Len(sent) /\ sent[coming[i].id] = coming[i]
          /\ due = {k \in 1..Len(sent) :
                       \E i \in 1..Len(coming) : coming[i].kind # "PONG" /\ coming[i].id = k}
      BY <3>1 DEF FromPeer, Due
    <3>3. (\E k \in 1..Len(sent) :
               sent[k].kind = "UNKNOWN" /\ \A i \in 1..Len(coming) : coming[i] # sent[k])
          <=> \E k \in 1..Len(sent) : sent[k].kind = "UNKNOWN" /\ k \notin due
      BY <3>2, UnknownIsTaken
    <3> QED
      BY <3>1, <3>3 DEF UnknownRead, Asyncio!UnknownRead, UnknownTaken
  <2>2. (UnknownRead <=> UnknownTaken)' /\ (Asyncio!UnknownRead <=> UnknownTaken)'
    <3>1. PICK sent, coming, due : sent = peerSent' /\ coming = incoming' /\ due = Due'
      OBVIOUS
    <3>2. FromPeer'
      BY FromPeerSteps
    <3>3. /\ \A k \in 1..Len(sent) : sent[k].id = k
          /\ \A i \in 1..Len(coming) : coming[i].kind # "PONG" =>
                coming[i].id \in 1..Len(sent) /\ sent[coming[i].id] = coming[i]
          /\ due = {k \in 1..Len(sent) :
                       \E i \in 1..Len(coming) : coming[i].kind # "PONG" /\ coming[i].id = k}
      BY <3>1, <3>2 DEF FromPeer, Due
    <3>4. (\E k \in 1..Len(sent) :
               sent[k].kind = "UNKNOWN" /\ \A i \in 1..Len(coming) : coming[i] # sent[k])
          <=> \E k \in 1..Len(sent) : sent[k].kind = "UNKNOWN" /\ k \notin due
      BY <3>3, UnknownIsTaken
    <3> QED
      BY <3>1, <3>4 DEF UnknownRead, Asyncio!UnknownRead, UnknownTaken
  <2> QED
    BY <1>2, <2>1, <2>2
<1>4. CASE Threads(Next)
  <2>1. transport = "threads" /\ transport' = "threads" /\ TypeOK /\ Next
    BY <1>4 DEF Threads, Types
  <2> DEFINE Deep == reader' # "failed" => depth' < RecursionLimit
             Explained == reader' = "failed" =>
                              link' = "down" \/ ~connected' \/ Is \/ depth' = RecursionLimit
  <2>2. reader = "failed" => link = "down" \/ ~connected \/ Was \/ depth = RecursionLimit
    BY <1>3, <2>1 DEF Failing, ReadFailures, ReadFailureExplained, Both
  <2>3. SUFFICES Deep /\ Explained
    BY <1>3, <2>1 DEF Failing, ReadFailures, ReadFailureExplained, Both
  <2>4. CASE \/ \E o \in Ops : CallStep(o) \/ \E kind \in {"WAMP", "PING"} : Begin(o, kind)
             \/ PeerReads \/ \E kind \in {"WAMP", "PING", "UNKNOWN"} : PeerSends(kind)
             \/ Close \/ LinkDown
    <3>1. /\ UNCHANGED <<reader, depth>> /\ (link = "down" => link' = "down")
          /\ ~connected => ~connected'
      BY <2>4 DEF CallStep, Begin, Locked, SendHeader, SendPayload, SendFails, PingEnds,
                  PeerReads, PeerSends, Close, LinkDown, Unlock, SendRaises
    <3> QED
      BY <1>1, <1>2, <2>2, <3>1
  <2>5. CASE ReadMessage \/ ReadPing \/ PongLocked \/ PongHeader
    <3>1. reader # "failed" /\ reader' # "failed" /\ depth' \in {depth, 0}
      BY <2>5 DEF ReadMessage, ReadPing, PongLocked, PongHeader, Take
    <3> QED
      BY <1>1, <3>1
  <2>6. CASE ReadPong \/ PongPayload
    <3>1. SkipFrame /\ reader # "failed"
      BY <2>6 DEF ReadPong, PongPayload, Take
    <3> QED
      BY <1>1, <3>1 DEF SkipFrame
  <2>7. CASE ReadUnknown
    <3>1. Is /\ reader' = "failed"
      BY <1>2, <2>7 DEF ReadUnknown, Take, FrameLeaves
    <3> QED
      BY <3>1
  <2>8. CASE PongFails \/ ReadFails
    BY <2>8 DEF PongFails, ReadFails, SendRaises
  <2> HIDE DEF Deep, Explained
  <2> QED
    BY <2>1, <2>4, <2>5, <2>6, <2>7, <2>8 DEF Next, ReaderStep
<1>5. CASE EventLoop(Asyncio!Next)
  <2>1. transport = "asyncio" /\ transport' = "asyncio" /\ Asyncio!TypeOK /\ Asyncio!Next
        /\ Asyncio!Ops = Ops
    BY <1>5, FrameType DEF EventLoop, Types
  <2>2. /\ reader = "failed" =>
              \/ ~connected \/ Was \/ depth = RecursionLimit
              \/ \E o \in cancelled : o \notin pending
        /\ \A o \in cancelled : pc[o] = "timed_out"
    BY <1>3, <2>1 DEF Failing, ReadFailures, Asyncio!ReadFailureExplained, Both
  <2> DEFINE Late == \E o \in cancelled : o \notin pending
             Deep == reader' # "failed" => depth' < RecursionLimit
             Explained == reader' = "failed" =>
                              ~connected' \/ Is \/ depth' = RecursionLimit \/ Late'
             Ended == \A o \in cancelled' : pc'[o] = "timed_out"
  <2>3. SUFFICES Deep /\ Explained /\ Ended
    BY <1>3, <2>1 DEF Failing, ReadFailures, Asyncio!ReadFailureExplained, Both
  <2>4. ASSUME NEW o \in Ops, NEW kind \in {"WAMP", "PING"}, Asyncio!Begin(o, kind)
        PROVE  Deep /\ Explained /\ Ended
    <3>1. /\ UNCHANGED <<reader, depth, connected, cancelled>>
          /\ pending' \subseteq pending \cup {o} /\ pc[o] = "idle"
          /\ pc' = [pc EXCEPT ![o] = "draining"]
      BY <2>4 DEF Asyncio!Begin
    <3>2. o \notin cancelled
      BY <2>2, <3>1
    <3>3. Late => Late'
      BY <3>1, <3>2
    <3>4. Ended
      BY <2>1, <2>2, <3>1, <3>2 DEF Asyncio!TypeOK
    <3>5. Deep
      BY <1>1, <3>1
    <3>6. Explained
      BY <1>2, <2>2, <3>1, <3>3
    <3> QED
      BY <3>4, <3>5, <3>6
  <2>5. ASSUME NEW o \in Ops, Asyncio!CallStep(o)
        PROVE  Deep /\ Explained /\ Ended
    <3>1. /\ UNCHANGED <<reader, depth, pending>> /\ cancelled \subseteq cancelled'
          /\ connected' \in {connected, FALSE} /\ pc[o] \in {"draining", "awaiting"}
          /\ cancelled' \subseteq cancelled \cup {o}
      BY <2>5 DEF Asyncio!CallStep, Asyncio!Drained, Asyncio!DrainFails,
                  Asyncio!PingReturns, Asyncio!PingTimesOut
    <3>2. Ended
      BY <2>1, <2>2, <2>5, <3>1
      DEF Asyncio!TypeOK, Asyncio!CallStep, Asyncio!Drained, Asyncio!DrainFails,
          Asyncio!PingReturns, Asyncio!PingTimesOut
    <3>3. Late => Late'
      BY <3>1
    <3>4. Deep
      BY <1>1, <3>1
    <3>5. Explained
      BY <1>2, <2>2, <3>1, <3>3
    <3> QED
      BY <3>2, <3>4, <3>5
  <2>6. CASE \/ Asyncio!Close \/ Asyncio!LinkDown \/ Asyncio!PeerReads
             \/ \E kind \in {"WAMP", "PING", "UNKNOWN"} : Asyncio!PeerSends(kind)
    <3>1. /\ UNCHANGED <<reader, depth, pending, cancelled, pc>>
          /\ connected' \in {connected, FALSE}
      BY <2>6 DEF Asyncio!Close, Asyncio!LinkDown, Asyncio!PeerReads, Asyncio!PeerSends
    <3>2. Deep /\ Ended
      BY <1>1, <2>2, <3>1
    <3>3. Explained
      BY <1>2, <2>2, <3>1
    <3> QED
      BY <3>2, <3>3
  <2>7. CASE Asyncio!ReadMessage \/ Asyncio!ReadPing
    <3>1. /\ reader # "failed" /\ reader' # "failed" /\ depth' \in {depth, 0}
          /\ UNCHANGED <<cancelled, pc>>
      BY <2>7 DEF Asyncio!ReadMessage, Asyncio!ReadPing, Asyncio!Take
    <3> QED
      BY <1>1, <2>2, <3>1
  <2>8. CASE Asyncio!ReadPong
    <3>1. reader = "read" /\ UNCHANGED <<cancelled, pc>>
      BY <2>8 DEF Asyncio!ReadPong, Asyncio!Take
    <3>2. CASE Head(incoming).id \in pending \cap cancelled
      <4>1. reader' = "failed" /\ pending' = pending \ {Head(incoming).id}
        BY <2>8, <3>2 DEF Asyncio!ReadPong
      <4>2. Late'
        BY <3>1, <3>2, <4>1
      <4> QED
        BY <2>2, <3>1, <4>1, <4>2
    <3>3. CASE Head(incoming).id \notin pending \cap cancelled
      <4>1. Asyncio!SkipFrame
        BY <2>8, <3>3 DEF Asyncio!ReadPong
      <4> QED
        BY <1>1, <2>2, <3>1, <4>1 DEF Asyncio!SkipFrame
    <3> QED
      BY <3>2, <3>3
  <2>9. CASE Asyncio!PongDrained
    BY <1>1, <2>2, <2>9 DEF Asyncio!PongDrained, Asyncio!SkipFrame
  <2>10. CASE Asyncio!PongFails \/ Asyncio!ReadFails
    BY <2>2, <2>10 DEF Asyncio!PongFails, Asyncio!ReadFails
  <2>11. CASE Asyncio!ReadUnknown
    <3>1. Is /\ reader' = "failed" /\ UNCHANGED <<cancelled, pc>>
      BY <1>2, <2>11 DEF Asyncio!ReadUnknown, Asyncio!Take, FrameLeaves
    <3> QED
      BY <2>2, <3>1
  <2> HIDE DEF Deep, Explained, Ended
  <2> QED
    BY <2>1, <2>4, <2>5, <2>6, <2>7, <2>8, <2>9, <2>10, <2>11 DEF Asyncio!Next, Asyncio!ReaderStep
<1> QED
  BY <1>4, <1>5 DEF TransportsNext

-----------------------------------------------------------------------------
(* The invariant and what follows from it                                  *)

LEMMA InitInvariant == TransportsInit => IInv
<1> SUFFICES ASSUME TransportsInit PROVE IInv
  OBVIOUS
<1>1. /\ stream = <<>> /\ reader = "read" /\ depth = 0 /\ delivered = <<>>
      /\ link = "up" /\ incoming = <<>> /\ peerRead = 0 /\ peerSent = <<>>
      /\ result = {} /\ lock = NoOne /\ cancelled = {} /\ transport \in {"threads", "asyncio"}
      /\ pc = [o \in Ops |-> "idle"] /\ call = [o \in Ops |-> "WAMP"]
      /\ pending = {} /\ connected = TRUE /\ answering = NoOne
  BY FrameType DEF TransportsInit, Init, Asyncio!Init
<1>2. /\ Len(<<>>) = 0 /\ DOMAIN <<>> = {} /\ 1..0 = {} /\ \A S : <<>> \in Seq(S)
      /\ 0 \in 0..RecursionLimit /\ 0 < RecursionLimit /\ MaxPeerFrames \in Nat
  BY RawSocketAssumption
<1>3. Types
  <2>1. CASE transport = "threads"
    BY <1>1, <1>2, <2>1 DEF Types, TypeOK
  <2>2. CASE transport = "asyncio"
    BY <1>1, <1>2, <2>2, FrameType DEF Types, Asyncio!TypeOK
  <2> QED
    BY <1>1, <2>1, <2>2
<1>4. Due = {} /\ Coming = {}
  BY <1>1, <1>2 DEF Due, Coming
<1>5. FromPeer
  BY <1>1, <1>2 DEF FromPeer
<1>6. Delivery
  BY <1>1, <1>2, <1>4 DEF Delivery, Settled, InOrder
<1>7. DOMAIN Answers = {}
  <2>1. PongAt = {} /\ PongAlone = {}
    BY <1>1, <1>2 DEF PongAt, PongAlone
  <2> QED
    BY <1>1, <1>3, <2>1, AnswersAre
<1>8. Replies
  <2>1. ~Answering
    BY <1>1 DEF Answering
  <2>2. PICK f : f = Answers
    OBVIOUS
  <2>3. Settled("PING", f)
    BY <1>1, <1>2, <1>4, <1>7, <2>2 DEF Settled, InOrder
  <2> HIDE DEF Answers, Answering
  <2> QED
    BY <1>1, <1>2, <2>1, <2>2, <2>3 DEF Replies
<1>9. Whole
  <2>1. Reader # NoOne /\ NoOne \notin Ops
    BY RawSocketAssumption DEF Ops
  <2>2. Locks
    BY <1>1, <2>1 DEF Locks
  <2>3. FramesWhole /\ Halves
    BY <1>1, <1>2 DEF FramesWhole, Halves
  <2> QED
    BY <2>2, <2>3 DEF Whole
<1>10. HonestPings
  BY <1>1, FrameType DEF HonestPings, PingIsHonest, Asyncio!PingIsHonest, Both
<1>11. ReadFailures
  BY <1>1 DEF ReadFailures, ReadFailureExplained, Asyncio!ReadFailureExplained, Both
<1> QED
  BY <1>1, <1>2, <1>3, <1>4, <1>5, <1>6, <1>8, <1>9, <1>10, <1>11
  DEF IInv, Seeing, Failing

LEMMA StutterInvariant ==
    ASSUME IInv, UNCHANGED transportVars
    PROVE  IInv'
<1>1. /\ UNCHANGED <<pc, call, pending, result, lock, stream, reader, answering, depth>>
      /\ UNCHANGED <<delivered, connected, link, incoming, peerRead, peerSent, transport, cancelled>>
  BY DEF transportVars, vars, callVars, readVars, peerVars
<1>2. Due' = Due /\ Coming' = Coming
  BY <1>1 DEF Due, Coming
<1>3. Types' /\ FromPeer'
  BY <1>1, <1>2 DEF IInv, Types, TypeOK, Asyncio!TypeOK, FromPeer
<1>4. Delivery'
  BY <1>1, <1>2 DEF IInv, Delivery, Settled, InOrder
<1>5. Replies'
  <2>1. Answers' = Answers
    BY <1>1, AnswersKept
  <2> QED
    BY <1>1, <1>2, <2>1, RepliesKept DEF IInv, Answering, Alive
<1>6. Whole'
  BY <1>1 DEF IInv, Whole, Locks, FramesWhole, Halves
<1>7. (\A o \in Coming' : Seen(o)') /\ \A o \in result' : Seen(o)'
  BY <1>1, <1>2 DEF IInv, Seeing, Seen, Both
<1>8. HonestPings' /\ ReadFailures'
  BY <1>1
  DEF IInv, Seeing, HonestPings, PingIsHonest, Asyncio!PingIsHonest, Failing, ReadFailures,
      ReadFailureExplained, Asyncio!ReadFailureExplained, UnknownRead, Asyncio!UnknownRead, Both
<1>9. Failing'
  BY <1>1, <1>8 DEF IInv, Failing
<1> QED
  BY <1>3, <1>4, <1>5, <1>6, <1>7, <1>8, <1>9 DEF IInv, Seeing

LEMMA NextInvariant == IInv /\ [TransportsNext]_transportVars => IInv'
<1> SUFFICES ASSUME IInv, [TransportsNext]_transportVars PROVE IInv'
  OBVIOUS
<1>1. CASE TransportsNext
  <2>1. FromPeer' /\ Delivery'
    BY <1>1, FromPeerSteps, DeliverySteps DEF IInv
  <2>2. Replies' /\ Types'
    BY <1>1, RepliesOnThreads, RepliesOnEventLoop, TypesOnThreads, TypesOnEventLoop
    DEF IInv, TransportsNext
  <2>3. Whole' /\ Seeing' /\ Failing'
    BY <1>1, WholeSteps, SeeingSteps, FailingSteps DEF IInv
  <2> QED
    BY <2>1, <2>2, <2>3 DEF IInv
<1>2. CASE UNCHANGED transportVars
  BY <1>2, StutterInvariant
<1> QED
  BY <1>1, <1>2

LEMMA Invariant == TransportsSpec => []IInv
<1> QED
  BY InitInvariant, NextInvariant, PTL DEF TransportsSpec

\* The variables of the transport that runs keep their types, and those of the other
\* keep their initial values.
THEOREM TransportsTypeOK == TransportsSpec => []Types
<1>1. IInv => Types
  BY DEF IInv
<1> QED
  BY <1>1, Invariant, PTL

\* However many threads write and answer pings, the stream is a sequence of whole
\* frames, each payload behind its own header (transports.py:152).
THEOREM TransportsWholeFrames == TransportsSpec => []WholeFrames
<1>1. IInv => WholeFrames
  BY DEF IInv, Whole, WholeFrames
<1> QED
  BY <1>1, Invariant, PTL

\* No message is lost, repeated or overtaken, and the peer's pings are answered once
\* each in their order, on threads and on the event loop (transports.py:124, 241).
THEOREM TransportsFramesInOrder == TransportsSpec => []FramesInOrder
<1>1. IInv => FramesInOrder
  <2> SUFFICES ASSUME IInv PROVE FramesInOrder
    OBVIOUS
  <2>1. InOrder("WAMP", delivered)
    BY DEF IInv, Delivery, Settled
  <2>2. InOrder("PING", Answers)
    BY DEF IInv, Replies, Settled
  <2> QED
    BY <2>1, <2>2 DEF FramesInOrder, Answers
<1> QED
  BY <1>1, Invariant, PTL

\* ping() returns only when the peer has read this ping (transports.py:179, 306).
THEOREM TransportsHonestPings == TransportsSpec => []HonestPings
<1>1. IInv => HonestPings
  BY DEF IInv, Seeing
<1> QED
  BY <1>1, Invariant, PTL

\* read() fails on a lost or closed connection, on a frame of a kind it does not know, at
\* the recursion limit and, on the event loop, for a PONG that comes too late, and for no
\* other reason (transports.py:135, 145, 257, 268, 272).
THEOREM TransportsReadFailures == TransportsSpec => []ReadFailures
<1>1. IInv => ReadFailures
  BY DEF IInv, Failing
<1> QED
  BY <1>1, Invariant, PTL
=============================================================================
