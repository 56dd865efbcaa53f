--------------------------------- MODULE Join ---------------------------------
(***************************************************************************)
(* How a session comes into being: the join() loop of the four joiners     *)
(* (xconn/joiner.py) at one end of each connection, the accept() loop of   *)
(* the acceptors (xconn/acceptor.py) and the attachment to the router      *)
(* (Server._websocket_handler) at the other.                               *)
(*                                                                         *)
(* wampproto decides what to answer: external.  A client is welcome at     *)
(* once, has to authenticate, is refused, or sends a HELLO that the        *)
(* acceptor rejects with an exception; nobody's join has a timeout.  The   *)
(* joiners of raw sockets are alike, but nothing in the repository accepts *)
(* their connections.                                                      *)
(***************************************************************************)
EXTENDS Naturals, Sequences

CONSTANT Clients

Credentials == {"anonymous", "right", "wrong", "refused", "invalid"}

VARIABLES
    credential, \* of each client
    client,     \* where its join() stands
    handler,    \* where the server's handler of its connection stands
    conn,       \* the connection: "open" or "closed"
    toServer,   \* messages to the server, oldest first
    toClient,   \* messages to the client, oldest first
    realms,     \* does the realm exist?
    attached    \* the clients that were attached to it

netVars == <<conn, toServer, toClient>>
vars == <<credential, client, handler, netVars, realms, attached>>

Init ==
    /\ credential \in [Clients -> Credentials]
    /\ client = [c \in Clients |-> "connected"]
    /\ handler = [c \in Clients |-> "accepting"]
    /\ conn = [c \in Clients |-> "open"]
    /\ toServer = [c \in Clients |-> <<>>]
    /\ toClient = [c \in Clients |-> <<>>]
    /\ realms = TRUE
    /\ attached = {}

Put(queue, c, m) == [queue EXCEPT ![c] = Append(@, m)]

-----------------------------------------------------------------------------
(* wampproto's Joiner and Acceptor: external.                              *)

\* What the joiner makes of a CHALLENGE is an AUTHENTICATE, what the acceptor
\* makes of a message is an answer, or an exception.
Verdict(c, m) ==
    CASE m = "HELLO" /\ credential[c] = "anonymous"           -> "WELCOME"
      [] m = "HELLO" /\ credential[c] \in {"right", "wrong"} -> "CHALLENGE"
      [] m = "HELLO" /\ credential[c] = "refused"             -> "ABORT"
      [] m = "AUTHENTICATE" /\ credential[c] = "right"       -> "WELCOME"
      [] m = "AUTHENTICATE" /\ credential[c] = "wrong"       -> "ABORT"
      [] OTHER -> "exception"

-----------------------------------------------------------------------------
(* join()                                                                  *)

\* Write m and read on, or fail with the write.
WriteAndRead(c, m) ==
    IF conn[c] = "open"
    THEN /\ toServer' = Put(toServer, c, m)
         /\ client' = [client EXCEPT ![c] = "reading"]
    ELSE /\ client' = [client EXCEPT ![c] = "failed"]
         /\ UNCHANGED toServer

Hello(c) ==
    /\ client[c] = "connected"
    /\ WriteAndRead(c, "HELLO")
    /\ UNCHANGED <<credential, handler, conn, toClient, realms, attached>>

Reads(c, m) ==
    /\ client[c] = "reading"
    /\ toClient[c] # <<>>
    /\ Head(toClient[c]) = m
    /\ toClient' = [toClient EXCEPT ![c] = Tail(@)]
    /\ UNCHANGED <<credential, handler, conn, realms, attached>>

Challenged(c) == Reads(c, "CHALLENGE") /\ WriteAndRead(c, "AUTHENTICATE")

\* The authenticator raises: join() ends, the transport stays open.
ChallengeRaises(c) ==
    /\ Reads(c, "CHALLENGE")
    /\ client' = [client EXCEPT ![c] = "abandoned"]
    /\ UNCHANGED toServer

\* The task that awaits an asyncio join() is cancelled: nothing closes the transport.
Cancel(c) ==
    /\ client[c] \in {"connected", "reading"}
    /\ client' = [client EXCEPT ![c] = "abandoned"]
    /\ UNCHANGED <<credential, handler, netVars, realms, attached>>

\* to_send is None: join() returns the base session.
Welcomed(c) ==
    /\ Reads(c, "WELCOME")
    /\ client' = [client EXCEPT ![c] = "joined"]
    /\ UNCHANGED toServer

\* The joiner raises; join() leaves the transport as it is.
Aborted(c) ==
    /\ Reads(c, "ABORT")
    /\ client' = [client EXCEPT ![c] = "failed"]
    /\ UNCHANGED toServer

ReadFails(c) ==
    /\ client[c] = "reading"
    /\ toClient[c] = <<>>
    /\ conn[c] = "closed"
    /\ client' = [client EXCEPT ![c] = "failed"]
    /\ UNCHANGED <<credential, handler, netVars, realms, attached>>

-----------------------------------------------------------------------------
(* accept() and the handler around it                                      *)

\* Faulty: the handler gives up without closing.
GiveUpOpen(c) ==
    /\ handler' = [handler EXCEPT ![c] = "ended"]
    /\ UNCHANGED conn

\* except Exception: await ws.close()
GiveUp(c) ==
    /\ handler' = [handler EXCEPT ![c] = "ended"]
    /\ conn' = [conn EXCEPT ![c] = "closed"]

\* Faulty: is_final alone is looked at.
AcceptedAnyway(verdict) == verdict \in {"WELCOME", "ABORT"}

\* is_final, and not is_aborted()
Accepted(verdict) == verdict = "WELCOME"

\* Receive, ask the acceptor, send.  An ABORT is sent, then raised.
Accept(c) ==
    /\ handler[c] = "accepting"
    /\ toServer[c] # <<>>
    /\ toServer' = [toServer EXCEPT ![c] = Tail(@)]
    /\ LET verdict == Verdict(c, Head(toServer[c]))
       IN IF verdict = "exception" \/ conn[c] = "closed"
          THEN GiveUp(c) /\ UNCHANGED toClient
          ELSE /\ toClient' = Put(toClient, c, verdict)
               /\ CASE verdict = "CHALLENGE" -> UNCHANGED <<handler, conn>>
                    [] Accepted(verdict) ->
                          /\ handler' = [handler EXCEPT ![c] = "accepted"]
                          /\ UNCHANGED conn
                    [] OTHER -> GiveUp(c)
    /\ UNCHANGED <<credential, client, realms, attached>>

\* receive_func raises, or the loop ends and accept() returns None, which
\* attach_client cannot use.
AcceptFails(c) ==
    /\ handler[c] = "accepting"
    /\ conn[c] = "closed"
    /\ toServer[c] = <<>>
    /\ GiveUp(c)
    /\ UNCHANGED <<credential, client, toServer, toClient, realms, attached>>

\* Faulty: the exception of attach_client is swallowed.
AttachSwallows(c) ==
    /\ handler[c] = "accepted"
    /\ handler' = [handler EXCEPT ![c] = "serving"]
    /\ attached' = IF realms THEN attached \cup {c} ELSE attached
    /\ UNCHANGED <<credential, client, netVars, realms>>

\* The realm may have gone in the meantime: the client was welcomed all the same.
Attach(c) ==
    /\ handler[c] = "accepted"
    /\ IF realms
       THEN /\ attached' = attached \cup {c}
            /\ handler' = [handler EXCEPT ![c] = "serving"]
            /\ UNCHANGED conn
       ELSE GiveUp(c) /\ UNCHANGED attached
    /\ UNCHANGED <<credential, client, toServer, toClient, realms>>

\* Router.remove_realm
RemoveRealm ==
    /\ realms
    /\ realms' = FALSE
    /\ UNCHANGED <<credential, client, handler, netVars, attached>>

\* The network drops the connection, perhaps with what is on its way: external.
Drop(c) ==
    /\ conn[c] = "open"
    /\ conn' = [conn EXCEPT ![c] = "closed"]
    /\ toServer' \in {toServer, [toServer EXCEPT ![c] = <<>>]}
    /\ toClient' \in {toClient, [toClient EXCEPT ![c] = <<>>]}
    /\ UNCHANGED <<credential, client, handler, realms, attached>>

JoinStep(c) == \/ Hello(c) \/ Challenged(c) \/ ChallengeRaises(c)
               \/ Welcomed(c) \/ Aborted(c) \/ ReadFails(c)

HandlerStep(c) == Accept(c) \/ AcceptFails(c) \/ Attach(c)

Next ==
    \/ \E c \in Clients : JoinStep(c) \/ Cancel(c) \/ HandlerStep(c) \/ Drop(c)
    \/ RemoveRealm

Spec == Init /\ [][Next]_vars

\* Both ends run when there is something to read, or the connection is closed.
FairSpec == Spec /\ \A c \in Clients : WF_vars(JoinStep(c)) /\ WF_vars(HandlerStep(c))

-----------------------------------------------------------------------------
(* Properties                                                              *)

\* Every variable keeps its type; at most one handshake message is on its way.
TypeOK ==
    /\ credential \in [Clients -> Credentials]
    /\ client \in [Clients -> {"connected", "reading", "joined", "failed", "abandoned"}]
    /\ handler \in [Clients -> {"accepting", "accepted", "serving", "ended"}]
    /\ conn \in [Clients -> {"open", "closed"}]
    /\ toServer \in [Clients -> Seq({"HELLO", "AUTHENTICATE"})]
    /\ toClient \in [Clients -> Seq({"CHALLENGE", "WELCOME", "ABORT"})]
    /\ \A c \in Clients : Len(toServer[c]) + Len(toClient[c]) <= 1
    /\ realms \in BOOLEAN
    /\ attached \subseteq Clients

\* Only a client the acceptor has welcomed becomes a session, at either end: an
\* ABORT is final too, and must not be taken for a success (acceptor.py: is_aborted).
OnlyWelcome ==
    \A c \in Clients :
        c \in attached \/ client[c] = "joined" => credential[c] \in {"anonymous", "right"}

\* join() ends, though it has no timeout: the server answers or closes.
JoinEnds ==
    \A c \in Clients :
        client[c] = "reading" ~> client[c] \in {"joined", "failed", "abandoned"}

\* A join() that the other end has settled leaves no connection over: a client that
\* has joined gets attached to its realm, also when the realm goes between WELCOME and
\* attach_client, or its connection is closed; the connection of a join() that failed
\* with an ABORT, a write or a read, which the client leaves open (joiner.py), is
\* closed by the server.  A join() that its own end gives up is not among them: when
\* the authenticator raises on CHALLENGE, or the caller cancels, nobody closes the
\* connection, and accept() waits for the next message without a timeout.
JoinSettles ==
    \A c \in Clients :
        client[c] \in {"joined", "failed"} ~>
            (client[c] = "joined" /\ c \in attached) \/ conn[c] = "closed"
=============================================================================
