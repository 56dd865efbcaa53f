----------------------------- MODULE LaunchProofs -----------------------------
(***************************************************************************)
(* For any clients, credentials and settings: the handshake keeps at most  *)
(* one message on its way, only a client that was welcomed becomes a       *)
(* session, and the credential that is given is used.                      *)
(***************************************************************************)
EXTENDS Launch, FiniteSetTheorems, SequenceTheorems, TLAPS

\* Nothing is on its way before join() begins, and nobody joins before the client
\* is launched: until then its credential is open.
Fresh == \A c \in Clients : client[c] = "connected" => toServer[c] = <<>> /\ toClient[c] = <<>>

Quiet ==
    stage # "joining" =>
        /\ attached = {}
        /\ \A c \in Clients : client[c] = "connected" /\ handler[c] = "accepting"

\* A WELCOME is for a client that the acceptor lets in.
Welcome(c) == credential[c] \in {"anonymous", "right"}

WelcomeEarned ==
    \A c \in Clients :
        /\ handler[c] = "accepted" => Welcome(c)
        /\ toClient[c] # <<>> /\ Head(toClient[c]) = "WELCOME" => Welcome(c)

\* The configuration is one that the settings give.
Configured(c, s) ==
    /\ s \in Settings
    /\ \E d \in Loaded(s) : c = IF s.source = "cli" THEN d ELSE Updated(d, s.args)

Prepared ==
    /\ stage = "command" => settings \in Settings
    /\ stage \in {"loaded", "checked"} => Configured(config, settings)
    /\ stage = "checked" => Acceptable(config) /\ method = AuthMethod(config)

IInv ==
    /\ TypeOK /\ Fresh
    /\ Quiet /\ WelcomeEarned /\ OnlyWelcome
    /\ Prepared

-----------------------------------------------------------------------------
(* The handshake                                                           *)

ClientMessages == {"HELLO", "AUTHENTICATE"}
Answers == {"CHALLENGE", "WELCOME", "ABORT"}

\* A message that is put in an empty queue is there alone.
LEMMA PutAlone ==
    ASSUME NEW S, NEW queue \in [Clients -> Seq(S)], NEW c \in Clients, NEW m \in S,
           queue[c] = <<>>
    PROVE  /\ Put(queue, c, m) \in [Clients -> Seq(S)]
           /\ \A d \in Clients \ {c} : Put(queue, c, m)[d] = queue[d]
           /\ Len(Put(queue, c, m)[c]) = 1
           /\ Head(Put(queue, c, m)[c]) = m
<1>1. Append(queue[c], m) \in Seq(S)
  BY AppendProperties
<1>2. Append(queue[c], m) = <<m>>
  OBVIOUS
<1>3. Len(<<m>>) = 1 /\ Head(<<m>>) = m
  OBVIOUS
<1>4. Put(queue, c, m) = [queue EXCEPT ![c] = Append(queue[c], m)]
  BY DEF Put
<1> QED
  BY <1>1, <1>2, <1>3, <1>4

LEMMA Sent ==
    ASSUME TypeOK, NEW c \in Clients, NEW m \in ClientMessages,
           toServer[c] = <<>>, toServer' = Put(toServer, c, m)
    PROVE  /\ toServer' \in [Clients -> Seq(ClientMessages)]
           /\ \A d \in Clients \ {c} : toServer'[d] = toServer[d]
           /\ Len(toServer'[c]) = 1
<1>1. toServer \in [Clients -> Seq(ClientMessages)]
  BY DEF TypeOK, ClientMessages
<1> HIDE DEF ClientMessages
<1> QED
  BY <1>1, PutAlone

LEMMA Answered ==
    ASSUME TypeOK, NEW c \in Clients, NEW m \in Answers,
           toClient[c] = <<>>, toClient' = Put(toClient, c, m)
    PROVE  /\ toClient' \in [Clients -> Seq(Answers)]
           /\ \A d \in Clients \ {c} : toClient'[d] = toClient[d]
           /\ Len(toClient'[c]) = 1 /\ Head(toClient'[c]) = m
<1>1. toClient \in [Clients -> Seq(Answers)]
  BY DEF TypeOK, Answers
<1> HIDE DEF Answers
<1> QED
  BY <1>1, PutAlone

LEMMA TakeType ==
    ASSUME NEW S, NEW queue \in [Clients -> Seq(S)], NEW c \in Clients, queue[c] # <<>>
    PROVE  LET taken == [queue EXCEPT ![c] = Tail(@)]
           IN  /\ taken \in [Clients -> Seq(S)]
               /\ Head(queue[c]) \in S
               /\ taken[c] = Tail(queue[c])
               /\ \A d \in Clients \ {c} : taken[d] = queue[d]
               /\ Len(queue[c]) \in Nat \ {0}
               /\ Len(taken[c]) = Len(queue[c]) - 1
<1>1. queue[c] \in Seq(S)
  OBVIOUS
<1>2. /\ Tail(queue[c]) \in Seq(S) /\ Len(Tail(queue[c])) = Len(queue[c]) - 1
      /\ Head(queue[c]) \in S /\ Len(queue[c]) \in Nat \ {0}
  BY <1>1, HeadTailProperties, EmptySeq
<1> QED
  BY <1>2

LEMMA AtMostOneNonzero ==
    \A m, n \in Nat : m + n <= 1 => (m # 0 => n = 0 /\ m = 1) /\ (n # 0 => m = 0 /\ n = 1)
<1> QED
  OBVIOUS

\* What is on its way when a message is taken is that message alone.
LEMMA OnlyMessage ==
    ASSUME TypeOK, NEW c \in Clients
    PROVE  /\ toServer[c] # <<>> => toClient[c] = <<>> /\ Len(toServer[c]) = 1
           /\ toClient[c] # <<>> => toServer[c] = <<>> /\ Len(toClient[c]) = 1
<1>1. /\ toServer[c] \in Seq(ClientMessages)
      /\ toClient[c] \in Seq(Answers)
      /\ Len(toServer[c]) + Len(toClient[c]) <= 1
  BY DEF TypeOK, ClientMessages, Answers
<1>2. /\ Len(toServer[c]) \in Nat /\ (toServer[c] # <<>> => Len(toServer[c]) # 0)
      /\ Len(toClient[c]) \in Nat /\ (toClient[c] # <<>> => Len(toClient[c]) # 0)
  BY <1>1, EmptySeq, LenProperties
<1>3. PICK m \in Nat, n \in Nat : m = Len(toServer[c]) /\ n = Len(toClient[c])
  BY <1>2
<1>4. m + n <= 1 /\ (toServer[c] # <<>> => m # 0) /\ (toClient[c] # <<>> => n # 0)
  BY <1>1, <1>2, <1>3
<1>5. (m # 0 => n = 0 /\ m = 1) /\ (n # 0 => m = 0 /\ n = 1)
  BY <1>4, AtMostOneNonzero
<1> QED
  BY <1>2, <1>3, <1>4, <1>5

\* At most one message is on its way when only the queues of c change, and c's
\* hold at most one.
LEMMA AtMostOne ==
    ASSUME TypeOK, NEW c \in Clients,
           \A d \in Clients \ {c} : toServer'[d] = toServer[d] /\ toClient'[d] = toClient[d],
           Len(toServer'[c]) \in {0, 1}, Len(toClient'[c]) \in {0, 1},
           Len(toServer'[c]) = 0 \/ Len(toClient'[c]) = 0
    PROVE  \A d \in Clients : Len(toServer'[d]) + Len(toClient'[d]) <= 1
<1>1. \A m, n \in {0, 1} : m = 0 \/ n = 0 => m + n <= 1
  OBVIOUS
<1>2. Len(toServer'[c]) + Len(toClient'[c]) <= 1
  BY <1>1, Zenon
<1>3. \A d \in Clients \ {c} : Len(toServer[d]) + Len(toClient[d]) <= 1
  BY DEF TypeOK
<1> QED
  BY <1>2, <1>3

Handshake == TypeOK /\ Fresh /\ WelcomeEarned /\ OnlyWelcome

\* A step of join().
LEMMA ClientHandshake ==
    ASSUME Handshake, NEW c \in Clients, JoinStep(c)
    PROVE  Handshake'
<1> DEFINE T == Handshake'
<1> SUFFICES T
  OBVIOUS
<1> USE DEF Handshake
<1>a. /\ TypeOK
      /\ client \in [Clients -> {"connected", "reading", "joined", "failed", "abandoned"}]
      /\ toServer \in [Clients -> Seq(ClientMessages)]
      /\ toClient \in [Clients -> Seq(Answers)]
      /\ Len(<<>>) = 0
  BY EmptySeq DEF TypeOK, ClientMessages, Answers
<1>1. CASE Hello(c)
  <2>1. toServer[c] = <<>> /\ toClient[c] = <<>>
    BY <1>1 DEF Hello, Fresh
  <2>2. CASE conn[c] = "open"
    <3>1. /\ toServer' = Put(toServer, c, "HELLO")
          /\ client' = [client EXCEPT ![c] = "reading"]
          /\ UNCHANGED <<credential, handler, conn, toClient, realms, attached>>
      BY <1>1, <2>2 DEF Hello, WriteAndRead
    <3>2. /\ toServer' \in [Clients -> Seq(ClientMessages)]
          /\ \A d \in Clients \ {c} : toServer'[d] = toServer[d]
          /\ Len(toServer'[c]) = 1
      BY <1>a, <2>1, <3>1, Sent DEF ClientMessages
    <3>3. \A d \in Clients : Len(toServer'[d]) + Len(toClient'[d]) <= 1
      BY <1>a, <2>1, <3>1, <3>2, AtMostOne
    <3>4. TypeOK'
      BY <1>a, <3>1, <3>2, <3>3 DEF TypeOK, ClientMessages, Answers
    <3>5. Fresh'
      BY <1>a, <3>1, <3>2 DEF Fresh
    <3> QED
      BY <1>a, <3>1, <3>4, <3>5 DEF WelcomeEarned, Welcome, OnlyWelcome
  <2>3. CASE conn[c] # "open"
    <3>1. /\ client' = [client EXCEPT ![c] = "failed"]
          /\ UNCHANGED <<credential, handler, conn, toServer, toClient, realms, attached>>
      BY <1>1, <2>3 DEF Hello, WriteAndRead
    <3> QED
      BY <1>a, <3>1 DEF TypeOK, ClientMessages, Answers, Fresh, WelcomeEarned, Welcome, OnlyWelcome
  <2> QED
    BY <2>2, <2>3
<1>2. ASSUME NEW m, Reads(c, m)
      PROVE  /\ toClient' \in [Clients -> Seq(Answers)]
             /\ \A d \in Clients \ {c} : toClient'[d] = toClient[d]
             /\ toClient'[c] = <<>> /\ toServer[c] = <<>>
             /\ client[c] = "reading" /\ (m = "WELCOME" => Welcome(c))
             /\ UNCHANGED <<credential, handler, conn, realms, attached>>
  <2>1. /\ toClient[c] # <<>> /\ Head(toClient[c]) = m /\ client[c] = "reading"
        /\ toClient' = [toClient EXCEPT ![c] = Tail(@)]
        /\ UNCHANGED <<credential, handler, conn, realms, attached>>
    BY <1>2 DEF Reads
  <2>2. toServer[c] = <<>> /\ Len(toClient[c]) = 1
    BY <2>1, OnlyMessage
  <2>3. /\ toClient' \in [Clients -> Seq(Answers)]
        /\ \A d \in Clients \ {c} : toClient'[d] = toClient[d]
        /\ Len(toClient'[c]) = 0
    BY <1>a, <2>1, <2>2, TakeType
  <2>4. toClient'[c] = <<>>
    BY <2>3, EmptySeq
  <2> QED
    BY <2>1, <2>2, <2>3, <2>4 DEF WelcomeEarned
<1>3. CASE Challenged(c)
  <2>1. Reads(c, "CHALLENGE") /\ WriteAndRead(c, "AUTHENTICATE")
    BY <1>3 DEF Challenged
  <2>2. /\ toClient' \in [Clients -> Seq(Answers)]
        /\ \A d \in Clients \ {c} : toClient'[d] = toClient[d]
        /\ toClient'[c] = <<>> /\ toServer[c] = <<>>
        /\ UNCHANGED <<credential, handler, conn, realms, attached>>
    BY <2>1, <1>2
  <2>3. CASE conn[c] = "open"
    <3>1. /\ toServer' = Put(toServer, c, "AUTHENTICATE")
          /\ client' = [client EXCEPT ![c] = "reading"]
      BY <2>1, <2>3 DEF WriteAndRead
    <3>2. /\ toServer' \in [Clients -> Seq(ClientMessages)]
          /\ \A d \in Clients \ {c} : toServer'[d] = toServer[d]
          /\ Len(toServer'[c]) = 1
      BY <1>a, <2>2, <3>1, Sent DEF ClientMessages
    <3>3. \A d \in Clients : Len(toServer'[d]) + Len(toClient'[d]) <= 1
      BY <1>a, <2>2, <3>2, AtMostOne
    <3>4. TypeOK'
      BY <1>a, <2>2, <3>1, <3>2, <3>3 DEF TypeOK, ClientMessages, Answers
    <3>5. Fresh'
      BY <1>a, <2>2, <3>1, <3>2 DEF Fresh
    <3> QED
      BY <1>a, <2>2, <3>1, <3>4, <3>5 DEF WelcomeEarned, Welcome, OnlyWelcome
  <2>4. CASE conn[c] # "open"
    <3>1. client' = [client EXCEPT ![c] = "failed"] /\ toServer' = toServer
      BY <2>1, <2>4 DEF WriteAndRead
    <3>2. \A d \in Clients : Len(toServer'[d]) + Len(toClient'[d]) <= 1
      BY <1>a, <2>2, <3>1, AtMostOne
    <3> QED
      BY <1>a, <2>2, <3>1, <3>2 DEF TypeOK, ClientMessages, Answers, Fresh, WelcomeEarned, Welcome, OnlyWelcome
  <2> QED
    BY <2>3, <2>4
<1>4. CASE Welcomed(c) \/ Aborted(c) \/ ChallengeRaises(c)
  <2>1. PICK m \in {"WELCOME", "ABORT", "CHALLENGE"}, how \in {"joined", "failed", "abandoned"} :
             /\ Reads(c, m) /\ toServer' = toServer
             /\ client' = [client EXCEPT ![c] = how]
             /\ how = "joined" => m = "WELCOME"
    BY <1>4 DEF Welcomed, Aborted, ChallengeRaises
  <2>2. /\ toClient' \in [Clients -> Seq(Answers)]
        /\ \A d \in Clients \ {c} : toClient'[d] = toClient[d]
        /\ toClient'[c] = <<>> /\ toServer[c] = <<>>
        /\ m = "WELCOME" => Welcome(c)
        /\ UNCHANGED <<credential, handler, conn, realms, attached>>
    BY <2>1, <1>2
  <2>3. \A d \in Clients : Len(toServer'[d]) + Len(toClient'[d]) <= 1
    BY <1>a, <2>1, <2>2, AtMostOne
  <2> QED
    BY <1>a, <2>1, <2>2, <2>3 DEF TypeOK, ClientMessages, Answers, Fresh, WelcomeEarned, Welcome, OnlyWelcome
<1>5. CASE ReadFails(c)
  BY <1>a, <1>5 DEF ReadFails, netVars, TypeOK, ClientMessages, Answers, Fresh, WelcomeEarned, Welcome, OnlyWelcome
<1> HIDE DEF T
<1> QED
  BY <1>1, <1>3, <1>4, <1>5 DEF JoinStep


\* A step of the server's handler.
LEMMA HandlerHandshake ==
    ASSUME Handshake, NEW c \in Clients, HandlerStep(c)
    PROVE  Handshake'
<1> DEFINE T == Handshake'
<1> SUFFICES T
  OBVIOUS
<1> USE DEF Handshake
<1>a. /\ TypeOK
      /\ client \in [Clients -> {"connected", "reading", "joined", "failed", "abandoned"}]
      /\ handler \in [Clients -> {"accepting", "accepted", "serving", "ended"}]
      /\ conn \in [Clients -> {"open", "closed"}]
      /\ toServer \in [Clients -> Seq(ClientMessages)]
      /\ toClient \in [Clients -> Seq(Answers)]
      /\ Len(<<>>) = 0
  BY EmptySeq DEF TypeOK, ClientMessages, Answers
<1>1. CASE Accept(c)
  <2> DEFINE verdict == Verdict(c, Head(toServer[c]))
  <2>1. /\ toServer[c] # <<>> /\ handler[c] = "accepting"
        /\ toServer' = [toServer EXCEPT ![c] = Tail(@)]
        /\ UNCHANGED <<credential, client, realms, attached>>
    BY <1>1 DEF Accept
  <2>2. toClient[c] = <<>> /\ Len(toServer[c]) = 1
    BY <1>a, <2>1, OnlyMessage
  <2>3. /\ toServer' \in [Clients -> Seq(ClientMessages)]
        /\ \A d \in Clients \ {c} : toServer'[d] = toServer[d]
        /\ Len(toServer'[c]) = 0
    BY <1>a, <2>1, <2>2, TakeType
  <2>4. toServer'[c] = <<>>
    BY <2>3, EmptySeq
  <2>5. client[c] # "connected"
    BY <2>1 DEF Fresh
  <2>6. CASE verdict = "exception" \/ conn[c] = "closed"
    <3>1. /\ handler' = [handler EXCEPT ![c] = "ended"]
          /\ conn' = [conn EXCEPT ![c] = "closed"] /\ toClient' = toClient
      BY <1>1, <2>6 DEF Accept, GiveUp
    <3>2. \A d \in Clients : Len(toServer'[d]) + Len(toClient'[d]) <= 1
      BY <1>a, <2>2, <2>3, <3>1, AtMostOne
    <3> QED
      BY <1>a, <2>1, <2>3, <2>4, <3>1, <3>2
      DEF TypeOK, ClientMessages, Answers, Fresh, WelcomeEarned, Welcome, OnlyWelcome
  <2>7. CASE ~(verdict = "exception" \/ conn[c] = "closed")
    <3>1. /\ toClient' = Put(toClient, c, verdict)
          /\ \/ verdict = "CHALLENGE" /\ UNCHANGED <<handler, conn>>
             \/ /\ verdict = "WELCOME" /\ UNCHANGED conn
                /\ handler' = [handler EXCEPT ![c] = "accepted"]
             \/ /\ handler' = [handler EXCEPT ![c] = "ended"]
                /\ conn' = [conn EXCEPT ![c] = "closed"]
      BY <1>1, <2>7 DEF Accept, GiveUp, Accepted
    <3>2. verdict \in Answers /\ (verdict = "WELCOME" => Welcome(c))
      BY <2>7 DEF Verdict, Answers, Welcome
    <3> HIDE DEF verdict
    <3>3. /\ toClient' \in [Clients -> Seq(Answers)]
          /\ \A d \in Clients \ {c} : toClient'[d] = toClient[d]
          /\ Len(toClient'[c]) = 1 /\ Head(toClient'[c]) = verdict
      BY <1>a, <2>2, <3>1, <3>2, Answered
    <3>4. \A d \in Clients : Len(toServer'[d]) + Len(toClient'[d]) <= 1
      BY <1>a, <2>3, <3>3, AtMostOne
    <3>5. TypeOK'
      BY <1>a, <2>1, <2>3, <3>1, <3>3, <3>4 DEF TypeOK, ClientMessages, Answers
    <3>6. Fresh'
      BY <2>1, <2>3, <2>5, <3>3 DEF Fresh
    <3>7. WelcomeEarned'
      BY <1>a, <2>1, <3>1, <3>2, <3>3 DEF WelcomeEarned, Welcome
    <3> QED
      BY <2>1, <3>5, <3>6, <3>7 DEF OnlyWelcome
  <2> QED
    BY <2>6, <2>7
<1>2. CASE AcceptFails(c)
  BY <1>a, <1>2 DEF AcceptFails, GiveUp, TypeOK, ClientMessages, Answers, Fresh,
                    WelcomeEarned, Welcome, OnlyWelcome
<1>3. CASE Attach(c)
  <2>1. Welcome(c)
    BY <1>3 DEF Attach, WelcomeEarned
  <2>2. /\ attached' \in {attached, attached \cup {c}}
        /\ handler' \in {[handler EXCEPT ![c] = "serving"], [handler EXCEPT ![c] = "ended"]}
        /\ conn' \in {conn, [conn EXCEPT ![c] = "closed"]}
        /\ UNCHANGED <<credential, client, toServer, toClient, realms>>
    BY <1>3 DEF Attach, GiveUp
  <2>3. TypeOK' /\ Fresh'
    BY <1>a, <2>2 DEF TypeOK, Fresh
  <2>4. WelcomeEarned' /\ OnlyWelcome'
    BY <1>a, <2>1, <2>2 DEF WelcomeEarned, Welcome, OnlyWelcome
  <2> QED
    BY <2>3, <2>4
<1> HIDE DEF T
<1> QED
  BY <1>1, <1>2, <1>3 DEF HandlerStep

\* Every step of Join, when credentials are settled.
LEMMA NextHandshake ==
    ASSUME Handshake, Next
    PROVE  Handshake'
<1> DEFINE T == Handshake'
<1> SUFFICES T
  OBVIOUS
<1>1. ASSUME NEW c \in Clients, JoinStep(c)
      PROVE  T
  BY <1>1, ClientHandshake
<1>2. ASSUME NEW c \in Clients, HandlerStep(c)
      PROVE  T
  BY <1>2, HandlerHandshake
<1>3. ASSUME NEW c \in Clients, Drop(c)
      PROVE  T
  <2>1. /\ conn' = [conn EXCEPT ![c] = "closed"]
        /\ UNCHANGED <<credential, client, handler, realms, attached>>
        /\ toServer' \in {toServer, [toServer EXCEPT ![c] = <<>>]}
        /\ toClient' \in {toClient, [toClient EXCEPT ![c] = <<>>]}
    BY <1>3 DEF Drop
  <2>2. /\ toServer \in [Clients -> Seq(ClientMessages)]
        /\ toClient \in [Clients -> Seq(Answers)]
        /\ <<>> \in Seq(ClientMessages) /\ <<>> \in Seq(Answers) /\ Len(<<>>) = 0
    BY EmptySeq DEF Handshake, TypeOK, ClientMessages, Answers
  <2>3. /\ toServer' \in [Clients -> Seq(ClientMessages)]
        /\ toClient' \in [Clients -> Seq(Answers)]
        /\ \A d \in Clients \ {c} : toServer'[d] = toServer[d] /\ toClient'[d] = toClient[d]
        /\ toServer'[c] \in {toServer[c], <<>>} /\ toClient'[c] \in {toClient[c], <<>>}
    BY <2>1, <2>2
  <2>4. TypeOK /\ Fresh /\ WelcomeEarned /\ OnlyWelcome
    BY DEF Handshake
  <2>5. \A d \in Clients : Len(toServer'[d]) + Len(toClient'[d]) <= 1
    <3>1. Len(toServer[c]) \in Nat /\ Len(toClient[c]) \in Nat
      BY <2>2, LenProperties
    <3>2. /\ toServer[c] # <<>> => toClient[c] = <<>> /\ Len(toServer[c]) = 1
          /\ toClient[c] # <<>> => toServer[c] = <<>> /\ Len(toClient[c]) = 1
      BY <2>4, OnlyMessage
    <3> QED
      BY <2>2, <2>3, <2>4, <3>2, AtMostOne
  <2>6. TypeOK'
    BY <2>1, <2>3, <2>4, <2>5 DEF TypeOK, ClientMessages, Answers
  <2>7. Fresh'
    BY <2>1, <2>3, <2>4 DEF Fresh
  <2>8. WelcomeEarned'
    BY <2>1, <2>3, <2>4 DEF WelcomeEarned, Welcome
  <2> QED
    BY <2>1, <2>4, <2>6, <2>7, <2>8 DEF Handshake, OnlyWelcome
<1>4. ASSUME NEW c \in Clients, Cancel(c)
      PROVE  T
  BY <1>4 DEF Cancel, netVars, Handshake, TypeOK, Fresh, WelcomeEarned, Welcome, OnlyWelcome
<1>5. CASE RemoveRealm
  BY <1>5 DEF RemoveRealm, netVars, Handshake, TypeOK, Fresh, WelcomeEarned, Welcome, OnlyWelcome
<1> HIDE DEF T
<1> QED
  BY <1>1, <1>2, <1>3, <1>4, <1>5 DEF Next

-----------------------------------------------------------------------------
(* The settings                                                            *)

\* The credentials are settings of their own, and few.
LEMMA SecretFields ==
    ASSUME NEW s \in Settings, NEW f \in Secrets
    PROVE  f \in Fields /\ f \notin Required
BY LaunchAssumption DEF Fields, Required

LEMMA GivenFinite == \A c : IsFiniteSet(GivenSecrets(c))
<1>1. IsFiniteSet({"private_key", "ticket", "secret"})
  <2>1. /\ IsFiniteSet({"private_key"})
        /\ IsFiniteSet({"private_key"} \cup {"ticket"})
        /\ IsFiniteSet({"private_key"} \cup {"ticket"} \cup {"secret"})
    BY FS_Singleton, FS_AddElement
  <2>2. {"private_key"} \cup {"ticket"} \cup {"secret"} = {"private_key", "ticket", "secret"}
    OBVIOUS
  <2> QED
    BY <2>1, <2>2
<1> TAKE c
<1>2. GivenSecrets(c) \in SUBSET {"private_key", "ticket", "secret"}
  BY LaunchAssumption DEF GivenSecrets
<1> QED
  BY <1>1, <1>2, FS_Subset

\* Where credentials are acceptable, one that is given selects the method.
LEMMA GivenSelects ==
    ASSUME NEW c, Acceptable(c), NEW f \in Secrets, NonEmpty(c[f])
    PROVE  AuthMethod(c) = MethodOf(f)
<1>1. {f} \in SUBSET GivenSecrets(c)
  BY DEF GivenSecrets
<1>2. IsFiniteSet(GivenSecrets(c)) /\ Cardinality(GivenSecrets(c)) \in Nat
  BY GivenFinite, FS_CardinalityType
<1>3. Cardinality({f}) = 1 /\ Cardinality({f}) <= Cardinality(GivenSecrets(c))
  BY <1>1, <1>2, FS_Singleton, FS_Subset
<1>4. Cardinality(GivenSecrets(c)) = Cardinality({f})
  BY <1>2, <1>3 DEF Acceptable
<1>5. GivenSecrets(c) = {f}
  BY <1>1, <1>2, <1>4, FS_Subset
<1>6. (CHOOSE g \in Secrets : GivenSecrets(c) = {g}) = f
  BY <1>5
<1> QED
  BY <1>5, <1>6 DEF AuthMethod

\* The credential that is chosen comes through as it is.
LEMMA ChosenComesThrough ==
    ASSUME NEW s, NEW c, Configured(c, s), NEW f \in Secrets, NonEmpty(Chosen(s, f))
    PROVE  c[f] = Chosen(s, f)
<1> DEFINE T == c[f] = Chosen(s, f)
<1> SUFFICES T
  OBVIOUS
<1>1. s \in Settings
  BY DEF Configured
<1>2. f \in Fields /\ f \notin Required
  BY <1>1, SecretFields
<1>3. PICK d \in Loaded(s) : c = IF s.source = "cli" THEN d ELSE Updated(d, s.args)
  BY DEF Configured
<1>4. s.source \in {"cli", "env", "file"}
  BY <1>1, LaunchAssumption
<1>5. CASE s.source = "cli"
  <2>1. c = s.args
    BY <1>3, <1>5 DEF Loaded, FromYaml
  <2>2. s.args[f] # Absent
    BY <1>5 DEF Chosen, Or, NonEmpty
  <2> QED
    BY <2>1, <2>2 DEF Chosen, Or
<1>6. CASE s.source # "cli"
  <2>1. c[f] = Or(s.args[f], d[f])
    BY <1>2, <1>3, <1>6 DEF Updated, Over
  <2>2. CASE s.args[f] # Absent
    BY <2>1, <2>2 DEF Or, Chosen
  <2>3. CASE s.args[f] = Absent /\ s.source = "env"
    <3>1. d = FromEnvironment(s.args, s.environ)
      BY <1>3, <2>3 DEF Loaded, FromYaml
    <3>2. Chosen(s, f) = s.environ[f]
      BY <2>3 DEF Chosen, Or
    <3>3. d[f] = s.environ[f]
      BY <1>2, <3>1, <3>2 DEF FromEnvironment, Or, NonEmpty
    <3> QED
      BY <2>1, <2>3, <3>2, <3>3 DEF Or
  <2>4. CASE s.args[f] = Absent /\ FromYaml(s)
    <3>1. s.source = "file"
      BY <2>4 DEF FromYaml
    <3>2. d = Over(s.args, s.file)
      BY <1>3, <2>4, <3>1 DEF Loaded
    <3>3. d[f] = s.file[f]
      BY <1>2, <2>4, <3>2 DEF Over, Or
    <3> QED
      BY <2>1, <2>4, <3>1, <3>3 DEF Or, Chosen
  <2>5. CASE s.args[f] = Absent /\ ~FromYaml(s) /\ s.source = "file"
    <3>1. s.kind = "dotenv" /\ Chosen(s, f) = Or(s.environ[f], s.file[f])
      BY <2>5 DEF Chosen, Or, NonEmpty
    <3>2. d \in {FromEnvironment(s.args, e) : e \in Dotenv(s)}
      BY <1>3, <2>5 DEF Loaded
    <3>3. Dotenv(s) = {Over(s.environ, s.file)}
      BY <3>1 DEF Dotenv
    <3>4. d = FromEnvironment(s.args, Over(s.environ, s.file))
      BY <3>2, <3>3
    <3>5. Over(s.environ, s.file)[f] = Or(s.environ[f], s.file[f])
      BY <1>2 DEF Over
    <3>6. d[f] = Or(s.environ[f], s.file[f])
      BY <1>2, <3>1, <3>4, <3>5 DEF FromEnvironment, Or, NonEmpty
    <3> QED
      BY <2>1, <2>5, <3>1, <3>6 DEF Or
  <2> QED
    BY <1>4, <1>6, <2>2, <2>3, <2>4, <2>5
<1> QED
  BY <1>5, <1>6

LEMMA PreparedUses == Prepared => CredentialUsed
<1> SUFFICES ASSUME Prepared, stage = "checked", NEW f \in Secrets,
                    NonEmpty(Chosen(settings, f))
             PROVE  method = MethodOf(f) /\ config[f] = Chosen(settings, f)
  BY DEF CredentialUsed
<1>1. Configured(config, settings) /\ Acceptable(config) /\ method = AuthMethod(config)
  BY DEF Prepared
<1>2. config[f] = Chosen(settings, f)
  BY <1>1, ChosenComesThrough
<1> QED
  BY <1>1, <1>2, GivenSelects

-----------------------------------------------------------------------------
(* The launch                                                              *)

LEMMA InitInv == LaunchInit => IInv
<1> SUFFICES ASSUME LaunchInit
             PROVE  TypeOK /\ Fresh /\ Quiet /\ WelcomeEarned /\ OnlyWelcome /\ Prepared
  BY DEF IInv
<1>1. /\ <<>> \in Seq({"HELLO", "AUTHENTICATE"}) /\ Len(<<>>) = 0
      /\ <<>> \in Seq({"CHALLENGE", "WELCOME", "ABORT"})
  BY EmptySeq
<1>2. TypeOK
  BY <1>1 DEF LaunchInit, Init, TypeOK
<1> QED
  BY <1>2 DEF LaunchInit, Init, Fresh, Quiet, WelcomeEarned, OnlyWelcome, Prepared

\* Before the launch the settings are prepared, and Join stands still.
LEMMA StepPrepared ==
    ASSUME IInv, LaunchNext
    PROVE  Prepared'
<1> DEFINE T == Prepared'
<1> SUFFICES T
  OBVIOUS
<1>1. CASE Load
  <2>1. stage = "command" /\ stage' = "loaded" /\ UNCHANGED <<settings, method>>
    BY <1>1 DEF Load
  <2>2. settings \in Settings
    BY <2>1 DEF IInv, Prepared
  <2>3. Configured(config', settings)
    BY <1>1, <2>2 DEF Load, Configured
  <2> QED
    BY <2>1, <2>3 DEF Prepared
<1>2. CASE Select
  <2>1. /\ stage = "loaded" /\ stage' = "checked" /\ UNCHANGED <<settings, config>>
        /\ Acceptable(config) /\ method' = AuthMethod(config)
    BY <1>2 DEF Select
  <2>2. Configured(config, settings)
    BY <2>1 DEF IInv, Prepared
  <2> QED
    BY <2>1, <2>2 DEF Prepared
<1>3. CASE LoadFails \/ Refuse \/ StartFails
  <2>1. stage' \in {"unconfigured", "refused", "failed"}
    BY <1>3 DEF LoadFails, Refuse, StartFails, End
  <2> QED
    BY <2>1 DEF Prepared
<1>4. CASE Start
  BY <1>4 DEF Start, Prepared
<1>5. CASE stage = "joining" /\ Next /\ UNCHANGED launchVars
  BY <1>5 DEF launchVars, Prepared
<1> HIDE DEF T
<1> QED
  BY <1>1, <1>2, <1>3, <1>4, <1>5 DEF LaunchNext

LEMMA StepHandshake ==
    ASSUME IInv, LaunchNext
    PROVE  Handshake' /\ Quiet'
<1> DEFINE T == Handshake' /\ Quiet'
<1> SUFFICES T
  OBVIOUS
<1>a. Handshake /\ Quiet
  BY DEF IInv, Handshake
<1>1. CASE Load \/ Select \/ LoadFails \/ Refuse \/ StartFails
  <2>1. UNCHANGED vars /\ stage # "joining"
    BY <1>1 DEF Load, Select, LoadFails, Refuse, StartFails, End
  <2>2. Handshake'
    BY <1>a, <2>1 DEF vars, netVars, Handshake, TypeOK, Fresh, WelcomeEarned, Welcome, OnlyWelcome
  <2> QED
    BY <1>a, <2>1, <2>2 DEF vars, netVars, Quiet
<1>2. CASE Start
  <2>1. /\ credential' \in [Clients -> Credentials]
        /\ stage = "checked" /\ stage' = "joining"
        /\ UNCHANGED <<client, handler, conn, toServer, toClient, realms, attached>>
    BY <1>2 DEF Start, netVars
  <2>2. attached = {} /\ \A c \in Clients : client[c] = "connected" /\ handler[c] = "accepting"
    BY <1>a, <2>1 DEF Quiet
  <2>3. TypeOK' /\ Fresh'
    BY <1>a, <2>1 DEF Handshake, TypeOK, Fresh
  <2>4. WelcomeEarned' /\ OnlyWelcome'
    BY <1>a, <2>1, <2>2 DEF Handshake, Fresh, WelcomeEarned, Welcome, OnlyWelcome
  <2> QED
    BY <2>1, <2>3, <2>4 DEF Handshake, Quiet
<1>3. CASE stage = "joining" /\ Next /\ UNCHANGED launchVars
  BY <1>3, <1>a, NextHandshake DEF launchVars, Quiet
<1> HIDE DEF T
<1> QED
  BY <1>1, <1>2, <1>3 DEF LaunchNext

LEMMA StepInv == IInv /\ [LaunchNext]_allVars => IInv'
<1> SUFFICES ASSUME IInv, [LaunchNext]_allVars
             PROVE  IInv'
  OBVIOUS
<1>1. CASE LaunchNext
  BY <1>1, StepPrepared, StepHandshake DEF IInv, Handshake
<1>2. CASE UNCHANGED allVars
  <2>1. UNCHANGED <<stage, settings, config, method, credential, client, handler, conn,
                    toServer, toClient, realms, attached>>
    BY <1>2 DEF allVars, launchVars, vars, netVars
  <2>2. TypeOK' /\ Fresh' /\ Quiet' /\ WelcomeEarned' /\ OnlyWelcome'
    BY <2>1 DEF IInv, TypeOK, Fresh, Quiet, WelcomeEarned, Welcome, OnlyWelcome
  <2>3. Prepared'
    BY <2>1 DEF IInv, Prepared
  <2> QED
    BY <2>2, <2>3 DEF IInv
<1> QED
  BY <1>1, <1>2

LEMMA LaunchInv == LaunchSpec => []IInv
<1>1. LaunchInit => IInv
  BY InitInv
<1>2. IInv /\ [LaunchNext]_allVars => IInv'
  BY StepInv
<1> QED
  BY <1>1, <1>2, PTL DEF LaunchSpec

\* The variables of the handshake keep their types, and at most one message of a
\* connection is on its way: neither side has to queue.
THEOREM LaunchTypeOK == LaunchSpec => []TypeOK
<1>1. IInv => TypeOK
  BY DEF IInv
<1> QED
  BY <1>1, LaunchInv, PTL

\* Only a client that the acceptor has welcomed becomes a session, at either end.
THEOREM LaunchOnlyWelcome == LaunchSpec => []OnlyWelcome
<1>1. IInv => OnlyWelcome
  BY DEF IInv
<1> QED
  BY <1>1, LaunchInv, PTL

\* For any settings: the credential that the operator gives, on the command line or
\* else in the chosen source as far as the program reads it (see CredentialUsed for
\* the four cases in which it does not), is the one the client authenticates with:
\* its value is in the configuration, and its kind is the method.
THEOREM LaunchCredentialUsed == LaunchSpec => []CredentialUsed
<1>1. IInv => CredentialUsed
  BY PreparedUses DEF IInv
<1> QED
  BY <1>1, LaunchInv, PTL
=============================================================================
