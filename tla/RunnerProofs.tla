----------------------------- MODULE RunnerProofs -----------------------------
(***************************************************************************)
(* For either flavour, any number of sessions and procedures, and any      *)
(* stack: there is one session at a time, the app has it, and when it is   *)
(* set up it serves all procedures.                                        *)
(*                                                                         *)
(* The three follow from the order in which sessions are made (Order):     *)
(* every session but the last is lost, and its callback has made the next  *)
(* one.                                                                    *)
(***************************************************************************)
EXTENDS Runner, FiniteSetTheorems, TLAPS

\* Every session but the last was lost and replaced by its callback.
Order ==
    /\ main = "connect" => created = 0
    /\ \A s \in Sessions : s < created => link[s] = "lost" /\ chain[s] = "connected"
    /\ \A s \in Sessions : s = created =>
          /\ link[s] # "none" /\ chain[s] # "connected"
          /\ chain[s] \notin {"none", "crashed"} => link[s] = "lost"
    /\ \A s \in Sessions : s > created =>
          /\ link[s] = "none" /\ chain[s] = "none" /\ setup[s] = "none"
          /\ items[s] = 0 /\ request[s] = "none"

\* What a session that is up has registered, or the router has granted, it holds.
Registered ==
    /\ \A s \in Sessions :
          /\ items[s] <= Items(s)
          /\ request[s] # "none" =>
                items[s] < Items(s) /\ setup[s] \notin {"none", "new", "attached"}
          /\ setup[s] = "done" => items[s] = Items(s)
    /\ \A s \in Sessions : link[s] = "up" =>
          \A p \in 1..Procedures :
              p <= items[s] \/ (p = items[s] + 1 /\ request[s] = "ok") => owner[p] = s

\* Who stores a session in the app: with coroutines the one that makes it.
Stored ==
    /\ flavour = "async" =>
          app = created /\ \A s \in Sessions : setup[s] \notin {"new", "attached"}
    /\ \A s \in Sessions : s = created /\ flavour = "sync" /\ link[s] = "up" =>
          app = s \/ setup[s] \in {"new", "attached"} \/ stale \/ ~Alive

IInv == TypeOK /\ Order /\ Registered /\ Stored

-----------------------------------------------------------------------------
(* The steps                                                               *)

LEMMA SessionNumbers ==
    /\ MaxSessions \in Nat /\ 1 \in Sessions /\ Sessions \subseteq Nat
    /\ \A s \in Sessions : s # 0 /\ s <= MaxSessions
    /\ \A s \in Sessions : Items(s) \in Nat /\ Items(s) <= Procedures + 1 /\ Procedures <= Items(s)
    /\ Procedures \in Nat
BY RunnerAssumption DEF Sessions, Items

LEMMA InitInv == Init => IInv
<1> SUFFICES ASSUME Init
             PROVE  TypeOK /\ Order /\ Registered /\ Stored
  BY DEF IInv
<1> USE SessionNumbers, RunnerAssumption
<1>1. TypeOK
  <2>1. depth \in [Sessions -> 0..RecursionLimit] /\ items \in [Sessions -> 0..(Procedures + 1)]
    BY DEF Init
  <2>2. 0 \in 0..Other /\ Other \in 0..Other
    BY DEF Other
  <2>3. owner \in [1..Procedures -> 0..Other]
    BY <2>2 DEF Init, NoSession
  <2>4. app \in 0..created /\ created \in 0..MaxSessions
    BY DEF Init, NoSession
  <2> QED
    BY <2>1, <2>3, <2>4 DEF Init, TypeOK
<1>2. Order
  BY DEF Init, Order
<1>3. Registered
  BY DEF Init, Registered
<1>4. Stored
  BY DEF Init, Stored, NoSession
<1> QED
  BY <1>1, <1>2, <1>3, <1>4

\* Nothing happens any more when the process has ended.
LEMMA StepsAlive == Next => Alive
BY DEF Next, MainStep, MainConnects, MainConnectFails, MainStops, Signal, Interrupt, RunnerStep,
       Attach, Adopt, SetupSend, SetupReply, SetupReturns, Missed, OnDisconnect, Reconnect,
       ReconnectFails, ReaderCrashes, RouterRegister, Lose, RouterDetach, Alive, MainRuns

\* Only the last session is up, or lost without having been replaced.
LEMMA IsLast ==
    ASSUME TypeOK, Order, NEW s \in Sessions, link[s] # "none", chain[s] # "connected"
    PROVE  s = created
<1>1. s \in Nat /\ created \in Nat
  BY SessionNumbers DEF TypeOK
<1>2. ~(s < created) /\ ~(s > created)
  BY DEF Order
<1> QED
  BY <1>1, <1>2

LEMMA UpIsLast ==
    ASSUME TypeOK, Order, NEW s \in Sessions, link[s] = "up"
    PROVE  s = created
<1>1. s \in Nat /\ created \in Nat
  BY SessionNumbers DEF TypeOK
<1>2. ~(s < created) /\ ~(s > created)
  BY DEF Order
<1> QED
  BY <1>1, <1>2

\* A session is made by main, or by the callback of the last one.
LEMMA MadeInv ==
    ASSUME IInv, MainConnects \/ \E s \in Sessions : Reconnect(s)
    PROVE  IInv'
<1> USE SessionNumbers
<1> DEFINE n == created + 1
<1>1. /\ n \in Sessions /\ created \in Nat /\ created' = n
      /\ link' = [link EXCEPT ![n] = "up"]
      /\ setup' = [setup EXCEPT ![n] = IF flavour = "async" THEN "running" ELSE "new"]
      /\ IF flavour = "async" THEN app' = n /\ stale' \in BOOLEAN ELSE UNCHANGED <<app, stale>>
      /\ UNCHANGED <<flavour, depth, items, request, owner, stop>>
  <2>1. Connected /\ UNCHANGED <<flavour, depth, items, request, owner, stop>>
    BY DEF MainConnects, Reconnect, chainVars
  <2>2. created \in Nat /\ n <= MaxSessions
    BY <2>1 DEF Connected, IInv, TypeOK
  <2>3. n \in Sessions
    BY <2>2 DEF Sessions
  <2> QED
    BY <2>1, <2>2, <2>3 DEF Connected, SetSession
<1>2. \/ main = "connect" /\ main' = "setup" /\ UNCHANGED chain
      \/ /\ UNCHANGED main
         /\ \E s \in Sessions : chain[s] = "retrying" /\ chain' = [chain EXCEPT ![s] = "connected"]
  BY DEF MainConnects, Reconnect, chainVars
<1> HIDE DEF n
<1>3. /\ main' # "connect" /\ main' \in {"connect", "setup", "serving", "failed", "stopped", "returned"}
      /\ \A s \in Sessions : s = created => link[s] = "lost" /\ chain'[s] = "connected"
      /\ \A s \in Sessions : s # created => chain'[s] = chain[s]
      /\ chain' \in [Sessions -> {"none", "missed", "retrying", "connected", "failed", "crashed"}]
  <2>1. CASE main = "connect" /\ main' = "setup" /\ UNCHANGED chain
    <3>1. created = 0
      BY <2>1 DEF IInv, Order
    <3> QED
      BY <2>1, <3>1 DEF IInv, TypeOK
  <2>2. ASSUME NEW r \in Sessions, chain[r] = "retrying", UNCHANGED main,
               chain' = [chain EXCEPT ![r] = "connected"]
        PROVE  <1>3!1 /\ <1>3!2 /\ <1>3!3 /\ <1>3!4
    <3>1. r = created
      BY <1>1, <2>2 DEF IInv, Order
    <3>2. link[r] = "lost" /\ main # "connect"
      BY <1>1, <2>2, <3>1 DEF IInv, Order
    <3> QED
      BY <2>2, <3>1, <3>2 DEF IInv, TypeOK
  <2> QED
    BY <1>2, <2>1, <2>2
<1>4. TypeOK'
  <2>1. n \in 0..MaxSessions
    BY <1>1 DEF n
  <2>2. app' \in 0..created'
    BY <1>1 DEF n, IInv, TypeOK
  <2> QED
    BY <1>1, <1>3, <2>1, <2>2 DEF IInv, TypeOK
<1>5. Order'
  <2>1. chain[n] = "none" /\ setup[n] = "none" /\ n # created
    BY <1>1 DEF n, IInv, Order
  <2>2. \A s \in Sessions : s < n => link'[s] = "lost" /\ chain'[s] = "connected"
    <3> TAKE s \in Sessions
    <3>1. s < n => s < created \/ s = created
      BY <1>1 DEF n
    <3> QED
      BY <1>1, <1>3, <3>1 DEF n, IInv, Order, TypeOK
  <2>3. \A s \in Sessions : s = n => link'[s] = "up" /\ chain'[s] = "none"
    BY <1>1, <1>3, <2>1 DEF IInv, TypeOK
  <2>4. \A s \in Sessions : s > n =>
           /\ link'[s] = "none" /\ chain'[s] = "none" /\ setup'[s] = "none"
           /\ items'[s] = 0 /\ request'[s] = "none"
    <3> SUFFICES ASSUME NEW s \in Sessions, s > n
                 PROVE  /\ link'[s] = "none" /\ chain'[s] = "none" /\ setup'[s] = "none"
                        /\ items'[s] = 0 /\ request'[s] = "none"
      OBVIOUS
    <3>1. s > created /\ s # created /\ s # n
      BY <1>1 DEF n
    <3>2. link'[s] = link[s] /\ setup'[s] = setup[s] /\ chain'[s] = chain[s]
      BY <1>1, <1>3, <3>1 DEF IInv, TypeOK
    <3> QED
      BY <1>1, <3>1, <3>2 DEF IInv, Order
  <2> QED
    BY <1>1, <1>3, <2>2, <2>3, <2>4 DEF Order
<1>6. Registered'
  <2>1. items[n] = 0 /\ request[n] = "none"
    BY <1>1 DEF n, IInv, Order
  <2>2. setup'[n] # "done"
    BY <1>1 DEF IInv, TypeOK
  <2>3. ASSUME NEW s \in Sessions
        PROVE  /\ items'[s] <= Items(s)
               /\ request'[s] # "none" =>
                     items'[s] < Items(s) /\ setup'[s] \notin {"none", "new", "attached"}
               /\ setup'[s] = "done" => items'[s] = Items(s)
    <3>1. CASE s = n
      BY <1>1, <2>1, <2>2, <3>1 DEF IInv, TypeOK
    <3>2. CASE s # n
      BY <1>1, <3>2 DEF IInv, TypeOK, Registered
    <3> QED
      BY <3>1, <3>2
  <2>4. ASSUME NEW s \in Sessions, link'[s] = "up", NEW p \in 1..Procedures,
               p <= items'[s] \/ (p = items'[s] + 1 /\ request'[s] = "ok")
        PROVE  owner'[p] = s
    <3>1. s # n
      BY <1>1, <2>1, <2>4
    <3> QED
      BY <1>1, <2>4, <3>1 DEF IInv, TypeOK, Registered
  <2> QED
    BY <2>3, <2>4 DEF Registered
<1>7. Stored'
  BY <1>1 DEF IInv, TypeOK, Stored
<1> QED
  BY <1>4, <1>5, <1>6, <1>7 DEF IInv

\* A step of _setup, or of what comes before it with threads.
LEMMA SetupInv ==
    ASSUME IInv, NEW s \in Sessions,
           \/ Attach(s) \/ Adopt(s) \/ SetupSend(s) \/ SetupReply(s) \/ SetupReturns(s)
    PROVE  IInv'
<1> USE SessionNumbers
<1> DEFINE T == IInv'
<1> SUFFICES T
  OBVIOUS
<1>a. TypeOK /\ Order /\ Registered /\ Stored /\ Alive
  BY DEF IInv, Attach, Adopt, SetupSend, SetupReply, SetupReturns
<1>b. (s <= created /\ created \in Nat) \/ (setup[s] = "none" /\ request[s] = "none")
  BY <1>a DEF Order, TypeOK
<1>1. CASE Attach(s) \/ Adopt(s)
  <2>1. /\ setup[s] \in {"new", "attached"}
        /\ setup' = [setup EXCEPT ![s] = IF setup[s] = "new" THEN "attached" ELSE "running"]
        /\ setup[s] = "new" => UNCHANGED <<app, stale>>
        /\ setup[s] # "new" => app' = s /\ stale' \in BOOLEAN /\ (stale' <=> link[s] = "lost")
        /\ UNCHANGED <<flavour, main, created, link, chain, depth, items, request, owner, stop>>
    BY <1>1 DEF Attach, Adopt, SetSession, chainVars
  <2>2. s <= created /\ created \in Nat /\ request[s] = "none"
    BY <1>a, <1>b, <2>1 DEF Registered
  <2>3. flavour = "sync"
    BY <1>a, <2>1, RunnerAssumption DEF Stored, TypeOK
  <2>4. TypeOK'
    <3>1. app' \in 0..created'
      BY <1>a, <2>1, <2>2 DEF TypeOK
    <3> QED
      BY <1>a, <2>1, <3>1 DEF TypeOK
  <2>5. Order' /\ Registered'
    <3>1. \A r \in Sessions : r # s => setup'[r] = setup[r]
      BY <1>a, <2>1 DEF TypeOK
    <3>2. setup'[s] # "done"
      BY <1>a, <2>1 DEF TypeOK
    <3>3. Order'
      <4>1. \A r \in Sessions : r > created => r # s
        BY <1>a, <2>2
      <4> QED
        BY <1>a, <2>1, <3>1, <4>1 DEF Order
    <3>4. Registered'
      BY <1>a, <2>1, <2>2, <3>1, <3>2 DEF Registered
    <3> QED
      BY <3>3, <3>4
  <2>6. Stored'
    <3>1. s < created => link[s] = "lost"
      BY <1>a DEF Order
    <3>2. ASSUME NEW r \in Sessions, r = created, link[r] = "up"
          PROVE  app' = r \/ setup'[r] \in {"new", "attached"} \/ stale'
      <4>1. CASE setup[s] = "new"
        <5>1. app = r \/ setup[r] \in {"new", "attached"} \/ stale
          BY <1>a, <2>3, <3>2 DEF Stored
        <5>2. setup'[r] = IF r = s THEN "attached" ELSE setup[r]
          BY <1>a, <2>1, <4>1 DEF TypeOK
        <5> QED
          BY <2>1, <4>1, <5>1, <5>2
      <4>2. CASE setup[s] # "new" /\ s = r
        BY <2>1, <4>2
      <4>3. CASE setup[s] # "new" /\ s # r
        BY <2>1, <2>2, <3>1, <3>2, <4>3
      <4> QED
        BY <4>1, <4>2, <4>3
    <3> QED
      BY <2>1, <2>3, <3>2 DEF Stored
  <2> QED
    BY <2>4, <2>5, <2>6 DEF IInv
<1>2. CASE SetupSend(s) \/ SetupReply(s) \/ SetupReturns(s)
  <2>1. /\ setup[s] \notin {"none", "new", "attached"} /\ s <= created
        /\ UNCHANGED <<flavour, created, link, chain, depth, app, stale, owner, stop>>
    BY <1>a, <1>b, <1>2
    DEF SetupSend, SetupReply, SetupReturns, SetupFails, chainVars, Registered
  <2>2. /\ main' \in {main, "failed", "serving", "returned"}
        /\ \E v \in {setup[s], "failed", "done"} : setup' = [setup EXCEPT ![s] = v]
        /\ \E v \in {items[s], items[s] + 1} : items' = [items EXCEPT ![s] = v]
        /\ \E v \in {request[s], "none", "sent"} : request' = [request EXCEPT ![s] = v]
    <3>0. /\ setup = [setup EXCEPT ![s] = setup[s]] /\ items = [items EXCEPT ![s] = items[s]]
          /\ request = [request EXCEPT ![s] = request[s]]
      BY <1>a DEF TypeOK
    <3>1. CASE SetupSend(s)
      <4>1. CASE request' = [request EXCEPT ![s] = "sent"] /\ UNCHANGED <<setup, main, chain>>
        BY <3>0, <3>1, <4>1 DEF SetupSend
      <4>2. CASE SetupFails(s) /\ UNCHANGED request
        BY <3>0, <3>1, <4>2 DEF SetupSend, SetupFails
      <4> QED
        BY <3>1, <4>1, <4>2 DEF SetupSend
    <3>2. CASE SetupReply(s)
      <4>1. CASE request[s] = "ok"
        BY <1>a, <3>2, <4>1 DEF SetupReply, TypeOK
      <4>2. CASE request[s] # "ok"
        BY <1>a, <3>2, <4>2 DEF SetupReply, SetupFails, TypeOK
      <4> QED
        BY <4>1, <4>2
    <3>3. CASE SetupReturns(s)
      BY <1>a, <3>3 DEF SetupReturns, TypeOK
    <3> QED
      BY <1>2, <3>1, <3>2, <3>3
  <2>3. /\ items'[s] \in 0..(Procedures + 1) /\ items'[s] <= Items(s)
        /\ request'[s] # "none" => items'[s] < Items(s)
        /\ setup'[s] = "done" => items'[s] = Items(s)
        /\ items'[s] = items[s] + 1 => request[s] = "ok" /\ request'[s] # "ok"
        /\ request'[s] = "ok" => request[s] = "ok"
    <3>0. /\ items[s] \in Nat /\ items[s] <= Items(s)
          /\ request[s] # "none" => items[s] < Items(s)
          /\ setup[s] = "done" => items[s] = Items(s)
      BY <1>a DEF TypeOK, Registered
    <3>1. CASE SetupSend(s)
      <4>1. /\ items'[s] = items[s] /\ request[s] = "none" /\ items[s] < Items(s)
            /\ request'[s] \in {"none", "sent"} /\ setup'[s] \in {"running", "failed"}
        BY <1>a, <3>1 DEF SetupSend, SetupFails, TypeOK
      <4> QED
        BY <3>0, <4>1
    <3>2. CASE SetupReply(s)
      <4>1. /\ items'[s] = IF request[s] = "ok" THEN items[s] + 1 ELSE items[s]
            /\ request[s] # "none" /\ request'[s] = "none"
            /\ setup'[s] \in {setup[s], "failed"}
        BY <1>a, <3>2 DEF SetupReply, SetupFails, TypeOK
      <4> QED
        BY <3>0, <4>1
    <3>3. CASE SetupReturns(s)
      <4>1. items'[s] = items[s] /\ request'[s] = "none" /\ items[s] = Items(s)
        BY <1>a, <3>3 DEF SetupReturns, TypeOK
      <4> QED
        BY <3>0, <4>1
    <3> QED
      BY <1>2, <3>1, <3>2, <3>3
  <2>4. TypeOK'
    <3>1. main' \in {"connect", "setup", "serving", "failed", "stopped", "returned"}
      BY <1>a, <2>2 DEF TypeOK
    <3>2. setup' \in [Sessions -> {"none", "new", "attached", "running", "done", "failed"}]
      BY <1>a, <2>2 DEF TypeOK
    <3>3. items' \in [Sessions -> 0..(Procedures + 1)]
      <4>1. PICK v : items' = [items EXCEPT ![s] = v]
        BY <2>2
      <4>2. items'[s] = v
        BY <1>a, <4>1 DEF TypeOK
      <4> QED
        BY <1>a, <2>3, <4>1, <4>2 DEF TypeOK
    <3>4. request' \in [Sessions -> {"none", "sent", "ok", "error"}]
      <4>1. request[s] \in {"none", "sent", "ok", "error"}
        BY <1>a DEF TypeOK
      <4> QED
        BY <1>a, <2>2, <4>1 DEF TypeOK
    <3> QED
      BY <1>a, <2>1, <3>1, <3>2, <3>3, <3>4 DEF TypeOK
  <2>5. Order'
    <3>1. main' = "connect" => created' = 0
      BY <1>a, <2>1, <2>2 DEF Order
    <3> QED
      BY <1>a, <2>1, <2>2, <3>1 DEF TypeOK, Order
  <2>6. Registered'
    <3>1. ASSUME NEW r \in Sessions
          PROVE  /\ items'[r] <= Items(r)
                 /\ request'[r] # "none" =>
                       items'[r] < Items(r) /\ setup'[r] \notin {"none", "new", "attached"}
                 /\ setup'[r] = "done" => items'[r] = Items(r)
      <4>1. CASE r = s
        BY <1>a, <2>1, <2>2, <2>3, <4>1 DEF TypeOK
      <4>2. CASE r # s
        BY <1>a, <2>2, <4>2 DEF TypeOK, Registered
      <4> QED
        BY <4>1, <4>2
    <3>2. ASSUME NEW r \in Sessions, link'[r] = "up", NEW p \in 1..Procedures,
                 p <= items'[r] \/ (p = items'[r] + 1 /\ request'[r] = "ok")
          PROVE  owner'[p] = r
      <4>1. CASE r # s
        BY <1>a, <2>1, <2>2, <3>2, <4>1 DEF TypeOK, Registered
      <4>2. CASE r = s
        <5>1. items[s] \in Nat /\ items'[s] \in {items[s], items[s] + 1}
          BY <1>a, <2>2 DEF TypeOK
        <5>2. p <= items[s] \/ (p = items[s] + 1 /\ request[s] = "ok")
          BY <2>3, <3>2, <4>2, <5>1
        <5> QED
          BY <1>a, <2>1, <3>2, <4>2, <5>2 DEF Registered
      <4> QED
        BY <4>1, <4>2
    <3> QED
      BY <3>1, <3>2 DEF Registered
  <2>7. Stored'
    <3>1. ASSUME NEW r \in Sessions
          PROVE  /\ setup[r] \in {"new", "attached"} => r # s /\ setup'[r] = setup[r]
                 /\ setup'[r] \in {"new", "attached"} => setup[r] \in {"new", "attached"}
      BY <1>a, <2>1, <2>2 DEF TypeOK
    <3> QED
      BY <1>a, <2>1, <3>1 DEF Stored
  <2> QED
    BY <2>4, <2>5, <2>6, <2>7 DEF IInv
<1> HIDE DEF T
<1> QED
  BY <1>1, <1>2

\* A step of a disconnect callback that makes no session.
LEMMA ChainInv ==
    ASSUME IInv, NEW s \in Sessions, Missed(s) \/ OnDisconnect(s) \/ ReconnectFails(s)
    PROVE  IInv'
<1> USE SessionNumbers
<1>1. TypeOK /\ Order /\ Registered /\ Stored /\ Alive
  BY DEF IInv, Missed, OnDisconnect, ReconnectFails, Alive
<1>2. /\ chain[s] = "retrying" \/ (chain[s] = "none" /\ link[s] = "lost")
      /\ \E v \in {"retrying", "missed", "failed"} : chain' = [chain EXCEPT ![s] = v]
      /\ \E v \in {depth[s], depth[s] + 1, 1} :
            depth' = [depth EXCEPT ![s] = v] /\ v \in 0..RecursionLimit
      /\ UNCHANGED <<flavour, main, created, link, setup, items, request, app, stale, owner, stop>>
  <2>1. depth[s] \in 0..RecursionLimit /\ 1 \in 0..RecursionLimit /\ RecursionLimit \in Nat
    BY <1>1, RunnerAssumption DEF TypeOK
  <2>2. CASE Missed(s)
    BY <1>1, <2>1, <2>2 DEF Missed, setupVars, TypeOK
  <2>3. CASE OnDisconnect(s)
    BY <1>1, <2>1, <2>3 DEF OnDisconnect, setupVars, TypeOK
  <2>4. CASE ReconnectFails(s)
    <3>1. CASE depth[s] < RecursionLimit
      <4>1. /\ chain' = [chain EXCEPT ![s] = "retrying"]
            /\ depth' = [depth EXCEPT ![s] = depth[s] + 1]
        BY <1>1, <2>4, <3>1 DEF ReconnectFails, TypeOK
      <4>2. depth[s] + 1 \in 0..RecursionLimit
        BY <2>1, <3>1
      <4> QED
        BY <2>4, <4>1, <4>2 DEF ReconnectFails, setupVars
    <3>2. CASE ~(depth[s] < RecursionLimit)
      BY <1>1, <2>1, <2>4, <3>2 DEF ReconnectFails, setupVars, TypeOK
    <3> QED
      BY <3>1, <3>2
  <2> QED
    BY <2>2, <2>3, <2>4
<1>3. s = created
  BY <1>1, <1>2 DEF Order, TypeOK
<1>4. TypeOK'
  <2>1. chain' \in [Sessions -> {"none", "missed", "retrying", "connected", "failed", "crashed"}]
    BY <1>1, <1>2 DEF TypeOK
  <2>2. depth' \in [Sessions -> 0..RecursionLimit]
    BY <1>1, <1>2 DEF TypeOK
  <2> QED
    BY <1>1, <1>2, <2>1, <2>2 DEF TypeOK
<1>5. Order'
  <2>1. \A r \in Sessions : r # s => chain'[r] = chain[r]
    BY <1>1, <1>2 DEF TypeOK
  <2>2. chain'[s] \notin {"none", "connected"} /\ link[s] = "lost"
    BY <1>1, <1>2, <1>3 DEF TypeOK, Order
  <2> QED
    BY <1>1, <1>2, <1>3, <2>1, <2>2 DEF Order
<1>6. Registered' /\ Stored'
  BY <1>1, <1>2 DEF Registered, Stored
<1> QED
  BY <1>4, <1>5, <1>6 DEF IInv

\* The receive loop of the last session ends with an exception.
LEMMA CrashInv ==
    ASSUME IInv, NEW s \in Sessions, ReaderCrashes(s)
    PROVE  IInv'
<1> USE SessionNumbers
<1>1. TypeOK /\ Order /\ Registered /\ Stored /\ Alive
  BY DEF IInv, ReaderCrashes
<1>2. /\ link[s] # "none" /\ chain[s] = "none" /\ chain' = [chain EXCEPT ![s] = "crashed"]
      /\ UNCHANGED <<flavour, main, created, link, depth, setup, items, request, app, stale,
                     owner, stop>>
  BY DEF ReaderCrashes, setupVars
<1>3. s = created
  BY <1>1, <1>2, IsLast
<1>4. TypeOK'
  BY <1>1, <1>2 DEF TypeOK
<1>5. Order'
  <2>1. \A r \in Sessions : chain'[r] = IF r = s THEN "crashed" ELSE chain[r]
    BY <1>1, <1>2 DEF TypeOK
  <2> QED
    BY <1>1, <1>2, <1>3, <2>1 DEF Order, TypeOK
<1>6. Registered' /\ Stored'
  BY <1>1, <1>2 DEF Registered, Stored
<1> QED
  BY <1>4, <1>5, <1>6 DEF IInv

\* The router answers, loses a session, or forgets one that is lost.
LEMMA RouterInv ==
    ASSUME IInv, NEW s \in Sessions, RouterRegister(s) \/ Lose(s) \/ RouterDetach(s)
    PROVE  IInv'
<1> USE SessionNumbers
<1> DEFINE T == IInv'
<1> SUFFICES T
  OBVIOUS
<1>a. TypeOK /\ Order /\ Registered /\ Stored
  BY DEF IInv
<1>1. CASE RouterRegister(s)
  <2> DEFINE p == items[s] + 1
             granted == p > Procedures \/ owner[p] = NoSession
  <2>1. /\ link[s] = "up" /\ request[s] = "sent"
        /\ request' = [request EXCEPT ![s] = IF granted THEN "ok" ELSE "error"]
        /\ owner' = IF granted THEN [q \in 1..Procedures |-> IF q = p THEN s ELSE owner[q]]
                               ELSE owner
        /\ UNCHANGED <<flavour, main, created, link, chain, depth, setup, items, app, stale, stop>>
    BY <1>1 DEF RouterRegister, chainVars
  <2>2. s = created /\ p \in Nat
    <3>1. items[s] \in Nat /\ created \in Nat
      BY <1>a DEF TypeOK
    <3>2. ~(s < created)
      BY <1>a, <2>1 DEF Order
    <3>3. ~(s > created)
      BY <1>a, <2>1 DEF Order
    <3> QED
      BY <3>1, <3>2, <3>3
  <2>3. ASSUME NEW q \in 1..Procedures
        PROVE  /\ owner'[q] = IF granted /\ q = p THEN s ELSE owner[q]
               /\ owner'[q] \in 0..Other
    <3>1. s \in 0..Other /\ owner[q] \in 0..Other
      BY <1>a DEF TypeOK, Sessions, Other
    <3>2. CASE granted
      BY <2>1, <3>1, <3>2
    <3>3. CASE ~granted
      BY <2>1, <3>1, <3>3
    <3> QED
      BY <3>2, <3>3
  <2> HIDE DEF granted
  <2>4. TypeOK'
    <3>1. owner' \in [1..Procedures -> 0..Other]
      BY <1>a, <2>1, <2>3 DEF TypeOK
    <3> QED
      BY <1>a, <2>1, <3>1 DEF TypeOK
  <2>5. Order'
    BY <1>a, <2>1, <2>2 DEF TypeOK, Order
  <2>6. Registered'
    <3>1. \A r \in Sessions : r # s => link[r] # "up"
      BY <1>a, <2>2, UpIsLast
    <3>2. ASSUME NEW r \in Sessions, link'[r] = "up", NEW q \in 1..Procedures,
                 q <= items'[r] \/ (q = items'[r] + 1 /\ request'[r] = "ok")
          PROVE  owner'[q] = r
      <4>1. r = s /\ items'[r] = items[s]
        BY <2>1, <3>1, <3>2
      <4>2. CASE q <= items[s]
        <5>1. owner[q] = s
          BY <1>a, <2>1, <4>2 DEF Registered
        <5> QED
          BY <2>3, <4>1, <5>1
      <4>3. CASE q = p /\ request'[s] = "ok"
        <5>1. granted
          BY <1>a, <2>1, <4>3 DEF TypeOK
        <5> QED
          BY <2>3, <4>1, <4>3, <5>1
      <4> QED
        BY <3>2, <4>1, <4>2, <4>3
    <3>3. ASSUME NEW r \in Sessions
          PROVE  request'[r] # "none" => request[r] # "none"
      BY <1>a, <2>1 DEF TypeOK
    <3> QED
      BY <1>a, <2>1, <3>2, <3>3 DEF Registered
  <2>7. Stored'
    BY <1>a, <2>1 DEF Stored, Alive, MainRuns, CallbackRuns
  <2> QED
    BY <2>4, <2>5, <2>6, <2>7 DEF IInv
<1>2. CASE Lose(s)
  <2>1. /\ link[s] = "up" /\ link' = [link EXCEPT ![s] = "lost"]
        /\ UNCHANGED <<flavour, main, created, chain, depth, setup, items, request, app, stale,
                       owner, stop>>
    BY <1>2 DEF Lose, chainVars, setupVars
  <2>2. s = created
    BY <1>a, <2>1, UpIsLast
  <2>3. \A r \in Sessions : link'[r] = IF r = s THEN "lost" ELSE link[r]
    BY <1>a, <2>1 DEF TypeOK
  <2>4. TypeOK'
    BY <1>a, <2>1 DEF TypeOK
  <2>6. Order'
    BY <1>a, <2>1, <2>2, <2>3 DEF Order
  <2>5. Registered' /\ Stored'
    BY <1>a, <2>1, <2>3 DEF Registered, Stored, Alive, MainRuns, CallbackRuns
  <2> QED
    BY <2>4, <2>5, <2>6 DEF IInv
<1>3. CASE RouterDetach(s)
  <2>1. /\ link[s] = "lost"
        /\ owner' = [p \in 1..Procedures |-> IF owner[p] = s THEN NoSession ELSE owner[p]]
        /\ UNCHANGED <<flavour, main, created, link, chain, depth, setup, items, request, app,
                       stale, stop>>
    BY <1>3 DEF RouterDetach, chainVars, setupVars
  <2>2. TypeOK'
    <3>1. owner' \in [1..Procedures -> 0..Other]
      BY <1>a, <2>1 DEF TypeOK, NoSession, Other
    <3> QED
      BY <1>a, <2>1, <3>1 DEF TypeOK
  <2>3. Order' /\ Stored'
    BY <1>a, <2>1 DEF Order, Stored, Alive, MainRuns, CallbackRuns
  <2>4. Registered'
    BY <1>a, <2>1 DEF Registered
  <2> QED
    BY <2>2, <2>3, <2>4 DEF IInv
<1> HIDE DEF T
<1> QED
  BY <1>1, <1>2, <1>3

\* Main fails, a signal arrives, or main ends for one.
LEMMA MainInv ==
    ASSUME IInv, MainConnectFails \/ Signal \/ MainStops \/ Interrupt
    PROVE  IInv'
<1> USE SessionNumbers
<1>1. TypeOK /\ Order /\ Registered /\ Stored
  BY DEF IInv
<1>2. /\ main' \in {main, "failed", "stopped"} /\ stop' \in BOOLEAN
      /\ \/ UNCHANGED setup
         \/ main' = "failed" /\ setup[1] # "none" /\ setup' = [setup EXCEPT ![1] = "failed"]
      /\ UNCHANGED <<flavour, created, link, chain, depth, items, request, app, stale, owner>>
  <2>1. CASE MainConnectFails \/ Signal \/ MainStops
    BY <1>1, <2>1 DEF MainConnectFails, Signal, MainStops, chainVars, setupVars, TypeOK
  <2>2. CASE Interrupt
    <3>1. CASE setup[1] = "none"
      BY <1>1, <2>2, <3>1 DEF Interrupt, chainVars, TypeOK
    <3>2. CASE setup[1] # "none"
      BY <1>1, <2>2, <3>2 DEF Interrupt, chainVars, TypeOK
    <3> QED
      BY <3>1, <3>2
  <2> QED
    BY <2>1, <2>2
<1>3. TypeOK'
  <2>1. setup' \in [Sessions -> {"none", "new", "attached", "running", "done", "failed"}]
    BY <1>1, <1>2 DEF TypeOK
  <2> QED
    BY <1>1, <1>2, <2>1 DEF TypeOK
<1>4. ASSUME NEW s \in Sessions
      PROVE  /\ setup'[s] = setup[s] \/ (s = 1 /\ setup[s] # "none" /\ setup'[s] = "failed")
  BY <1>1, <1>2 DEF TypeOK
<1>5. Order'
  <2>1. \A s \in Sessions : s > created => setup'[s] = "none"
    BY <1>1, <1>4 DEF Order
  <2> QED
    BY <1>1, <1>2, <2>1 DEF Order
<1>6. Registered'
  BY <1>1, <1>2, <1>4 DEF Registered
<1>7. ~MainRuns => ~MainRuns'
  BY <1>2 DEF MainRuns
<1>8. Stored'
  <2>1. ASSUME NEW s \in Sessions, s = created, flavour = "sync", link[s] = "up"
        PROVE  app = s \/ setup'[s] \in {"new", "attached"} \/ stale \/ ~Alive'
    <3>1. CASE setup'[s] = setup[s] /\ Alive
      BY <1>1, <2>1, <3>1 DEF Stored
    <3>2. CASE ~Alive
      <4>1. ~MainRuns' /\ ~CallbackRuns
        BY <1>7, <2>1, <3>2 DEF Alive
      <4>2. ~CallbackRuns'
        <5> SUFFICES ASSUME NEW r \in Sessions,
                            \/ chain'[r] = "retrying"
                            \/ chain'[r] = "connected" /\ setup'[r + 1] \in {"new", "attached", "running"}
                     PROVE  FALSE
          BY DEF CallbackRuns
        <5>1. chain[r] = "connected" /\ setup'[r + 1] \in {"new", "attached", "running"}
          BY <1>2, <4>1 DEF CallbackRuns
        <5>2. r < created
          <6>1. r \in Nat /\ created \in Nat
            BY <1>1 DEF TypeOK
          <6>2. r # created /\ ~(r > created)
            BY <1>1, <5>1 DEF Order
          <6> QED
            BY <6>1, <6>2
        <5>3. r + 1 \in Sessions
          BY <1>1, <5>2 DEF TypeOK, Sessions
        <5>4. setup'[r + 1] = setup[r + 1]
          BY <1>4, <5>1, <5>3
        <5> QED
          BY <4>1, <5>1, <5>4 DEF CallbackRuns
      <4> QED
        BY <4>1, <4>2 DEF Alive
    <3>3. CASE s = 1 /\ setup'[s] = "failed" /\ setup'[s] # setup[s]
      <4>1. main' = "failed" /\ created = 1
        BY <1>1, <1>2, <2>1, <3>3
      <4>2. \A r \in Sessions : chain'[r] \notin {"retrying", "connected"}
        BY <1>1, <1>2, <2>1, <4>1 DEF Order, TypeOK
      <4> QED
        BY <4>1, <4>2 DEF Alive, MainRuns, CallbackRuns
    <3> QED
      BY <1>4, <3>1, <3>2, <3>3
  <2>2. ASSUME NEW s \in Sessions, setup[s] \notin {"new", "attached"}
        PROVE  setup'[s] \notin {"new", "attached"}
    BY <1>4, <2>2
  <2> QED
    BY <1>1, <1>2, <2>1, <2>2 DEF Stored
<1> QED
  BY <1>3, <1>5, <1>6, <1>8 DEF IInv

LEMMA NextInv == IInv /\ [Next]_vars => IInv'
<1> SUFFICES ASSUME IInv, Next \/ UNCHANGED vars
             PROVE  IInv'
  OBVIOUS
<1>1. CASE UNCHANGED vars
  BY <1>1 DEF IInv, TypeOK, Order, Registered, Stored, Alive, MainRuns, CallbackRuns, vars,
              chainVars, setupVars
<1>2. CASE MainConnects \/ \E s \in Sessions : Reconnect(s)
  BY <1>2, MadeInv
<1>3. CASE MainConnectFails \/ Signal \/ MainStops \/ Interrupt
  BY <1>3, MainInv
<1>4. ASSUME NEW s \in Sessions,
             \/ RunnerStep(s) \/ ReaderCrashes(s)
             \/ RouterRegister(s) \/ Lose(s) \/ RouterDetach(s)
      PROVE  IInv'
  <2>1. CASE Reconnect(s)
    BY <2>1, <1>2
  <2>2. CASE Attach(s) \/ Adopt(s) \/ SetupSend(s) \/ SetupReply(s) \/ SetupReturns(s)
    BY <2>2, SetupInv
  <2>3. CASE Missed(s) \/ OnDisconnect(s) \/ ReconnectFails(s)
    BY <2>3, ChainInv
  <2>4. CASE RouterRegister(s) \/ Lose(s) \/ RouterDetach(s)
    BY <2>4, RouterInv
  <2> QED
    BY <1>4, <2>1, <2>2, <2>3, <2>4, CrashInv DEF RunnerStep
<1> QED
  BY <1>1, <1>2, <1>3, <1>4 DEF Next, MainStep

THEOREM RunnerInv == Spec => []IInv
BY InitInv, NextInv, PTL DEF Spec

-----------------------------------------------------------------------------
(* The theorems                                                            *)

\* Every variable keeps its type, and a chain of wait_and_connect calls grows no
\* deeper than the stack.
THEOREM RunnerTypeOK == Spec => []TypeOK
<1>1. IInv => TypeOK
  BY DEF IInv
<1> QED
  BY <1>1, RunnerInv, PTL

\* What is up, waits for its callback or reconnects is the last session made.
LEMMA OneOfThree ==
    ASSUME NEW n, NEW A, NEW B, NEW C, A \subseteq {n}, B \subseteq {n}, C \subseteq {n},
           A \cap B = {}, A \cap C = {}, B \cap C = {}
    PROVE  Cardinality(A) + Cardinality(B) + Cardinality(C) <= 1
<1>1. \A S : S \subseteq {n} => S = {} \/ S = {n}
  OBVIOUS
<1>2. Cardinality({}) = 0 /\ Cardinality({n}) = 1
  BY FS_EmptySet, FS_Singleton
<1>3. (B = {} /\ C = {}) \/ (A = {} /\ C = {}) \/ (A = {} /\ B = {})
  BY <1>1
<1>4. A \in {{}, {n}} /\ B \in {{}, {n}} /\ C \in {{}, {n}}
  BY <1>1
<1> QED
  BY <1>2, <1>3, <1>4

\* However often sessions are lost and connection attempts fail, one session at
\* most is up or is being replaced: a callback runs once for each loss, and each
\* chain connects once (async_.py, sync.py: on_disconnect, wait_and_connect).
THEOREM RunnerOneSession == Spec => []OneSession
<1>1. IInv => OneSession
  <2> SUFFICES ASSUME IInv
               PROVE  OneSession
    OBVIOUS
  <2> DEFINE A == {s \in Sessions : link[s] = "up"}
             B == {s \in Sessions : link[s] = "lost" /\ chain[s] = "none"}
             C == {s \in Sessions : chain[s] = "retrying"}
  <2>1. A \subseteq {created} /\ B \subseteq {created} /\ C \subseteq {created}
    <3> SUFFICES ASSUME NEW s \in Sessions, s # created
                 PROVE  link[s] # "up" /\ ~(link[s] = "lost" /\ chain[s] = "none")
                           /\ chain[s] # "retrying"
      OBVIOUS
    <3>1. created \in Nat /\ s \in Nat
      BY SessionNumbers DEF IInv, TypeOK
    <3>2. s < created \/ s > created
      BY <3>1
    <3> QED
      BY <3>2 DEF IInv, Order
  <2>2. A \cap B = {} /\ A \cap C = {} /\ B \cap C = {}
    BY <2>1 DEF IInv, Order
  <2> HIDE DEF A, B, C
  <2>3. Cardinality(A) + Cardinality(B) + Cardinality(C) <= 1
    BY <2>1, <2>2, OneOfThree
  <2> QED
    BY <2>3 DEF A, B, C, OneSession
<1> QED
  BY <1>1, RunnerInv, PTL

\* The app has the session that is up, except between the two threads that make
\* and store it, and when the one that stored it was late (App.set_session).
THEOREM RunnerAppHasSession == Spec => []AppHasSession
<1>1. IInv => AppHasSession
  <2> SUFFICES ASSUME IInv, NEW s \in Sessions, link[s] = "up"
               PROVE  \/ app = s
                      \/ flavour = "sync" /\ (setup[s] \in {"new", "attached"} \/ stale)
                      \/ ~Alive
    BY DEF AppHasSession
  <2>1. s \in Nat /\ created \in Nat /\ flavour \in {"async", "sync"}
    BY SessionNumbers, RunnerAssumption DEF IInv, TypeOK
  <2>2. s = created
    BY <2>1 DEF IInv, Order
  <2> QED
    BY <2>1, <2>2 DEF IInv, Stored
<1> QED
  BY <1>1, RunnerInv, PTL

\* When _setup has returned and its session is up, that session serves all that
\* the app declares: nothing was refused without _setup failing, and no earlier
\* session of the runner holds a procedure still (async_.py, sync.py: _setup).
THEOREM RunnerServesAll == Spec => []ServesAll
<1>1. IInv => ServesAll
  <2> SUFFICES ASSUME IInv, NEW s \in Sessions, setup[s] = "done", link[s] = "up",
                      NEW p \in 1..Procedures
               PROVE  owner[p] = s
    BY DEF ServesAll
  <2>1. p <= items[s]
    BY SessionNumbers DEF IInv, Registered
  <2> QED
    BY <2>1 DEF IInv, Registered
<1> QED
  BY <1>1, RunnerInv, PTL
=============================================================================
