-------------------------------- MODULE Runner --------------------------------
(***************************************************************************)
(* The runner of an App (xconn/_client/async_.py, sync.py, utils.py): it   *)
(* connects, registers what the app declares, and connects again when a    *)
(* session is lost.                                                        *)
(*                                                                         *)
(* main is the coroutine that utils.run awaits, or the main thread.  Each  *)
(* lost session runs its own disconnect callback, a chain of recursive     *)
(* wait_and_connect calls; the chain that connects goes on to set the new  *)
(* session up.  A registration that waits for an answer on a lost session  *)
(* waits for ever: neither kind of session resolves its requests when it   *)
(* is disconnected.  The loop that receives for a session runs the         *)
(* callback only when it ends in order: an exception that a message raises *)
(* in it (how, Session and AsyncSession show) leaves a session that takes  *)
(* no more messages and that nothing replaces.                             *)
(*                                                                         *)
(* With threads, a session is read as soon as it is made; its callback is  *)
(* registered and the app is told of it later, by another thread.  And     *)
(* when the main thread has returned, the interpreter takes no new work    *)
(* for thread pools: a callback that is running is waited for, but none    *)
(* is started any more.                                                    *)
(*                                                                         *)
(* Sessions are numbered in the order in which they are made.  What is     *)
(* registered, one after the other, are items 1..Procedures; the first     *)
(* session registers the schema procedure after them.  Topics are left     *)
(* out: a subscription is never refused.                                   *)
(***************************************************************************)
EXTENDS Integers, FiniteSets

CONSTANTS
    Flavours,       \* the runners to look at: "async", "sync"
    MaxSessions,    \* bound on the sessions that are made
    Procedures,     \* how many procedures the app declares
    RecursionLimit, \* how many wait_and_connect calls fit on the stack
    RouterDetaches  \* does the router forget the sessions it lost?

ASSUME RunnerAssumption ==
    /\ Flavours \subseteq {"async", "sync"}
    /\ MaxSessions \in Nat \ {0}
    /\ Procedures \in Nat
    /\ RecursionLimit \in Nat \ {0}
    /\ RouterDetaches \in BOOLEAN

VARIABLES
    flavour, \* the runner in use
    main,    \* "connect", "setup", "serving", or how main ended
    created, \* how many sessions were made
    link,    \* each session's connection: "none", "up" or "lost"
    chain,   \* its disconnect callback: "none", "missed", "retrying", "connected", "failed";
             \* or "crashed", when an exception ended its receive loop
    depth,   \* nested wait_and_connect calls of that callback
    setup,   \* each session: "none"; made, but "new" or "attached" only; its _setup
             \* "running", "done" or "failed"
    items,   \* how many items it has registered
    request, \* where its current REGISTER is: "none", "sent", "ok" or "error"
    app,     \* App._session
    stale,   \* had that session been lost when it was stored?
    owner,   \* router: who holds each procedure
    stop     \* utils.run: stop_event

setupVars == <<setup, items, request>>
chainVars == <<chain, depth>>
vars == <<flavour, main, created, link, chainVars, setupVars, app, stale, owner, stop>>

Sessions == 1..MaxSessions
NoSession == 0
Other == MaxSessions + 1 \* another client of the router

Init ==
    /\ flavour \in Flavours
    /\ stale = FALSE
    /\ main = "connect"
    /\ created = 0
    /\ link = [s \in Sessions |-> "none"]
    /\ chain = [s \in Sessions |-> "none"]
    /\ depth = [s \in Sessions |-> 0]
    /\ setup = [s \in Sessions |-> "none"]
    /\ items = [s \in Sessions |-> 0]
    /\ request = [s \in Sessions |-> "none"]
    /\ app = NoSession
    /\ owner \in [1..Procedures -> {NoSession, Other}]
    /\ stop = FALSE

\* asyncio.run cancels every other task when main ends; the interpreter waits for
\* the callbacks that run in a pool.
MainRuns == main \in {"connect", "setup", "serving"}
CallbackRuns ==
    \E s \in Sessions :
        \/ chain[s] = "retrying"
        \/ chain[s] = "connected" /\ setup[s + 1] \in {"new", "attached", "running"}
Alive == MainRuns \/ (flavour = "sync" /\ CallbackRuns)

-----------------------------------------------------------------------------
(* AsyncClient.connect and _setup                                          *)

\* Faulty: the app gets its session when the setup ends.
SetSessionLate(s) == UNCHANGED <<app, stale>>

\* App.set_session
SetSession(s) == app' = s /\ stale' = (link[s] = "lost")

\* The coroutine connect() returns a session that has its disconnect callback
\* already, and _setup stores it: nothing is awaited in between.
Connected ==
    LET s == created + 1
    IN /\ s <= MaxSessions
       /\ created' = s
       /\ link' = [link EXCEPT ![s] = "up"]
       /\ setup' = [setup EXCEPT ![s] = IF flavour = "async" THEN "running" ELSE "new"]
       /\ IF flavour = "async" THEN SetSession(s) ELSE UNCHANGED <<app, stale>>

\* client.connect: session._on_disconnect, when the session is being read already.
Attach(s) ==
    /\ Alive
    /\ setup[s] = "new"
    /\ setup' = [setup EXCEPT ![s] = "attached"]
    /\ UNCHANGED <<flavour, main, created, link, chainVars, items, request, app, stale,
                   owner, stop>>

\* sync._setup begins.
Adopt(s) ==
    /\ Alive
    /\ setup[s] = "attached"
    /\ setup' = [setup EXCEPT ![s] = "running"]
    /\ SetSession(s)
    /\ UNCHANGED <<flavour, main, created, link, chainVars, items, request, owner, stop>>

\* The schema procedure comes last, and on the first session only.
Items(s) == IF s = 1 THEN Procedures + 1 ELSE Procedures

\* Faulty: _setup is part of what wait_and_connect tries.
SetupFailsRetried(s) ==
    /\ setup' = [setup EXCEPT ![s] = "failed"]
    /\ IF s = 1 THEN main' = "failed" /\ UNCHANGED chain
                ELSE chain' = [chain EXCEPT ![s - 1] = "retrying"] /\ UNCHANGED main

\* An exception in _setup: main's ends the process, a chain's is never looked at.
SetupFails(s) ==
    /\ setup' = [setup EXCEPT ![s] = "failed"]
    /\ main' = IF s = 1 THEN "failed" ELSE main
    /\ UNCHANGED chain

\* await session.register(): on a lost connection the write raises, or it goes
\* unnoticed and nothing will answer.
SetupSend(s) ==
    /\ Alive
    /\ setup[s] = "running"
    /\ request[s] = "none"
    /\ items[s] < Items(s)
    /\ \/ request' = [request EXCEPT ![s] = "sent"] /\ UNCHANGED <<setup, main, chain>>
       \/ link[s] = "lost" /\ SetupFails(s) /\ UNCHANGED request
    /\ UNCHANGED <<flavour, created, link, depth, items, app, stale, owner, stop>>

\* Faulty: a refused registration is skipped.
SetupReplySkips(s) ==
    /\ Alive
    /\ link[s] = "up"
    /\ chain[s] # "crashed"
    /\ request[s] \in {"ok", "error"}
    /\ request' = [request EXCEPT ![s] = "none"]
    /\ items' = [items EXCEPT ![s] = @ + 1]
    /\ UNCHANGED <<flavour, main, created, link, chainVars, setup, app, stale, owner, stop>>

\* The session receives REGISTERED, or an ERROR that register() raises.
SetupReply(s) ==
    /\ Alive
    /\ link[s] = "up"
    /\ chain[s] # "crashed"
    /\ request[s] \in {"ok", "error"}
    /\ request' = [request EXCEPT ![s] = "none"]
    /\ IF request[s] = "ok"
       THEN items' = [items EXCEPT ![s] = @ + 1] /\ UNCHANGED <<setup, main, chain>>
       ELSE SetupFails(s) /\ UNCHANGED items
    /\ UNCHANGED <<flavour, created, link, depth, app, stale, owner, stop>>

\* _setup returns; the coroutine goes on to wait for a signal, the main thread ends.
SetupReturns(s) ==
    /\ Alive
    /\ setup[s] = "running"
    /\ request[s] = "none"
    /\ items[s] = Items(s)
    /\ setup' = [setup EXCEPT ![s] = "done"]
    /\ main' = IF s > 1 THEN main
               ELSE IF flavour = "async" THEN "serving" ELSE "returned"
    /\ UNCHANGED <<flavour, created, link, chainVars, items, request, app, stale, owner, stop>>

-----------------------------------------------------------------------------
(* main                                                                    *)

MainConnects ==
    /\ main = "connect"
    /\ Connected
    /\ main' = "setup"
    /\ UNCHANGED <<flavour, chainVars, items, request, owner, stop>>

MainConnectFails ==
    /\ main = "connect"
    /\ main' = "failed"
    /\ UNCHANGED <<flavour, created, link, chainVars, setupVars, app, stale, owner, stop>>

\* handle_signal
Signal ==
    /\ flavour = "async"
    /\ Alive
    /\ ~stop
    /\ stop' = TRUE
    /\ UNCHANGED <<flavour, main, created, link, chainVars, setupVars, app, stale, owner>>

\* utils.run: stop_event.wait() comes after main has returned.
MainStops ==
    /\ main = "serving"
    /\ stop
    /\ main' = "stopped"
    /\ UNCHANGED <<flavour, created, link, chainVars, setupVars, app, stale, owner, stop>>

\* The threads have no handlers for signals: KeyboardInterrupt in the main thread.
Interrupt ==
    /\ flavour = "sync"
    /\ MainRuns
    /\ main' = "failed"
    /\ setup' = [setup EXCEPT ![1] = IF @ = "none" THEN @ ELSE "failed"]
    /\ UNCHANGED <<flavour, created, link, chainVars, items, request, app, stale, owner, stop>>

-----------------------------------------------------------------------------
(* on_disconnect and wait_and_connect                                      *)

\* The receive loop of s ends and there is no callback yet, or none can be started.
Missed(s) ==
    /\ flavour = "sync"
    /\ Alive
    /\ link[s] = "lost"
    /\ chain[s] = "none"
    /\ setup[s] = "new" \/ ~MainRuns
    /\ chain' = [chain EXCEPT ![s] = "missed"]
    /\ UNCHANGED <<flavour, main, created, link, depth, setupVars, app, stale, owner, stop>>

\* The receive loop of s has ended and runs the callback.
OnDisconnect(s) ==
    /\ MainRuns
    /\ link[s] = "lost"
    /\ chain[s] = "none"
    /\ setup[s] # "new"
    /\ chain' = [chain EXCEPT ![s] = "retrying"]
    /\ depth' = [depth EXCEPT ![s] = 1]
    /\ UNCHANGED <<flavour, main, created, link, setupVars, app, stale, owner, stop>>

\* A message raises in the receive loop, which no try covers there: the loop ends, and
\* neither the connection nor the callbacks are touched (async_session.py:130,
\* session.py:86).
ReaderCrashes(s) ==
    /\ Alive
    /\ link[s] # "none"
    /\ chain[s] = "none"
    /\ chain' = [chain EXCEPT ![s] = "crashed"]
    /\ UNCHANGED <<flavour, main, created, link, depth, setupVars, app, stale, owner, stop>>

\* After the sleep, client.connect succeeds.
Reconnect(s) ==
    /\ Alive
    /\ chain[s] = "retrying"
    /\ Connected
    /\ chain' = [chain EXCEPT ![s] = "connected"]
    /\ UNCHANGED <<flavour, main, depth, items, request, owner, stop>>

\* Faulty: only one attempt is made.
ReconnectFailsOnce(s) ==
    /\ Alive
    /\ chain[s] = "retrying"
    /\ chain' = [chain EXCEPT ![s] = "failed"]
    /\ UNCHANGED <<flavour, main, created, link, depth, setupVars, app, stale, owner, stop>>

\* client.connect raises: wait_and_connect calls itself, until the stack is full.
ReconnectFails(s) ==
    /\ Alive
    /\ chain[s] = "retrying"
    /\ IF depth[s] < RecursionLimit
       THEN depth' = [depth EXCEPT ![s] = @ + 1] /\ UNCHANGED chain
       ELSE chain' = [chain EXCEPT ![s] = "failed"] /\ UNCHANGED depth
    /\ UNCHANGED <<flavour, main, created, link, setupVars, app, stale, owner, stop>>

-----------------------------------------------------------------------------
(* The router and the network: external.                                   *)

\* A procedure has one holder; the schema procedure may be shared.
RouterRegister(s) ==
    LET p == items[s] + 1
    IN /\ Alive
       /\ link[s] = "up"
       /\ request[s] = "sent"
       /\ IF p > Procedures \/ owner[p] = NoSession
          THEN /\ request' = [request EXCEPT ![s] = "ok"]
               /\ owner' = [q \in 1..Procedures |-> IF q = p THEN s ELSE owner[q]]
          ELSE /\ request' = [request EXCEPT ![s] = "error"]
               /\ UNCHANGED owner
       /\ UNCHANGED <<flavour, main, created, link, chainVars, setup, items, app, stale, stop>>

\* The last session, by the bound on their number, is not lost.
Lose(s) ==
    /\ Alive
    /\ s < MaxSessions
    /\ link[s] = "up"
    /\ link' = [link EXCEPT ![s] = "lost"]
    /\ UNCHANGED <<flavour, main, created, chainVars, setupVars, app, stale, owner, stop>>

\* xconn's own router keeps the registrations of a lost session (Realm.tla).
RouterDetach(s) ==
    /\ RouterDetaches
    /\ Alive
    /\ link[s] = "lost"
    /\ \E p \in 1..Procedures : owner[p] = s
    /\ owner' = [p \in 1..Procedures |-> IF owner[p] = s THEN NoSession ELSE owner[p]]
    /\ UNCHANGED <<flavour, main, created, link, chainVars, setupVars, app, stale, stop>>

-----------------------------------------------------------------------------

RunnerStep(s) ==
    \/ Attach(s) \/ Adopt(s) \/ SetupSend(s) \/ SetupReply(s) \/ SetupReturns(s)
    \/ Missed(s) \/ OnDisconnect(s) \/ Reconnect(s) \/ ReconnectFails(s)

MainStep == MainConnects \/ MainConnectFails \/ MainStops

Next ==
    \/ MainStep
    \/ Signal
    \/ Interrupt
    \/ \E s \in Sessions :
          RunnerStep(s) \/ ReaderCrashes(s) \/ RouterRegister(s) \/ Lose(s) \/ RouterDetach(s)

Spec == Init /\ [][Next]_vars

\* The event loop runs what is ready, a sleep and a connection attempt end, and
\* the router answers while the connection lasts.
FairSpec ==
    /\ Spec
    /\ WF_vars(MainStep)
    /\ \A s \in Sessions : WF_vars(RunnerStep(s)) /\ WF_vars(RouterRegister(s))

-----------------------------------------------------------------------------
(* Properties                                                              *)

\* Every variable keeps its type; chains grow no deeper than the stack.
TypeOK ==
    /\ flavour \in Flavours
    /\ main \in {"connect", "setup", "serving", "failed", "stopped", "returned"}
    /\ created \in 0..MaxSessions
    /\ link \in [Sessions -> {"none", "up", "lost"}]
    /\ chain \in [Sessions -> {"none", "missed", "retrying", "connected", "failed", "crashed"}]
    /\ depth \in [Sessions -> 0..RecursionLimit]
    /\ setup \in [Sessions -> {"none", "new", "attached", "running", "done", "failed"}]
    /\ items \in [Sessions -> 0..(Procedures + 1)]
    /\ request \in [Sessions -> {"none", "sent", "ok", "error"}]
    /\ app \in 0..created
    /\ stale \in BOOLEAN
    /\ owner \in [1..Procedures -> 0..Other]
    /\ stop \in BOOLEAN

\* One session at a time: while one is up nobody reconnects, and no two chains
\* do (async_.py: a callback runs once per loss, and each chain connects once).
OneSession ==
    Cardinality({s \in Sessions : link[s] = "up"})
        + Cardinality({s \in Sessions : link[s] = "lost" /\ chain[s] = "none"})
        + Cardinality({s \in Sessions : chain[s] = "retrying"}) <= 1

\* A session that is up is the one the app and its handlers use (App.set_session).
\* With threads, from the moment its _setup begins; and there a session that was
\* lost before its own _setup began may be stored over it (sync.py:37).
AppHasSession ==
    \A s \in Sessions :
        link[s] = "up" =>
            \/ app = s
            \/ flavour = "sync" /\ (setup[s] \in {"new", "attached"} \/ stale)
            \/ ~Alive

\* When _setup has returned and its session is up, the app's procedures are all
\* served by that session: none was refused, and no earlier session of this runner,
\* which the router may not have forgotten yet, still holds one.
ServesAll ==
    \A s \in Sessions :
        setup[s] = "done" /\ link[s] = "up" => \A p \in 1..Procedures : owner[p] = s

\* A session that is lost while its receive loop runs is replaced, unless as many
\* attempts as fit on the stack failed one after the other, the process ended, or, with
\* threads, the session was lost before its callback was registered or after the main
\* thread had returned.  One whose loop an exception has ended is not: it is not even
\* noticed, whether its connection stays or goes.
Recovers ==
    \A s \in Sessions :
        link[s] = "lost" ~>
            \/ created > s
            \/ chain[s] = "failed" /\ depth[s] = RecursionLimit
            \/ chain[s] \in {"missed", "crashed"}
            \/ ~Alive

-----------------------------------------------------------------------------
(* What the runner says, and does not do.                                  *)

\* "Received signal ..., stopping..." (utils.py:12)
SignalStops == stop ~> ~Alive
=============================================================================
