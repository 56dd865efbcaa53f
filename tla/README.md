# TLA+ models of xconn-python

xconn-python is a WAMP client library in two flavours (threads and asyncio), a
small WAMP router, and a runner that serves an `App` from the command line. This
directory holds TLA+ modules of its concurrent parts, configurations that let TLC
check them on small instances, and theorems that TLAPS proves for every instance.

* `tlasany M.tla` parses a module,
* `tlc -config x.cfg M` checks one (the table of runs below names the module),
* `tlapm M.tla` checks the proofs of a `*Proofs` module.

`PROJECT.json` is the machine-readable side of this file: which definition stands
for which lines of the source, the runs, the hazards, the theorems, and for every
checked property a mutation of the model that breaks it. A definition whose comment
begins with `Faulty:` is such a mutation; no specification uses it.

## Inventory

| Component | State | Operations | Hard behaviour | Correct when | Module |
|---|---|---|---|---|---|
| Synchronous session, `session.py` | six request dictionaries, two handler dictionaries, the goodbye future, a worker pool, callbacks | `call`, `register`, `subscribe`, `publish`, `unregister`, `unsubscribe`, `leave`, `_wait`, `_process_incoming_message`, `_handle_invocation`, `_handle_event` | user threads, a receive thread, workers and callback threads share dictionaries without a lock; answers come in any order; the connection goes at any point | an answer reaches the call it answers; the receive thread survives; handlers are there when needed; leaving stops everything | `Session` |
| Asynchronous session, `async_session.py` | the same, plus the reader task | the same as coroutines | suspension between write and await; cancelled callers; `leave()` with its timeout, several at once | the same, and what kills the reader is known | `AsyncSession` |
| Id generator, `helpers.py` | counter, lock | `next` | threads; wrap-around | ids consecutive, distinct within a cycle | `IdGen` |
| Router, `realm.py`, `router.py`, `server.py` | attached clients; the dealer and broker of wampproto | one handler per connection; `receive_message`, `attach_client`, `remove_realm` | handlers interleave at every write; a publication is written by concurrent tasks; clients vanish without GOODBYE | at most one answer per request, to its sender; no stale registration invoked; events in order | `Realm` |
| Joiners and acceptors, `joiner.py`, `acceptor.py` | the handshake | `join`, `accept`, then `attach_client` | no timeouts; failures at either end; the realm goes in between | only a welcomed client becomes a session; every join ends | `Join` |
| Raw socket transport, threads, `transports.py` | socket, write lock, pending pings | `read`, `write`, `ping`, `close` | writers and the PONG-writing reader share a socket; recursion in `read`; late PONGs | frames whole, order kept, lock released while the peer reads | `RawSocket` |
| Raw socket transport, asyncio | writer, pending pings | the same | suspension in `drain`; timed-out pings | the same | `AsyncRawSocket` |
| Runner, `_client/async_.py`, `_client/sync.py`, `utils.py`, `client.py`, `async_client.py`, `App.set_session` | the current session, chains of reconnection attempts, the stop event | connect, set up, reconnect, handle signals | sessions lost during setup or reconnection; a recursive retry loop; signals while main hangs; with threads, a callback that is registered late and a main thread that returns | one session, known to the app, fully registered, replaced when lost while its receive loop runs | `Runner` |
| Endpoints, `_client/helpers.py`, `register_*`, `subscribe_*`, `Component` | the metadata of a function; per message its dependencies | inspect a signature; check a message, resolve dependencies, call, leave contexts, check the result | order of the checks; failures while contexts are open; keywords that meet parameters; functions of one flavour with dependencies of the other | runs only on what its signature declares and pydantic lets pass; a refused message touches nothing; contexts are left | `Endpoint` |
| Command line, `_client/__main__.py`, `cli.py`, `helpers.py` | the arguments, the environment, a file; the configuration | load, mix, check credentials, choose the authenticator, start | three sources, mixed twice; a fallback on any exception | the credential that was given is used | `Launch` |
| WebSocket transports | library object | `read`, `write`, `ping` | | | seen through `FlagFollowsLink` in the sessions |
| Local sessions in `types.py` | queue, condition | `send`, `receive` | re-entrance of the router | | not modelled |
| Parser, file watcher | none over time | | | | not modelled |

How they interact: an API call of a session takes an id from the generator, stores a
future under it and writes through the transport; the session's reader takes
messages off the transport and sets futures, changes handlers or starts handler
tasks. At the other end a connection handler of the server runs the acceptor,
attaches the client to a realm, and passes every message to `Realm.receive_message`,
which writes to the clients that wampproto's dealer and broker name. The runner owns
a session through `connect`, and is told of its end by a disconnect callback; the
functions it registers are endpoints, each wrapped in a handler that the session
calls. The command line decides with which configuration, and so with which
authenticator, the runner joins.

## Modules

**Peer** is the other end of a client session: a router that follows the WAMP
protocol, not only xconn's own, and the connection to it. It answers in any order,
with success or error; pushes an INVOCATION or EVENT for an id it considers open, or
(`LateKinds`) one that the UNREGISTERED or UNSUBSCRIBED overtook; says GOODBYE at any
time; the connection may go at any time. It is external code, modelled from what
the sessions send and expect. Both session modules extend it.

A call is an element of `Ops`, and stands for its request and for the id that request
creates. `rid` is the integer request id, so that an id used twice really makes two
calls share a dictionary entry; the field `op` of an answer remembers which call the
router answered, only to state properties.

**Session**: an API method is split where another thread can come in: take an
id (`Issue`, `IssueClose`), store the future (`Store`), write (`Send`), wake up
(`Return`); `leave()` likewise, with the second read of `self._goodbye_request` as a
step of its own. `publish` with and without acknowledgement are the kinds `publish`
and `notify`. The receive thread tests `is_connected()`, takes a message and
processes it in one step (it alone changes the handlers and removes requests);
`reader = "crashed"` is an exception that leaves the loop of `_wait`. After the loop comes
`executor.shutdown`, then the callbacks, then `_stopped`. With `MainEnds` the main
thread may end while the session lives; the interpreter then lets no executor take new
work. A handler is "refused", which for an INVOCATION goes the way of one without a
handler (`ReaderUnhandled`), and the disconnect callbacks cannot be started, which ends
the thread before `_stopped` ("aborted"). Two facts of the transport
matter and are parameters or steps here: with `FlagFollowsLink = FALSE` (raw socket)
a failing read does not change `is_connected()`, and closing the socket need not
wake a blocked `recv`.

**ClientPromise** is the abstract specification of the session: calls are asked,
answered by the router, and end with that answer or with the failure of the session.
**SessionPromise** gives the refinement mapping (`Asked` is what is with the router or
answered, `Answer` what an answer under way or a future says, `Outcome` where the
caller stands), and its `KeepsPromise` is checked as a property of `Session` and
proved. **MCSession** instantiates both for TLC.

**AsyncSession**: a step is what a coroutine does between two suspensions. `Start`
takes the id, stores the future and writes, since nothing suspends in between; the
drain, which may fail, and the wait for the future are separate; `Cancel` is a caller
that gives up (`asyncio.wait_for`, `task.cancel()`), which cancels the future it awaits
but leaves the dictionary as it is; `leave()` is its write, its wait with the timeout,
the cancellation of the reader and the close, and its caller may give it up too, which
cancels the goodbye future. A disconnect callback may raise (`reader = "failed"`), which
comes out of `gather()` after the loop. The ids are those of wampproto's generator.

**IdGen**: `next()` under its lock, one statement a step.

**Realm**: `Realm`, `Router` and the loop of `Server._websocket_handler`. A handler
takes a message and does what `receive_message` does; the EVENTs of a publication are
the tasks of `gather()`, each a later step. `clients`, `registration` and `subscribers`
are the realm's, the dealer's and the broker's view of who is there; they can disagree,
since nothing detaches a client whose connection breaks. `Malformed` is an exception of
the serializer, the dealer or the broker, which ends the handler like a write that fails
(`Crash`). The dealer and broker are external; one procedure and one topic stand for
all.

**Join**: `join()` and `accept()` over a connection that may drop, up to
`attach_client`, with five kinds of client (welcome at once, authenticating rightly
or wrongly, refused, or rejected with an exception). A join ends as "failed" when the
other end or the network refuses it, and as "abandoned" when its own end gives up: the
authenticator raises (`ChallengeRaises`), or the caller cancels (`Cancel`). These are the
WebSocket joiners and the aiohttp acceptor of `Server`; the raw socket joiners run the
same loop, but the repository has no raw socket server to join.

**RawSocket** and **AsyncRawSocket**: frames and their pieces on the socket. `sendall`
may put a frame on the wire in pieces, so a frame is a header and a payload in
`RawSocket`; the asyncio writer takes a frame whole. `depth` counts the recursive calls
of `read()`. A write goes on only while the peer has room for it (`HasRoom`, with
`Capacity` frames between the two), and waits otherwise, in `RawSocket` with the lock
held; a frame of an unknown type makes `read()` raise (`ReadUnknown`). **Transports**
puts the two side by side: a behaviour is that of either, and what a session may expect
of its transport is stated once for both: `InOrder` says of the delivered messages, and
of the `Pongs` in the stream, that they are the peer's frames of that kind, in order and
without a gap.

**Runner**: `main` is the coroutine of `utils.run`, or the main thread; each lost
session has a `chain`, its disconnect callback with the nested `wait_and_connect`
calls; `setup`, `items` and `request` follow `_setup` through its registrations;
`owner` is the router's view of who serves each procedure, which may be another client
or a lost session. `flavour` chooses the asynchronous or the threaded runner. With
threads, `Attach` (the callback is registered) and `Adopt` (`App.set_session`) are
steps of their own after the session is made and read, and `Missed` is a session that
is lost without a callback, or after the main thread has returned. `ReaderCrashes` is an
exception that ends the receive loop of a session (those that `CrashExplained` and
`ReceiveLoopSurvives` name): its callbacks never run.

**Endpoint**: one function and one message. A signature is a sequence of kinds of
parameters; `Rejected`, `Shape`, `RequestArgs` and so on are what
`_assemble_base_metadata` makes of it, `Refusal` the checks in the order of the
handlers, `Misfit` the TypeErrors of the final call. Fields and dependencies are sets of
positions, ordered as in the signature (`First`, `ByPosition`); a field of the request
model is a negative number, so that it is never taken for a position; and
`EndpointAssumption` says what endpoints, messages and results are. The values of a
message are of the declared types ("exact"), of others that pydantic converts, and that
reach the function as they are ("convertible"), or "unfit"; a result may be one that the
serializer does not take. `ModelClash` is a field with the name of the parameter of
`handle_model_validation`. The actions are the registration, the checks, each dependency
that is resolved or entered, the call, each context that is left, and the failures the
application's code may cause at any of these points. **MCEndpoint** gives the signatures
and messages.

**Launch** extends `Join`: a client is launched from the command line, its settings
are loaded (`Loaded`, `Updated`), its credentials checked (`Acceptable`) and turned
into a way to authenticate, and it then joins next to the others. **MCLaunch** gives
the settings.

## Runs

| Run | Module | Question | States (distinct) |
|---|---|---|---|
| `session_calls` | MCSession | do answers find their calls, and messages their handlers, with three threads on one session; are handlers that wait for a busy pool dropped only with the connection? | 1.9 M |
| `session_live` | MCSession | does the session keep the promise, answer calls, stop on `leave()`, run its callback; what kills the receive thread? | 161 k |
| `idgen` | IdGen | are ids consecutive and distinct, past the wrap? | 131 |
| `async_session` | MCAsyncSession | the same for the asyncio session, with cancelled callers and `leave()` timing out or given up | 347 k |
| `async_cancel_kills` | MCAsyncSession | is a call on an open connection always answered? **no** | |
| `realm` | MCRealm | is every request answered at most once, to its sender, and no stale registration invoked; are events ordered, acknowledged last; does a handler fail only after a loss or on a malformed message of its own client? | 1.4 M |
| `transports` | Transports | are frames whole and in order, pings honest; what can end `read()`; does every write and ping end while the peer reads? | 373 k |
| `runner` | Runner | one session, known to the app, serving everything, replaced when lost while its receive loop runs, in both flavours? | 161 k |
| `runner_signal` | Runner | does a signal end the process? **no** | |
| `endpoints` | MCEndpoint | does a function run only as declared; are refused messages without effect, contexts left, runtime errors for the listed causes only? | 622 k |
| `endpoint_echo` | MCEndpoint | does a function that takes the whole message get every message? **no** | |
| `join` | MCLaunch | is the given credential used; does only a welcomed client become a session; does every join end, and leave no connection over? | 177 k |

The type invariants are proved and belong to no run, except that of `Endpoint`, which
has none: its assumption and `Fresh`, `Stacks` and `Admitted` of `EndpointProofs`
say what the proofs need of its types.

Deadlock is not checked in any of them: all calls are made at most once, connections
close, and every one of these systems may then stop for good.

### Bounds, and why they are enough

* `Ops`: three calls in `session_calls` (two that collide or follow one another, and a
  third that runs into both: two `subscribe()` that share an id and an
  `unsubscribe()`), two where liveness is checked. Each call is made once; the
  code keeps nothing of a call that has returned except its handler.
* `Pushes`: two messages of the router in `session_calls`, whose pool has one worker
  (`MaxWorkers = 1`): the second handler waits for the first, through the closes, the
  end of the loop and the shutdown. One message where liveness is checked: its steps
  depend on no other push except through the pool.
* `IdMax` in the sessions bounds the calls; the wrap is `IdGen`'s subject, with
  `IdMax = 3`, `MaxCalls = 10`, three times around.
* `Realm` chooses a scenario at the start (`MCScenarios`): two clients with three
  messages each (register, unregister and register again, across a call), which may also
  lose their realm or send a malformed message; or three clients with two messages (two
  subscribers, and a publisher that publishes twice). One message in flight bounds what
  a client sends ahead: a handler takes one message at a time, so a second one only
  waits.
* The transports: two writers or pingers and two frames of the peer;
  `RecursionLimit = 3` stands for the interpreter's limit; `Capacity = 1` frame between
  the ends, so that a second write waits for the peer to read. The calls are numbered
  in the order in which they begin, since they are alike.
* `Endpoint`: every signature of up to two parameters, since every check concerns one
  parameter or relates two, in both flavours, for procedures and topics; roles and
  response models with the short ones; two contexts behind a plain dependency. Messages
  have up to two arguments, keywords that name a parameter, a field or nothing, and
  values that fit, that pydantic converts, or that do not fit. One message is enough:
  handlers share nothing.
* `Launch`: two credentials stand for three, which are treated alike; each setting is
  absent, given, or empty, in each place where the chosen source looks, and may be no
  string in a YAML file.
* `Runner`: three sessions, so that a chain starts from a session that a chain had
  made; two procedures, so that a setup can fail half way. The last session is
  never lost, which is only the bound. `runner_signal` needs no more than the
  first loss.
* Symmetry is used over calls, pushes and clients, in runs without liveness.

### Fairness

* Threads and coroutines that can run do (weak fairness of each call's own steps and
  of the reader): the schedulers of the operating system and of asyncio.
* Disconnect callbacks end (`CallbackFinish`), and so do the endpoints of the asyncio
  session (`TaskFinish`): an assumption about user code. Nothing is assumed of the
  endpoints of the synchronous session.
* In `RawSocket`, strong fairness for the lock: it is free again and again, and a
  `threading.Lock` with several waiters gets to each of them. The peer is not obliged to
  read; `EveryCallEnds` excuses behaviours in which it stops for good.
* The router answers what it received and closes after its GOODBYE; it is never
  obliged to push, and a connection never obliged to go. The WebSocket library
  reports a lost connection; a raw socket is not assumed to.
* Nobody is obliged to make a call, to cancel one or to send a signal, or to launch
  a client.
* `Endpoint` has no liveness: how long the application's code runs is its own affair.

## What the runs show

*Sessions.* The order "store the future, then write", and a receive thread that
alone removes requests and changes handlers, make the dictionaries safe without a
lock: `Correlation`, `PendingEntry`, `HandlerInstalled` and `NoOrphan` hold. There is a
handler for every id that is open, but not always the one that was subscribed first: a
router gives two `subscribe()` of one topic the same id, the second handler takes the
place of the first (`session.py:161`), and one `unsubscribe()` removes it for both.
Handlers that wait for a worker are dropped only on a connection that is lost or closed
(`NoneDropped`). One message can end the synchronous receive thread: an INVOCATION whose
ERROR is written to a lost connection outside any `try`, because its UNREGISTERED
overtook it or because the executor takes no work after the end of the main thread;
callbacks then do not run (`ReceiveLoopSurvives`, `CallbackRuns`). xconn's own router
never sends an INVOCATION after its UNREGISTERED (`InvocationWhileRegistered`).
A callback that is registered after the receive thread has left its loop does not run
either (`client.py:61`); `CallbackRuns` is about those registered in time.

The asynchronous receive loop dies of three things (`CrashExplained`): an INVOCATION or
EVENT for an id that was closed meanwhile, the answer to a call whose caller gave up,
and a GOODBYE for a goodbye future that is cancelled, by the timeout of `leave()` or
because its caller gave it up. A disconnect callback that raises ends the reader task
after that, when the connection is gone. A `leave()` that raises, because the reader had
died, or that is given up leaves the connection open (`async_session.py:302`);
`LeaveCloses` is about one that returned. The second of the three is a defect that users
will meet, `async_cancel_kills`: one `asyncio.wait_for` around a call that times out,
and the late RESULT ends the session silently; later calls wait for ever.

*Router.* A request gets at most one answer, and its sender gets it (a call whose callee
has vanished gets none); events precede the acknowledgement and keep their publisher's
order. A handler crashes only after a loss or on a malformed message of its own client
(`CrashNeedsLoss`), but the loss may be another client's: a publisher is disconnected
because one of its subscribers has vanished. And the callee of a caller that has left,
even by GOODBYE, is: the dealer still names the caller when the YIELD comes, and the realm
no longer knows it. Apart from that, whoever may have to be written to is known
(`RecipientsKnown`).

*Transports.* Frames of threads that write at once stay whole, and a write that fails
releases the lock. Every write and ping ends (`EveryCallEnds`), with an exception that is
the code's: `sendall()` and `drain()` have no timeout (`transports.py:93`, 153, 300), so a
peer that keeps the connection and reads no more holds the writers, in the threaded
transport with the lock and thereby the reader that is to answer a PING; the timeout of a ping
covers only the wait for its PONG. `read()` fails on a lost or closed connection and on a
frame of an unknown type (`ReadFailures`); it recurses for every PING or PONG between two
messages and fails at the recursion limit; the asyncio `read()` also fails when the PONG
of a timed-out ping arrives.

*Runner.* There is one session at a time, the app has it, and it is replaced unless the
retries exhaust the stack. Only a session whose receive loop runs is replaced, however:
when an exception has ended the loop (*Sessions* above), no callback runs, and nobody
notices, whether the connection then stays or goes (`ReaderCrashes`). A setup that fails
after a reconnection goes unnoticed (`ServesAll` is about one that returned), and when
the first session is lost in its setup, main hangs and a signal does not end the process
(`runner_signal`). The threaded runner loses its session for good in two more ways
(`Recovers`): when the session is lost before its callback is registered, and, since
nothing keeps the main thread, at any time after the set-up: the interpreter then waits
for the threads that run and starts no work in pools, so that handlers and the
reconnecting callback are refused. And `_setup` may store a session that was lost
meanwhile over the one its callback has just made (`AppHasSession`).

*Endpoints.* Whatever fails, contexts are left in reverse order, and what a caller
may not send or sends wrongly has no effect. A function runs only when its required
fields have values that pydantic lets pass (`RunsAsDeclared`). That is less than the
declared types: pydantic converts what it can, `'40'` for an `int`, but only the model
made of the signature gets the converted value, and the function is called with what
came (`async_.py:126`, `sync.py:129`). A runtime error has one of the causes that
`RuntimeErrorExplained` lists; the less obvious ones:

* a function that takes the whole message declares no arguments, so a procedure
  that takes an `Invocation` is refused every call that has an argument, like
  the echo of `docs/index.md` (`endpoint_echo`), and an ordinary event does not reach a
  topic that takes an `Event`, like the one in `examples/app/main.py:51`, since
  `helpers.py:216` asks for `Invocation` and so makes the event a required field;
* a context that swallows the exception of the function leaves `result` unbound
  (`async_.py:132`), and the application's error is lost;
* keywords are counted, not compared with the signature: an unknown one reaches
  the function and raises TypeError, and one that names an argument given by position
  replaces it without a word;
* a field called `model` collides with the first parameter of
  `handle_model_validation(model, **kwargs)` (`helpers.py:525`), and a keyword called like
  the details of the asynchronous runner with these (`async_.py:135`): TypeError;
* a result that no response model checks may be one that the serializer refuses, in the
  `try` that sends it (`session.py:107`);
* a dependency of the other flavour (a coroutine function in the threaded runner, a
  plain function in the asynchronous one) is collected and never resolved: the
  function runs with the bare `Depends` object, which is why `RunsAsDeclared` speaks
  of dependencies of the runner's own flavour.

An `ApplicationError` that the function, a dependency or a context raises is sent as what
it says, and is no runtime error.

*Handshake.* Only a welcomed client becomes a session, and every join ends. The client
never closes the connection of a join that failed; the server does, or the network
has (`JoinSettles`). A join that its own end abandons is the exception: when the authenticator
raises on CHALLENGE (`joiner.py:31`) or the task is cancelled, the server learns nothing
and `accept()` waits without a timeout (`acceptor.py:63`). A client that is cancelled
after an anonymous HELLO is welcomed, attached, and stays in the realm although nobody
uses its session.

*Launch.* The credential that the command line gives, or else the chosen source, is
used, this value and with the method of its kind (`CredentialUsed`), with four exceptions,
all silent:

* those in a YAML file that lacks the url or realm are dropped when the environment has
  these, since the fallback to `.env` takes any exception for a file in another format;
* so are those in a YAML file in which some setting is not a string (`ticket: 12345`,
  `authid: 1`), since `ClientConfig` refuses it (`types.py:14`);
* an empty variable of the environment hides the line of a `.env` file;
* a `.env` that `--config-file` does not name may not be found (see below).

Further observations, without a run of their own:

* `_wait` waits one second for the callbacks, then leaves the `with` block of their
  pool, which joins them: a callback that does not return holds `run_forever()`
  (`ReaderStop` waits for `callback = "done"`), though the comment at
  `session.py:95` speaks of one second.
* `executor.shutdown(cancel_futures=True, wait=False)` cancels what is queued, not
  what runs, as the comment at `session.py:88` has it.
* On a raw socket a failing read leaves `is_connected()` true, so `unregister()` on a
  session whose receive thread has ended is not refused, and `leave()` may leave the
  receive thread blocked in `recv()`. This is why `session_live`, with `LeaveStops`,
  runs with `FlagFollowsLink = TRUE`.
* `Realm.stop` does nothing; it is no action of `Realm`.
* `WebSocketTransport.ping` ignores whether its wait has timed out
  (`transports.py:356`) and returns the elapsed time; the three other transports raise.
* `assemble_event_details` hands a `CallDetails` to the parameter declared
  `EventDetails` (`helpers.py:568`), whose `authid` then reads `caller_authid`.
* `--realm ""` and `--url ""` pass `load_config_from_env`, which takes them from the
  environment, and are then mixed in again by `update_config_from_cli`.
* `--open-timeout` and the ping options have an effect with `--config-source cli`
  only, and `authmethod` in a YAML file is always overwritten (`cli.py:49`).
* `load_dotenv()` without a path looks for `.env` from the package's directory
  upwards, although the check before it looks in the working directory
  (`helpers.py:632`).

## Proofs

Every invariant and every safety action property that a passing run checks is also a
theorem, for all values of the constants, and so is the refinement. Each proof has
the same form: an inductive invariant (`IInv`, sometimes with a second layer that
relies on it), checked by TLC as an invariant on the instances of the runs (where a
conjunct quantifies over all numbers, over the few that occur), a lemma for each group
of actions, and theorems that read off the property. No proof uses fairness: the
theorems are about `Spec`, which the `FairSpec` of a module implies, or about
`TransportsSpec` and `LaunchSpec`, of which only the initial states and the steps count.

**IdGenProofs**, for any threads, `IdMax` and number of calls: the types
(`IdGenTypeOK`), `IdsDistinct` (any two ids fewer than `IdMax` apart differ) and
`IdsConsecutive`. The invariant adds to the property that the lock excludes: a thread
between the acquisition and its return is the holder, and the counter is the last id
issued or, after the increment, its successor. The distinctness follows from
consecutiveness, which says that the ids are 1, 2, ..., IdMax, 1, ...

**SessionProofs**, for any calls, pushes, workers and id bound, has three layers.

*Keys* (`SessionTypeOK`, `SessionCorrelation`). `Correlation` (a future only ever holds
the answer to its call) is not inductive: the pop by key finds the right call only
because keys are unique. The inductive invariant is

    IInv = TypeOK /\ KeyInv /\ Correlation

where `KeyInv` says that ids are distinct and not beyond the generator's
(`IdsDistinct`), a call about to store or send has one (`IdTaken`), what the router has
was sent by such a call (`SentByCalls`), an entry of the dictionaries is under its
call's key (`EntryKeys`), and an answer under way carries the key of the call it
answers (`AnswerKeys`). So an answer pops either nothing or the call it answers. The
proof has a lemma for the types and one for the keys of each group of actions (user
threads, receive thread, pool, peer); most actions leave ids, entries and messages
alone, and `KeyFrame` deals with those at once.

*Messages and handlers* (`SessionPendingEntry`, `SessionHandlerInstalled`,
`SessionNoOrphan`, `SessionReceiveLoopSurvives`, `SessionNoneDropped`). `HInv` rests on
`IInv` and relates the router's view of the open ids to what the session will know once
it has read the messages under way. `Opens` and `Closes` say what a message will do to a
handler, `HandlerAt(h, i)` that h has a handler when the i-th message is processed;
`Handlers` says that every id that is open at the router has one behind the last
message, and that every push and every close finds one at its place in the queue. That
two `subscribe()` share an id and an `unsubscribe()` lies between is where this is
needed: neither the queue nor the dictionary alone decides. `AnsweredOnce` (a request is
with the router, answered under way, or resolved, never two of these) keeps the entries,
`PushedOnce` and `GoodbyeLast` the messages. `HandlerInstalled` also says whose handler
it is, for which `Owners` follows an answer from the queue into the dictionary of
handlers. `NoneDropped` needs little: that the loop is left only on a connection that is
lost or closed (`LeftOnLoss`), and that such a connection stays so (`LossStays`).

*The promise* (`SessionKeepsPromise`): the initial states are those of `ClientPromise`,
and each step of `Session` is a step of it or a stutter. The lemma `AbstractionHolds`
turns the sets of the mapping into where the answer of a call is: under way, or in its
future (`OneAnswer`: never two different ones). Then the write is the promise's `Ask`,
the router's answer its `Decide`, the step in which a caller wakes its `Finish`, a
refused or failed write its `Fail`, and all else is a stutter; the critical fact is
`Awaited`: a call whose request or answer is under way waits, so that it cannot fail
while the router has it.

**AsyncSessionProofs**, for any calls and pushes: `AsyncSessionTypeOK`,
`AsyncSessionCorrelation`, `AsyncSessionLeaveCloses`, `AsyncSessionCrashExplained`. The two
layers are those of the session, with what asyncio changes: a cancelled caller
leaves its entry behind, so `AnsweredOnce` no longer says that a caller waits, and
`GivenUp` says what a cancelled future may be. `LeaveCloses` needs to know that a
reader that was stopped stays so while another `leave()` is still closing
(`ReaderStopped`), and that the goodbye future that several of them share was made by
a `leave()` (`GoodbyeCalls`). Who cancels that future, a timeout or a caller that gives
up, is not told apart. `CrashExplained` then follows from the cases in which the
reader meets what it cannot handle: `Handlers` leaves only a push that a close has
overtaken, `Resolution` and `GivenUp` only an answer to a call that was given up.

**RealmProofs**, for any clients, scenarios and number of messages: the types,
`RealmRecipientsKnown`, `RealmInvocationWhileRegistered`, `RealmOneAnswer`,
`RealmAckAfterEvents`, `RealmEventsInOrder` and `RealmCrashNeedsLoss`. One invariant serves
all, since they need the same facts of the requests: those in an inbox are the last
that their client sent, in order (`InboxIds`), and whatever else is named has been
received (`HandledIds`), so that a request just taken has no answer yet, and a
publication just taken is later than every EVENT there is (`EventsLast`). `Unanswered`
keeps the three ways apart in which an answer is still to come (from the callee, from
a YIELD that waits, from a publication whose EVENTs are being written). `Registered` ties
the dealer's registration to what its owner was told: this gives
`InvocationWhileRegistered`, position by position in the owner's outbox. `RecipientsKnown`
follows from `Attached`, `NoneUnknown` and `Waiting`; the last says where the realm may
look in vain, for a caller whose connection is closed, and so why the crash of a YIELD's
handler needs a loss.

**TransportsProofs**, for any number of calls and of the peer's frames and any
recursion limit: `TransportsTypeOK`, `TransportsWholeFrames`, `TransportsFramesInOrder`,
`TransportsHonestPings` and `TransportsReadFailures`, over both flavours at once.
`WholeFrames` needs the lock's role spelt out: who stands between header and payload
holds it (`Locks`), and the last half frame of a stream is then its own (`Halves`).
`FramesInOrder` needs the frames on their way (`Due`) to be the last that the peer sent
(`FromPeer`), and every other message delivered (`Delivery`), every other PING answered or
in the hands of the reader that waits for the lock (`Replies`). On a lost connection a
PONG may be written in vain, which is why `Replies` asks for no gap only while the
connection lasts; no answer reaches the stream after that. `HonestPings` follows
since a PONG on its way, and a result, are for a PING the peer has read (`Seeing`).

**RunnerProofs**, for both flavours, any number of sessions and procedures, and any
stack: `RunnerTypeOK`, `RunnerOneSession`, `RunnerAppHasSession`, `RunnerServesAll`. All
rest on `Order`: every session but the last was lost, and its callback has made the
next; one whose receive loop an exception has ended is the last for good. `Registered`
follows `_setup` from one registration to the next and says that the router's owner of
each procedure counted so far is this session; `Stored` says who may still store a
session in the app.

**LaunchProofs**, for any clients, secrets and settings: `LaunchTypeOK` (with it, that a
handshake has at most one message on its way), `LaunchOnlyWelcome` and
`LaunchCredentialUsed`. `WelcomeEarned` says that a WELCOME under way was earned.
`CredentialUsed` is not about a step but about the data: `Prepared` says that the
configuration is one which the settings give, and the lemma `ChosenComesThrough` shows,
source by source, that the chosen value survives both mixtures.

**EndpointProofs**, for any signatures, messages and results. `EndpointContextsClosed`
(a settled message has left every context it entered, in reverse order) needs a
relation between the two stacks at every moment, not only at the end: `Unwinding` says
that the contexts that were left are the last ones that were entered, in reverse, and
`Phases` that none is left before the message is `closing` and all are when it is `done`.
`EndpointRefusedUntouched` (a message refused for its role or arguments has run no code
of the application) needs to know that the checks alone produce these outcomes: before
a message comes nothing of it is there (`Fresh`), before it is done nothing is
settled (`Undecided`), and what the handler makes of a result is never one of them (the
lemma `NoResultRefuses`). `EndpointRunsAsDeclared` and `EndpointRuntimeErrorExplained`
rest on what the checks let through: lemmas say what it means that `Refusal` finds
nothing and that a call is no `Misfit`, for any signature, and `Passed` carries
this to the moment of the call, `Explained` the causes of an exception to the moment
it is reported; the lemmas about `Refusal` name, among these, the field that is called
`model`.

The assumptions are the named ASSUMEs of `Peer`, `Session`, `AsyncSession`, `IdGen`,
`Realm`, `RawSocket`, `Runner`, `Launch` and `Endpoint`: that bounds are natural numbers
(a generator has an id to give, a stack holds a frame), that a `No...` value is not one of
the set it is to differ from, and what the inputs are made of. TLC evaluates them in the
runs.

Some proofs failed at first for a good reason. `CredentialUsed` failed for a command
line whose arguments happen to look like a YAML file: `FromYaml` did not ask for the
source `file`, as `cli.py` does. `Outcome` of `Endpoint` had branches that overlap, of which
CASE takes any. `EventsInOrder` and `FramesInOrder` had been stated with sequences
filtered by kind, about which nothing can be proved without induction; they now speak of
positions, which says the same.

Only model-checked:

* liveness under fairness, which is beyond the prover: `Answered`, `LeaveStops`,
  and `CallbackRuns` of `Session`, `Answered` and `LeaveEnds` of
  `AsyncSession`, `EveryCallEnds` of `Transports`, `Recovers` of `Runner`, `JoinEnds` and
  `JoinSettles` of `Join`;
* the disagreements (`async_cancel_kills`, `runner_signal`, `endpoint_echo`), which need
  one behaviour and not a proof.

## Not modelled

* The contents of messages, options, serialisation and the cryptography of
  authentication: they decide what is sent, not in which order. wampproto is external.
* `parser.py`, which nothing in the package calls; the schema documents and their
  HTTP server; the file watcher, which replaces the process.
* The raw socket joiners, which run the same loop as the WebSocket ones: the repository
  has no raw socket server, so that nothing is known of the other end. Which of two
  values of one parameter, by position and by keyword, reaches the function: the model
  knows which have one.
* Opening connections and listening, up to a connected transport; `wait_for_server`
  is one step that may fail.
* The local sessions of `types.py`, which nothing in the repository creates.
* The pings of the WebSocket transports, which the websockets library answers.
* Handlers that call back into the session and wait, in a pool whose workers all do
  so: endpoints are opaque. Liveness with a second push has too many states for a run of a
  few minutes, and nested calls would multiply them.
* `AsyncSession` as an implementation of `ClientPromise`: an answer that ends the
  reader by an exception vanishes without a step of the caller, so that the mapping
  needs a history of what the router answered.
* `Realm.detach_client`: nothing calls it.

## Plan

Done: the sessions, the id generator, the router, the transports, the runner in both
flavours, the handshake, endpoints and the command line. What is left to model is
listed above with its reason; the two parts worth adding are the handlers that call
back into the session (with a smaller instance of their own) and the refinement of
`ClientPromise` by `AsyncSession`.

Every safety property of the runs is proved. Theorems worth adding: what the id generator
promises to the sessions (the ids of a session are `IdGen`'s, so that `IdsDistinct` of
`SessionProofs` is a consequence and not only a bound on the calls); that the raw
socket transports implement a common channel (messages delivered are a prefix of
those sent), as a specification of its own; and the safety half of the liveness
properties, such as: who waits for a lock waits for somebody who can go on.
