# TLA+ models of binancebeast

binancebeast (`src/binancebeast`) is a C++ library, built on Boost.Asio and
Beast, for Binance's REST and WebSocket interfaces. It is small, but it hands
its users' callbacks from io threads to pools of threads, closes connections
while they connect and read, and is taken down by a destructor that must wait for all
of it. This directory models that control: who may call what when, what is
waiting where, and what happens when a step fails.

Throughout, CPP is `bblib/src/BinanceBeast.cpp` and H, R, W, C are
`BinanceBeast.h`, `BinanceRest.h`, `BinanceWebsockets.h` and `BinanceCommon.h`
in `bblib/include/binancebeast`; X is `examples/userdata.cpp` and M `examples/multiplemarkets.cpp`.
`H:293` is a line.

## The system

```
 application threads                 io threads (1 per io_context)       pool threads
 -------------------                 -----------------------------       ------------
 sendRestRequest ---- session ---->  RestSession::on_*  ---- post ---->  m_restCallersThreadPool --> handler
                                           \--- 404: handler, right here
 startWebSocket ----- session ---->  WsSession::on_*  ------ Do() ---->  OrderedThreadPool(1,4) ---> handler
        \-- m_wsSessions --\               \--- failure: handler, right here
 stopWebSocket ------ async_close -> close callback: erase, handler, right here
 startUserData, renewListenKey, closeUserData: a blocking HTTP exchange on the
        caller's thread (application, timer thread, pool thread), then m_listenKey
```

| component | state | operations | what is hard | what makes it correct |
|---|---|---|---|---|
| WebSocket session (W:82-255) | the pending operation, the stream's status, the buffer's message, its handler pool | run, on_resolve ... on_read, close | close() at any moment; a full pool holds the io thread; failures bypass the pool; lifetime by shared_ptr | no message lost, order kept, each stop answered once and followed by the stream's end, object outlives its work |
| OrderedThreadPool (submodule, not in the repository) | a queue of 4, one thread | Do, destructor | blocking when full | first in, first out; nothing dropped |
| Session registry (CPP:111-157, 218-236) | `m_wsSessions`, `m_nextWsId` | startWebSocket, stopWebSocket, the close callback, stop() | three kinds of threads on one map; a lock that locks nothing; ids by load and store | a token names its session and nobody else's, a stop reaches it, no entry outlives the io_contexts |
| REST calls (R:109-270, CPP:89-108, 160-215) | per request: the pending operation; the callers' pool; the round robin index | sendRestRequest, on_resolve ... on_read | seven error paths; two threads at once; destruction with work in flight | each handler called exactly once; contexts go before the pool they post to |
| Listen key (H:229-317, CPP:239-268) | `m_listenKey` | startUserData, renewListenKey, closeUserData | unlocked string, three threads, result taken from the string | a stream opens on its own key; failures are reported |
| Listen key extender (X:11-59) | a timer and its wait | onTimerExpire, onListenKeyRenew, destructor | a handler called twice; an aborted wait | renews for ever, and only when due |
| IoContext, start() (H:50-75, CPP:36-76) | io_context, guard, thread | start, destructor | the destructor joins; 0 contexts; a second start() | no thread survives, no callback after the object |
| Responses (R:31-83, W:11-65) | JSON, state, message | constructors, hasErrorCode | null JSON allowed or not | failure is never taken for success |
| Request target, signature (CPP:117-129, 175-214, H:216-226, 320-331) | OpenSSL's static digest | createRestSession, startWebSocket | HMAC's result is shared by all threads; text passed through std::move and signed in one expression; values written as they are given; signed without parameters | the server reads what was asked for; the signature is that of the text sent |
| URL encoding (H:172-195, 334-337) | - | urlEncode, to_hex | signed char, ends of the ranges | decodes to what was given |
| Configuration, key file (C:57-192) | `m_config` | MakeLiveConfig, MakeTestNetConfig, MakeConfig, readKeyFile | hosts shared by markets | live keys go to live hosts, test keys to test hosts |
| Certificates (SslCertificates.h, H:149-167) | - | load | none of its own | - |
| Examples, tests (rest.cpp, neworder.cpp, M, testrest.cpp) | a main thread, condition variables, the scanners' threads | send, wait, start, stop, destroy | waits without a predicate, an inverted predicate, captures that go out of scope, a virtual call during destruction | main goes on only with its own reply; no hang but the known ones |

The parts meet in few places. A session is created by an application thread and
from then on lives on one io thread. The user's handler runs on a pool's thread, or on the
io thread, or (listen key) on the thread that called. `m_wsSessions` is used by
application threads and, through the close callback, by io threads.
`~BinanceBeast` clears the map, then joins the WebSocket io threads, then the
REST ones; the callers' pool goes last because it is declared first (H:347).

## Modules

| module | models | written as |
|---|---|---|
| `WsSession` | one WebSocket session with its OrderedThreadPool, its stops, and its lifetime | state machine, with safety and liveness |
| `WsStream` | what a session promises its user | abstract specification, implemented by `WsSession` |
| `RestSession` | start(), REST requests from sendRestRequest to the handler, and the destructor | state machine; implements `RestCall` |
| `RestCall` | what sendRestRequest promises: one call of each handler | abstract specification |
| `WsRegistry` | `m_wsSessions`, tokens, stops, the destructor | state machine over threads |
| `ListenKey` | the listen key's three calls, by three threads; the extender's timer and destructor | state machine with liveness |
| `Responses` | RestResponse and WsResponse, and hasErrorCode | pure operators, applied by a small state machine |
| `Requests` | targets, signature, urlEncode, configuration | pure operators, applied by a state machine over threads |
| `Examples` | three programs that use the library | lists of steps, run by a state machine |
| `MCRestSession`, `MCWsRegistry`, `MCRequests` | names for the requests, threads and texts of the runs | instances for TLC |
| `WsSession_proofs`, `RestSession_proofs`, `WsRegistry_proofs`, `ListenKey_proofs`, `Responses_proofs`, `Requests_proofs`, `Examples_proofs` | theorems about the modules of these names | proofs, for TLAPS |
| `SequenceLemmas` | queues under Append and Tail, induction over numbers and sequences, the equations of FlattenSeq | lemmas, for the proofs above |

### WsSession

The chain of completion handlers is `op`, the one operation pending: each
handler is an action that replaces it by the next, or ends the chain in a
failure. `io` says what the io thread is in the middle of, on behalf of this session: inside the
user's handler after a failure (`fail`, `json_fail`) or a stop (`disconnect`), held by
`Do()` (`pushing`), or in the session's destructor (`joining`). While `io` is not
`idle` no completion handler of the session runs, as the context has one thread.

- on_read is five actions: a good message goes to the pool (`OnReadMessage`, which
  ends with `io = "pushing"` when four are queued, and then `DoUnblocks`), a bad one calls the handler
  and then reads on (`OnReadBadJson`, `IoHandlerReturns`), an error ends the chain, and
  an aborted read ends it silently.
- `stopWebSocket` runs on the application's thread at any time the session is
  registered. On a stream that is open or closing its `async_close` waits for
  the closing handshake (`closeWaiting`); on one that is not yet open, or is done, it completes
  at once (`closeReady`). `CloseCallback` is the lambda of CPP:145-155.
- `Destroy` needs `~Referenced`: the map, a pending operation (shared_from_this) and a
  close callback hold shared_ptrs; queued results do not. The pool's destructor
  may finish or drop its queue, so it is free to do either; it joins its thread.

Messages are numbers in the order they are read, and all that is kept of them is whether
their text parses (`good`). `called`, `stops`, `openStop` and `disconnects` are history.

### WsStream

The stream as its user may think of it: a backlog of messages taken and not yet given, with
room for `QueueCap + 1` (the pool's queue, and the one that `Do()` holds), messages given, and stops owed
and answered. A message that does not parse is given when it is taken, past the
backlog. `Stream` in `WsSession` is the refinement mapping; `StreamPromised` is the whole
of it, with the fairness that a backlog is given and a stop answered, and
`WsSession_proofs` proves the safety part.

### RestCall and RestSession

`phase` follows the object: `new`, `up` after start(), `contexts` and `pool` in the
destructor, `gone`; or `crashed`, when undefined behaviour ended the process. `start(n)`
makes `size` contexts, clamped from above and not from below (CPP:65), so that
`size = 0` is possible.

`RestSession` splits getRestIoContext into its load (`LoadContext`) and its store
(`StartSession`), so that callers interleave between the two; `op[r]` is the operation a request waits for.
A request is sent by the application or, if it is in the domain of `Parent`, by the handler of
another request, and that may still be running while the destructor is (`MaySend`). Where the loaded
index names no context, or one destroyed already, C++ promises nothing: `UseDeadContext` ends
the process.

Every completion handler is one action with its outcomes as disjuncts:
start the next operation, post the handler's call to the pool, or (404) call
the handler on the io thread, which then does nothing else until it returns.
`DestroyContext` is ~IoContext: it waits for the thread, then the io_context
destroys what is pending, and the sessions with it. `StopPool` and `JoinPool` are
~thread_pool, which discards what is queued and waits for what runs. A null handler makes
createRestSession throw before any of this state changes; it is left out.

`Promise` maps it to `RestCall`: `answers` are the calls made, `closing` is the destructor begun
or the process ended, and `dropped` are the requests that are nowhere any more and were not answered.
`CallsPromised` is RestCall's specification, fairness included.

### WsRegistry

Sessions are numbered as they are constructed. Any application thread may start streams and stop them,
and a token may be stopped more than once. Each use of the map or of `m_nextWsId` is a step:
load and store of the id, insert; find, operator[] before `->close`, operator[] in the capture; in the
callback, the choice of the handler (CPP:147) and the erase (CPP:151). operator[] makes a null entry where there is none, and using
it sets `crash`: `Deref` to close it, `TakeHandler` to find its handler, when the stop was given none (`own`).
The id wraps at `IdMod`. `overlap` is history: a thread loaded the id while another was between its load and its store.

The destructor is `ClearSessions`, then the end of each WebSocket io_context, and `EndObject`. Until the last context is
gone (`JoinWsThreads`) the contexts that are left run callbacks (`TakeHandler`, `EraseEntry`), and those that go take
theirs with them unrun (`DropCallback`); a callback that is running is waited for by the join.
An application thread is not inside a call by then. (A handler on an io thread that starts a stream while it is
being joined would put a session into the cleared map; no thread here does that.)

What happens when two operations overlap inside std::map is undefined in C++ and
has no states here: each is one step, and what is looked at is what comes between them.

### ListenKey

amendUserDataListenKey is split where other threads can get in: the exchange,
`m_listenKey.clear()`, the parse, the return. Binance is three counters: the key
it holds valid, the keys issued, and the errors given. POST may return the valid key again or a new one. An exchange may
throw (there is no try in the code), and so may the JSON accessors when a member is
missing: on the application's thread the caller may catch it, on the others it ends
the process (`crashed`). The extender's handler re-arms the timer each time it is
called; re-arming while a wait is pending aborts that wait, whose handler
runs all the same (`fired`, `due`). `~ListenKeyExtender` is `CancelTimer`,
`StopContext` and `JoinThread`: a renewal under way on the timer's thread may re-arm
the timer between the first two, and the join waits for that thread.

### Responses

A response is built once (`FromReason` by the fail overloads, `FromJson` for what was parsed, `FromState`
for the states that carry nothing) and then asked hasErrorCode any number of times,
with either argument. Each call writes the response (`Judge`). JSON is reduced to the shapes the function
tells apart: null, an object with or without `error`, `code` (200, another number, not a
number) and `msg` (text or not), another value. Where `value_to` throws, the code's catch-all
makes the answer an error and leaves the message as it is. `asked` remembers the last answer per argument.

### Requests

Text is a sequence of bytes here and nowhere else, since the encoding is the
subject. The names of parameters and streams are any texts without `&`, `/`, `=` and `?`, as Binance's are (`IsWord`): the
code writes them as they are, and so it does with values (CPP:191, 204). A parameter is therefore a name, the value that the application
means, and the text that it passes: that value, or `urlEncode` of it, as neworder.cpp:85 does and nothing else (`Given`).
`urlEncode` does what the code does to a signed char: `>>` rounds down, `%`
rounds towards zero, `to_hex` wraps at eight bits. `SignedTarget`, `PlainTarget` and `CombinedTarget`
are the three ways in which a target is put together. The reference is a reader of targets, as a
server is one: `Split`, `ParamsRead`, `Decoded`, `StreamsRead` share nothing with the writer. They go through a text
byte by byte (`Put`, `Read`), as recursive functions, so that theorems can be proved about them.
A text with a blank, a control character, a `#` or a `&` cannot stand in a query, and what a server makes of it is left
open: `ReadAsAsked` and `ValuesArrive` are stated for the others (`Fits`), `SignatureIsOwn` for all.

HMAC is any function that gives different texts different digests. It writes
OpenSSL's static array (`digest`) because it is given NULL for its result (H:220), and `b2a_hex` reads that array
afterwards: `Sign` and `SendSigned` are two steps. The signed text has been passed through `std::move` in the same expression
(CPP:196); libstdc++'s operator+ takes over the right operand's buffer only if it has
room for the left one, and a string from `str()` has none, so the text is still there. `Sign_MovedFrom`
is what would happen if it were not.

`Configure` makes a configuration from a key file; `Accepts` is readKeyFile's four
reasons to throw. Requests are followed under the configurations in `Followed` only, since nothing that is sent depends on it.

### Examples

A program is a sequence of steps of its main thread, such as send, wait, leave a scope,
destroy. `Handler(r)` is the library's side: it notifies, or finds that what it captured by
reference is gone, or throws. A notification that meets nobody in a wait is
lost (`missed`); a wait may also return by itself (`Spurious`) or time out. The scanners' threads run
`waitForExit` beside main, whose predicate is `m_running.load()` where "not running" is meant.
That requests are answered is taken from `RestSession`'s `CallsPromised`.

## Runs

| run | configuration | shows |
|---|---|---|
| `ws_threads` | queue of 4, 6 messages, 2 stops, with fairness | `TypeOK NothingLost QueueInOrder DisconnectPerStop OpenStopCloses WorkKeepsAlive DataInOrder`, and `OpenStopFrees BlockedResumes StreamPromised` |
| `response_calls` | every response, any calls of hasErrorCode | `TypeOK FailureStays SameAnswer` |
| `rest_calls` | start() with 0, 1 or 3 of at most 2 contexts; 3 requests, one of them sent by a handler; 2 pool threads, 2 callers at once | `TypeOK OneAnswer ContextsGoFirst OnlyMisuseCrashes`, and `DestructorEnds CallsPromised` |
| `registry_stops` | 2 threads that start 2 streams and stop each up to twice, 3 ids, the destructor | `TypeOK OnlyOverlapShares TokenNamesSession StopReachesOwn OnlySecondStopCrashes SessionsEndFirst` |
| `key_threads` | 3 threads, 2 keys, 1 refusal, with fairness | `TypeOK StreamOnOwnKey FailureReported KeepsRenewing ExtenderEnds` |
| `request_targets` | 1 thread, up to 2 parameters of 2 values and 32 bytes by themselves, each raw or encoded, up to 3 streams, every key file and market | `TypeOK ReadAsAsked SignatureIsOwn ValuesArrive KeysStayApart` |
| `example_programs` | 3 programs, 3 scanners, 2 spurious returns, with fairness | `TypeOK WaitsForOwnReply OnlyLateRepliesCrash EndsOrHangs` |

Five more runs each check one statement that a comment or the documentation makes and
the code does not keep; TLC finds a behaviour that violates it.

| run | the statement | what happens |
|---|---|---|
| `ws_reentry` | "the user's handler is documented as non-reentrant" (W:98) | a failure, or a message that is not JSON, calls it on the io thread while the pool's thread is in it |
| `ws_stopearly` | the handler "will be called when the stream is closed" (H:134) | a stop before the handshake is over is answered with Disconnect, the session leaves the map, then the stream opens and delivers |
| `registry_race` | a stop without a handler uses "the existing handler" (H:135), under `m_wsSessionsMux` (H:356) | `std::scoped_lock (m_wsSessionsMux);` declares a variable of that name and locks nothing: the callback of one stop erases the entry between the find and the operator[] of another, which then follows a null pointer |
| `key_due` | "every 59 minutes" (X:83) | a failed renewal calls onListenKeyRenew twice, the second re-arming aborts the first wait, and the aborted wait is taken for an expiry, again and again |
| `request_race` | "'signature' param which is a SHA256 of the query params" (CPP:181) | two threads that sign share one static digest, and one of them sends the other's signature |

Further divergences are visible in the models and have no run of their own.

- "If `hasErrorCode()` returns true, the `failMessage` is set" (README.md:23): a null
  answer, an object with `error`, or a `msg` that is missing or no text is an
  error without a message (`Message`).
- Callbacks "are called from this pool rather than using the io_context's thread" (H:347): a 404
  uses the overload of fail without a pool (R:218, `CallsHere`).
- Failures overtake results: "handlers are called in-order" (W:81) holds of the
  valid messages only (`DataInOrder`), since a message that does not parse is reported
  while older ones wait in the queue.
- A renewal that Binance refuses is reported as Fail and then as Success, because amendUserDataListenKey returns
  `!m_listenKey.empty()` in every mode (H:304, 316): `key_due` shows the first step of it.
- `hasErrorCode(true)`, which the extender uses (X:41), finds null JSON in a response that was built from a reason,
  returns false and sets its state to Success. What Binance says when it refuses a renewal arrives as such a response
  (H:305-306), so the extender prints that renewal as a success. `FailureStays` therefore speaks of `hasErrorCode()` only.
- A token is promised to be that of its startWebSocket (H:133), but two threads may load the
  same id (CPP:225-226); the second session takes the first one's place in the map, and a stop with either token closes it.
  `registry_stops` has such threads: `StopReachesOwn` and `TokenNamesSession` say that nothing else does this, and
  `OnlyOverlapShares` that ids are shared in no other way, until 2^32 streams were started.
- Values are written into the target as they are given (CPP:191, 204), and nothing asks for them to be encoded: one with a `&`
  is read as another request.
- A signed request without parameters is sent without timestamp and signature (CPP:175), which
  H:98-100 does not say: `ReadAsAsked` states when there is a signature.
- "Encode the string as a URL" (H:171): urlEncode is wrong for every byte from 128 up, of which both digits are. `ValuesArrive`
  promises ASCII values only.
- A second start() assigns to joinable threads, which ends the process; the
  model calls start() once.

### Bounds

- `WsSession`: the capacity is the code's own, 4. Six messages are one in the handler,
  four queued and one held by `Do()`, so every length of the queue occurs with the reader
  blocked and not. Two stops are enough for a stop to meet another in each state of the close; a third adds
  only a larger count.
- `Responses` has no bound: its state is finite.
- `RestSession`: start() is given no context, one, and more than the two it is allowed (24 in the code), so the clamp
  acts and the index wraps. With three requests two share a context while a third does not, and
  two callers can hold the same load. Two pool threads let handlers overlap; one handler that sends is
  enough to meet the destructor before, in and after the destruction of its context.
- `WsRegistry`: two threads are the interleavings of two calls, and callbacks and the destructor are further parties. Two
  sessions are one that is stopped and one that another thread creates or stops meanwhile, with the same id or another; two stops of a
  token meet each other in each step. Three ids (`IdMod`, 2^32 in the code) are one more than the sessions, as in practice, and
  few enough for the wrap to happen. `registry_race` needs one session.
- `ListenKey`: two keys tell the account's key from an older one; one refusal
  lets the double report and the aborted wait occur, which then recur by themselves.
- `Requests`: two parameters (`MaxParams`) are a separator between and one after; three streams (`MaxStreams`) of two names
  have one that is neither first nor last; of the two values
  one can stand in a query as it is, though it has a `=` and a `?`, and the other (space, `&`, `%`, `+`, the last ASCII
  character) only when encoded. `Bytes` are both ends of each range that urlEncode and the reader tell apart; the theorem
  has every byte and every text. Two threads suffice for `request_race`; one thread's state does not depend on another's but
  for the digest.
- `Examples`: three scanners are the three markets of the program. Two spurious returns let
  both waits of a program end early.

### Fairness

- The io threads, the pools' threads and the timer run (`WF` per step): each is
  a thread the operating system schedules. Users' handlers are assumed to return; the library
  can promise nothing otherwise.
- `SF` for `CloseHandshakeEnds` and `CloseCallback`: reads of the same
  stream keep the io thread busy and disable them again and again, but an io_context runs ready handlers in the order they
  became ready, so neither is passed over for ever. The closing handshake ends by Beast's own timeout (W:193).
- REST operations complete: connect, handshake, write and read have time limits (R:164, 190, 203),
  the resolver gives up by itself. `WF` is per request.
- `Examples`: main and the scanners' threads run, and a request that was sent is answered, which
  is what `RestSession` shows of a started object. A wait is woken by a notification only.
- No fairness for messages arriving, for connecting a WebSocket, for
  stopWebSocket, for sendRestRequest, for the destructor: nobody owes those.

## Proofs

Each theorem holds for every value of the constants that the named assumptions of its module admit;
those say that bounds are naturals, that a queue has room for one element, that there is a context
and a thread, that values are bytes and names words, and nothing more.

| module | theorem | property |
|---|---|---|
| `WsSession_proofs` | `TypeCorrect` | `TypeOK`, with the bound on the queue |
| | `MessagesKept` | `NothingLost` |
| | `QueueOrdered` | `QueueInOrder` |
| | `HandlerInOrder` | `DataInOrder` |
| | `OneDisconnectPerStop` | `DisconnectPerStop` |
| | `OpenStopsClose` | `OpenStopCloses` |
| | `WorkOutlived` | `WorkKeepsAlive` |
| | `ImplementsStream` | `Spec => Stream!StreamSafety` |
| `RestSession_proofs` | `TypeCorrect` | `TypeOK` |
| | `AnsweredOnce` | `OneAnswer` |
| | `ContextsBeforePool` | `ContextsGoFirst` |
| | `MisuseOnly` | `OnlyMisuseCrashes` |
| | `ImplementsCall` | `Spec => Promise!CallSafety` |
| `WsRegistry_proofs` | `TypeCorrect` | `TypeOK` |
| | `SharingNeedsOverlap` | `OnlyOverlapShares` |
| | `TokensName`, `StopsReachOwn` | `TokenNamesSession`, `StopReachesOwn` |
| | `CrashNeedsSecondStop` | `OnlySecondStopCrashes` |
| | `SessionsEnd` | `SessionsEndFirst` |
| `ListenKey_proofs` | `TypeCorrect` | `TypeOK`, with the bound on the completed waits |
| | `OwnKeyOnly` | `StreamOnOwnKey` |
| | `FailuresReported` | `FailureReported` |
| `Responses_proofs` | `TypeCorrect`, `FailuresStay` | `TypeOK`, `FailureStays` |
| | `AnswersAgree` | `SameAnswer`, an action property |
| `Requests_proofs` | `TypeCorrect` | `TypeOK` |
| | `ReadsWhatWasAsked` | `ReadAsAsked` |
| | `ValuesRead` | `ValuesArrive` |
| | `SignatureOwnIfSerial` | `Spec /\ []Serial => []SignatureIsOwn`: if no two threads sign at once |
| | `KeysApart` | `KeysStayApart` |
| `Examples_proofs` | `TypeCorrect`, `OwnReplies`, `LateRepliesOnly` | `TypeOK`, `WaitsForOwnReply`, `OnlyLateRepliesCrash` |

The invariants are not inductive one by one. Each module has an `IInv`, their conjunction with
what they lean on, and the theorems follow from `Spec => []IInv`.

`WsSession_proofs`:

- `Numbering`: nothing called, queued or marked `good` is newer than the last message read, and what is held is
  that message; needed for `NothingLost` and for the order, where a new message must be newer
  than all others.
- `ChainState`: which `io` goes with which `op`: a blocked or failing on_read has no operation pending, so that a result
  is not held while another is read; until the handshake is over the stream is closed and no close waits for it.
- `CloseState`: a stream stopped while open is closing or done, and while it is closing a
  close waits for it; without it `OpenStopCloses` does not survive the close callbacks.
- `Lifetime`: a destroyed session, or one in its destructor, is not registered and has no operation and no callback.

Each has a lemma for the step (`NumberingStep`, `ChainStep`, ...), with one proof step per action that
can disturb it; the actions that touch none of a conjunct's variables are
dealt with once, by `OthersMoveNothing`. `ImplementsStream` uses the same invariant to show that each action is
`Take`, `Give`, `Stop`, `Answer`, `End`, or changes nothing of the promise.

`RestSession_proofs`:

- `Life`: which phases have how many contexts destroyed, and what a phase leaves running.
- `Indices`: while there are contexts, the next index and every index loaded is below their number.
- `Callers`: who is sending was not sent yet, and a handler that sends is running.
- `Places`: a request is before its session, in one operation, once in the queue, or called once.
- `Alive`: operations and handlers on io threads belong to contexts that are there.

`ImplementsCall` is then a case per action; the destructor's steps move the requests of one
context to `dropped`.

`WsRegistry_proofs` asks nothing of the application. Its invariant has these parts:

- `CallsKnow`: in each step of a call the thread knows a session whose token is out, or one it is constructing.
- `Drawn`: as long as no two threads drew at once and there are ids left, a session's id is its number and the next id the next number; two sessions
  of one id therefore need an `overlap` or `IdMod` sessions.
- `OwnEntries`: an entry holds a session that has its id, or null; so do targets and captures.
- `Named`: a session whose token was not stopped is under its id, or the id is shared: an erase goes to the id of a stopped token.
- `TwoStops` and `Missing`: where an entry is missing, its id was stopped before, and a thread that is between its find and its use of the entry
  is itself one of the stops counted; so a null session takes two.
- `Ends`: what is left in each phase of the destructor.

`ListenKey_proofs`: `Steps` ties a call's place to its mode and answer, with Create and Close for the application's
thread only; `OwnKey` follows the key from the answer to the stream; `Told` follows the verdicts; `Rearmed` bounds the
completed waits by counting: waits pending, completed and being handled are one more
than the failures reported.

`Responses_proofs`: every answer given so far is still the verdict on the JSON, though each call writes the response; a response built
for a failure keeps null JSON, which is never asked for a message.

`Requests_proofs` is mostly about texts. What a target is read as depends on functions defined by recursion over it, and
their values are proved by induction: the library's induction theorems take an operator for the
property and cannot be instantiated here, so `NatSetInduction` and `SeqSetInduction` in `SequenceLemmas` take a set, of the numbers or
sequences that have it, and are proved from the least element of its complement.

- `SplitAppend` and `DecodingAppend` are the equations of the two readers for one byte more; `SplitIsLast` and `DecodingIsLast` show that the
  recursive functions behind them exist.
- `SplitJoined`: parts without the separator, each with one behind it and then a rest without it, are split into the parts and
  the rest. `NonEmptyParts` then drops the empty rest after the last `&` or `/`.
- `EncodedByteRead` goes through the bytes: an ASCII byte is read back from what `EncodedByte` makes of it. `DecodedEncoded` lifts it to texts:
  after each byte the decoder is between two escapes. `DecodedPlain` is the text that was not encoded and has nothing to decode.
- `urlEncodeType`, `EncodedFits`: whatever urlEncode returns can stand in a query.
- `FirstIs`, `ReadAround`: what stands before and after the first `=` or `?` of a text; a raw value may have more of them.
- `HexRead`: `b2a_hex` loses nothing of the digest. `SignedRead`, `PlainRead` and `CombinedRead` put this together for the three targets,
  if no text has a `&` (`FitsApart`). `SignatureRead` needs no such condition: the signature has none, so the last part of the query is its own.

The state machine then adds little: what a thread sent is one of the three targets of what it was asked, with some digest (`IsTarget`), which
is enough for `ReadAsAsked` and `ValuesArrive` with any number of threads. Whose digest it is, is
another matter: `SignatureIsOwn` is false of two threads (`request_race`), and `Serial`, which says that they do not sign at once, is what
the application must see to; then the array holds the digest of the thread that signs (`DigestIsOwn`). The code does nothing to keep it.

`Examples_proofs`: each program is `WellFormed`: a request is sent once and waited for in the next step, a scope is left after the wait, and only the
test case has a timeout, once. The invariant says that a request was sent, and a condition variable left, by a
step already done (`SentBefore`, `LeftBefore`); the rest follows from the form and not from the
program, so it holds of any other program of this form.

Only model-checked: every liveness property and the fairness of the two promises, whose proofs need ENABLED. Every invariant
and action property of the passing runs has a theorem, `SignatureIsOwn` under the hypothesis `Serial`.

## What is outside

- Beast, Asio, OrderedThreadPool, OpenSSL and `std::map` are not in the
  repository. They are modelled from how they are used: thread_pool and io_context first come, first
  served; `async_close` completing at once on a stream that is not open; Do()
  blocking when full and calling in order (W:98-102). Whether a second `async_close` is legal
  while one is under way is Beast's to say; it is modelled as waiting for the same handshake.
- `close()` runs on the application's thread and not on the stream's strand
  (W:126). That is a data race inside Beast, which has no outcome that can be modelled.
- The contents of JSON, HTTP and TLS: they decide only which branch is taken, and every
  branch is taken.
- Memory: sessions that fail stay in the map until stopped or destroyed (CPP:143). The state is there
  (`Quiescent` with `registered`), no property is, since nothing says it should not be so.
- `steady_timer` used by two threads (X:26) is a race inside Asio, like that of close().
- The certificates (SslCertificates.h, H:149-167) are constants handed to OpenSSL.
- neworder.cpp sends one request and waits for it as rest.cpp does, and has no program of its own. combinedstreams.cpp starts streams, sleeps, and
  ends: main does nothing that interleaves with the library but to destroy it, which `WsRegistry` and `RestSession` have.
- testwebsockets.cpp and testuserdata.cpp are not modelled as programs. They wait on condition variables without a predicate, with a timeout
  (waitReply) or without (testuserdata.cpp:77), as `TestCase` and `RestExample` do. Their stream handlers capture locals of the
  test by reference (testwebsockets.cpp:65-70, 125-130; testuserdata.cpp:95-104), and those streams go on after runTest has returned, since
  `m_bb` is the fixture's: each later message finds its captures gone, as the late reply of `TestCase` does. A handler that is called
  again and again is not in the program model. DisconnectWsTest also stops its stream (testwebsockets.cpp:139-145);
  `WsSession` and `WsRegistry` have the stop.
- `WsSession` has the session's end by stops, errors and the last shared_ptr; that ~BinanceBeast clears the map and joins the io_contexts under a session
  with work pending (CPP:22-31) is in `WsRegistry` for the map and the callbacks only.
- `ListenKey` has one user data stream, started and closed by main as userdata.cpp does. README.md:228 would allow a handler to call
  startUserData; two of those calls at once are not modelled.

## Plan

Done: the components above, with the refinements of `RestCall` and `WsStream` and the proofs listed.

What would add most from here:

1. Sessions composed with the registry: the stop of `WsRegistry` driving the close of `WsSession`, with
   two sessions on one io thread, so that one blocked `Do()` delays another session's
   stop. Each half is modelled; the other sessions show in `WsSession` only as delay.
2. `Responses` composed with `ListenKey`: the state the extender's handler sees and what it
   prints (X:41), by the operators of `Responses`.
