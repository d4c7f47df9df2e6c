# gocoon: TLA+ specifications

gocoon is a Go client for the COCOON network. A client keeps TLS sessions to
proxies, multiplexes queries and inference streams over each of them, registers
and pays on the TON chain, and the runner (`cmd/gocoon-runner`) serves an
OpenAI-compatible HTTP interface on top. This directory models the client
library, the runner and the commands that change state, checks them with TLC and
proves with TLAPS the safety properties of all modules but two, and for those two
(`Wire` and `ToolCalls`) the properties of the functions they are built on.

## Inventory

| Part | State | Operations | What makes it correct |
|---|---|---|---|
| Query layer (`correlator.go`, `transport.go`, `awaitQuery`, `WorkerTypes`) | map id -> pending query, two channels per query, closed flags | register, deliver, fail, failAll, gcExpired, SendQuery, read loop, closeWithErr | every query resolved once, with its own answer; every caller returns |
| Streams (`inference.go`) | table of streams, a 16-slot channel each, done, closeOnce, sendMu | RunQuery, dispatchPacket, send, close, watcher | no panic, order, no gap, every stream ends, the reader never blocks |
| HTTP collectors (`openai_passthrough.go`) | bytes and last error | collectAndRespond, collectTranslateRespond | a translated answer is complete |
| Session pool (`client.go`, `session.go`) | map address -> session, closed; status, transport, done per session | ConnectProxy, DisconnectProxy, Client.Close, connect, Session.Close, removeOnTransportClose | no store after Close, no leaked connection, dead sessions leave, calls return |
| Handshake and keepalive (`handshake.go`, `transport.go`) | step reached, timers | tcp.connect, connectToProxy, register, authorize, ping | authorization only after registration; bounded waits; an idle session is kept |
| Registration (`registerOnChain`) | what it read of the contract | register message, top-up message | the stake is reached and nothing bounces as long as the wallet's transactions send, nothing is paid twice without need |
| Broadcaster (`broadcaster.go`) | wallet seqno | query seqno, sign, send, confirm | success only with a transaction of the wallet, one winner per seqno |
| Channel operations (`payments.go`, `control_plane.go`) | one request | topup, withdraw, close | "sent" means that the wallet has a transaction of what was asked |
| Framing and TL (`pkg/tl`) | two frame counters; reader position | WriteFrame, ReadFrame, encoders and decoders | round trip, strict sequence, no decoding of a cut message |
| Router (`pkg/router`) | one connection, its deadline | dial, proof of work, TLS | no leak, bounded, the answer the peer asked for |
| Contracts (`pkg/contracts`) | cells | readers and encoders of parameters and storage | the client rebuilds the address the proxy announces |
| Store (`pkg/store`) | root, client and payment tables | get, put, delete, list, GC | both implementations are the same table |
| Discovery (`cmd/gocoon-runner`) | RunnerState, retry loop | runDiscovery, tryConnectFirstProxy, /jsonstats | what /jsonstats says is true of one session |
| Pass-through and tool calls (`cmd/gocoon-runner`) | one request; token sequences | handleChatCompletions, translation both ways | results survive, and calls up to the decoding of their arguments; model and proxy belong together |
| Commands (`cmd/gocoon`) | files; account snapshots | init, config generate, wallet withdraw | no key lost, a confirmation is true |

The parts interact as follows. The pool owns sessions; `Session.connect` dials
through the router, starts one transport with its correlator and runs the
handshake, which registers on chain through the broadcaster. The transport's read
loop resolves queries, hands packets to the streams and answers pings; closing a
session closes its transport, which fails every query and makes every stream's
watcher end its stream; the death of a transport makes the watcher of the session
remove it from the pool. The runner's discovery connects one session and
publishes it; the chat handler picks a ready session, asks it for its workers and
runs the query as a stream.

`PROJECT.json` lists the components with their status, and the hazards with the
line at which each bites.

## Modules

| Module | Models |
|---|---|
| `QueryService` | what a caller of the query layer is promised: accepted calls are resolved once and eventually |
| `Correlator` | the query layer; implements `QueryService` |
| `Duplex` | both directions of a connection: the read loop, which writes pongs, and the writers' lock |
| `Framing` | frames and sequence numbers over a connection that breaks |
| `Primitives`, `Wire` | TL primitives, and every message's encoder and decoder over bytes |
| `Streams` | RunQuery, its watcher, the read loop's dispatch, the HTTP collectors |
| `SessionPool` | the Client's sessions and the life of each one |
| `Router` | DialProxy: dial, proof of work, TLS, deadlines |
| `Handshake` | runHandshake and the keepalive, in time |
| `WalletService` | what the broadcaster promises: executed at most once, success only if executed |
| `Broadcaster` | broadcasts racing for the wallet's seqno; implements `WalletService` |
| `Registration`, `Channel` | registerOnChain and the channel commands, composed with `WalletService` |
| `Contracts` | parameter and storage cells, the address check of registration |
| `StoreService` | what `store.Store` promises |
| `MemStore`, `BoltStore` | the two stores; both implement `StoreService` |
| `Runner` | discovery, the balance poll, /jsonstats, shutdown |
| `Passthrough`, `ToolCalls` | the way of a chat request, and the translation of tool calls |
| `ToolText` | the text of tool calls, which `ToolCalls` is built on: JSON strings, spans between tags, CDATA sections |
| `Withdraw`, `Setup` | wallet withdraw; init and config generate |
| `TransportProofs` | theorems about `Correlator` and `Framing` |
| `BytesProofs` | theorems about `Primitives` |
| `StreamsProofs` | theorems about `Streams` |
| `SessionProofs` | theorems about `Router`, `Handshake` and `SessionPool` |
| `OnChainProofs` | theorems about `Broadcaster`, `Registration`, `Channel` and `Contracts` |
| `StoreProofs` | theorems about `BoltStore` and `MemStore` |
| `ProgramProofs` | theorems about `Runner`, `Passthrough`, `Withdraw` and `Setup` |
| `TextProofs` | theorems about `ToolText` |
| `FrameStream`, `ChatRunner` | `Framing`, and `Runner` beside `Passthrough`, as the runs and the proofs share them |
| `MC...` | the instances for TLC, one per layer |

Conventions. A critical section of a mutex is one step, and what a function does
after the unlock is another. Names of actions and operators follow the source.
An operator `X_Something` preceded by the comment "Mutant" is a wrong version of
`X`, kept to show that a property notices it; no specification uses it. Payloads
are abstracted: an answer is the call whose frame was answered, a chunk is its
number, finality and error flag.

### Correlator

One process per `SendQuery` (`pc`), the read loop (`hand[Reader]`, `frame`), the
GC ticker and the closer (`tr`, `drain`). `hand[w]` is an entry a goroutine has
deleted from the map and not yet sent to, the window between unlock and channel
send in `deliver` and `fail`. The proxy is any environment that answers a frame
it may have received: late, repeatedly or never. Query ids may collide with one
in flight; a draw that repeats a retired 64-bit id is excluded (`newQueryID`).

### Streams

Each request has one goroutine, `RunQuery` and then its watcher; the read loop is
the other. `at[w]` is the place of goroutine `w` inside `send` (`lock`, `push`)
or `close` (`once`, `shut`, `closing`). `lost` records streams that dropped a
chunk to a full channel.

### SessionPool

A session is named after the ConnectProxy call that created it. `doomed` are
sessions whose `Close` some goroutine has decided on, `closing` is the progress
of the `closeOnce` body, `held` whether it found a transport. `lost` are sessions
overwritten in the map and `dropped` those their own user closed; neither is
read by any action. The handshake is one step with two outcomes. A read
loop sees its cancelled context only between two frames (`RunCancelled`).

### Duplex and Framing

`Duplex` has the read loop and writer goroutines contending for `writeMu`. The
read loop answers a ping by writing, so it waits for a writer that holds the lock
inside a write, and that write, which has no deadline, waits for the peer. The
peer is any environment. `Framing` is one
direction of it: a frame is a header and payload bytes written by two calls
under the lock, and breaking loses a suffix of what was written. The two limits on
the size of a frame are constants.

### Wire

An encoder is the list of fields it writes, a decoder the list of fields it
reads; both are translated apart, from the two pieces of code, so that they can
disagree. A message is encoded, accepted or refused by the size limit, cut
anywhere, and decoded. Bytes have base 6 instead of 256, which keeps the short and
long length forms, padding and the frame limit within some two hundred bytes.
A message whose other side is the proxy uses the TL schema quoted in the code for
that side.

### Handshake and Router

A tick of `Handshake` is ten seconds, the keepalive interval; a timer that is due
fires before the next tick. The proxy may answer anything or nothing. `Router`
has one action per stage of DialProxy, the peer's challenge as input and the hash
as a function of the challenge and the nonce that is chosen arbitrarily.

### Broadcaster, Registration, Channel

`Broadcaster` has one process per broadcast and the wallet contract as
environment: it executes a sent message whose seqno is current, at any time until
it expires, also after its caller gave up. A get-method error is taken by the
code for a wallet that does not exist. `WalletService` hides seqnos.

No error from the broadcaster means that the wallet has a transaction of the
message (`broadcaster.go:140`). Whether that transaction sent the message is only
logged (`broadcaster.go:325`): when its action phase fails, for want of funds say,
nothing leaves the wallet, whose data is then kept or rolled back (`RunEmpty`).
`void` are the calls with such a transaction, `log` those whose message left.

Registration and channel commands are composed with `WalletService`: their
broadcasts are its calls, and the client contract receives what is in `log`, later
and in order. An attempt whose register message is in `void` may top up a contract
that does not exist; its top-up is then in `bounced`.

### Stores

The state of `MemStore` is its three maps and which entries are the caller's own
object; that of `BoltStore` is a file of buckets whose transactions commit whole
or not at all, with crash, Close and reopening. The refinement mapping of each
rebuilds the one table of `StoreService`.

### Runner, Passthrough, ToolCalls

`Runner` keeps the two critical sections that publish a session apart, since
/jsonstats reads between them. Its initial state assumes that the lite client
could be built. `Passthrough` has one action per step of the handler; sessions and
worker lists change between them.

A body is decoded more than once. The model is looked up, and the tools are looked
for, in a struct, which takes a key in any letter case and lets the last occurrence
win (`Requested`, `requestHasTools`); it is rewritten and translated as a map, which
holds a key per spelling, and written again in the order of the keys (`InMap`,
`Marshal`). So `model` and `tools` are sequences of occurrences, exact or with
capitals. `SentAsResolved` says without condition which model and session the query
is for. That the body names that model is claimed unless the struct reads the
model from an occurrence the map does not read, and that it is plain unless
"tools" is spelled with capitals.

`ToolCalls` is the translation as functions on token sequences, run over every short
conversation and answer; what it does to the tokens themselves is in `ToolText`, as
recursive functions that can be proved about. The arguments of a call in the history
are of six kinds (`Marshal`). `Decoded` is what the detour through an `any` value does to
them: integers beyond the 53 bits of a float64 are rounded (3 bits in the run), and
a text that is no JSON, the empty one included, is sent as a string. White space, the
order of keys and the wording of numbers are not modelled. `HistoryKept` says what is
kept of each kind, for messages whose own text has no tags: an open think tag there
hides the calls behind it. `AnswerSplit` says what an answer shows, and takes no side
on the malformed blocks of an answer without a call (see the disagreements).

### Withdraw and Setup

`Withdraw` is the two snapshots, the sweep and the poll, against deposits and a
runner that uses the same wallet. `Setup` is the files that init and config
generate write, with each command killed at any step; `Concurrent` says whether
commands may overlap.

## Runs

There is one passing run per layer. Where a layer has several modules that share
no state, or describe the same thing at different grains, its `MC` module puts
them side by side: a variable chosen in the initial state says which of them runs,
and the others stay in an initial state. The state space is the sum of theirs,
not the product, and each property is about the module it comes from.

| Run | Instance | Shows |
|---|---|---|
| `correlator` | 2 calls (one as WorkerTypes), 2 ids | one owner per query, no crossed answers; callers return; refinement of `QueryService` with its liveness |
| `connection`: `Wire` | base 6, payloads around every length limit, every combination of optional fields | every message decodes as sent when whole, and is refused or reads the same when cut |
| `connection`: `Framing` | 2 writers, 2 writes each, seqnos of 2 bits, sizes around both limits | frames arrive whole and in order, and the reader meets no error but the break |
| `connection`: `Duplex` | 2 writers, window 1, 2 pings | Close frees the read loop and every writer; with a peer that reads, every ping is answered and no answer is held up |
| `bringup`: `Router` | 3-bit words, difficulty to 2, nonces to 2 | no leak, the dial returns |
| `bringup`: `Handshake` | the code's timeouts in ticks: 3, 3, 30, idle 6 | Ready means registered and accepted, kept alive; the handshake ends, a broken session is closed |
| `streams` | 1 request, capacity 2, 4 parts | no panic, no gap, complete unless a chunk was dropped; streams close, the reader returns although the handler may stop |
| `pool` | 2 calls, 1 address | nothing stored after Close, no leak but the overwrite; calls return, dead sessions leave, a Close before the dial sticks |
| `onchain`: `Broadcaster` | 2 calls, 1 foreign message | refinement of `WalletService`: sent at most once, success only with a transaction of the wallet |
| `onchain`: `Registration` | 2 attempts, stake 2, charge 1 | the stake is reached and nothing bounces, unless a wallet transaction sent nothing; no overpayment |
| `onchain`: `Channel` | a command and its repetition | "sent" means that the wallet has a transaction of what was asked |
| `onchain`: `Contracts` | struct versions 0 to 6, 2 codes, amounts 0 and 1 | a mismatch of addresses means the root changed; readers and encoders agree |
| `stores` | 2 proxies, 1 request | both stores implement `StoreService`, with aliasing and with crashes |
| `runner`: `Runner` | 2 endpoints, 2 balances | the lists never mix two sessions; loss is reported |
| `runner`: `Passthrough` | 2 models, 2 sessions, bodies with "model" or "tools" up to twice, in either spelling | the query names a model of the session it goes to; the forwarded body names it too and does not stream, as far as struct and map agree |
| `runner`: `ToolCalls` | 2 messages, 4 pieces of answer, arguments of every kind | results and definitions survive the translation, and calls but for what decoding changes in their arguments |
| `commands`: `Withdraw` | 3 transactions, balances to 3, with a runner | a confirmation nobody disturbed is true; every sweep is recognised |
| `commands`: `Setup` | 2 init, 1 forced, 1 generate, one at a time | success leaves a matching pair; only --force replaces a key |

Three further runs fail, see below: `streams_error`, `pool_release` (3 calls) and
`withdraw_drained`.

Bounds. Two calls are the least that show two resolvers racing for each other's
entries, or one call evicting the session of another; the overwrite of a third
call's session, and nothing else in the pool, needs three, and `pool_release` has
them. A capacity of 2 stands for 16: overflow needs one part more than the
capacity. One address is enough in the pool because addresses share only
`closed`. Two broadcasts and a foreign message give a winner, a loser and a seqno
that moves under both. Seqnos of two bits pass the sign and the wrap within four
frames. Two endpoints, models or sessions let the first be the unusable one. The
theorems remove these bounds for the properties they state.

Fairness. Goroutines that can go on do; timers and the GC ticker fire. A dial ends
by the deadline of `DialProxy`, and every wait for an answer in the handshake by
its timer. Two parts of the handshake have no bound of their own, and
`ConnectReturns` and `BringUpEnds` assume that they end: its writes have no
deadline (three short frames, which fit the send buffer of a fresh connection),
and the wait for the register transaction is bounded by the TON library or the
caller's context. Nothing makes the proxy answer, the network fail, a context end
or a blocked write return while the connection is open. Module by module:

* `Streams`: `StreamSpec` lets HTTP handlers stop for ever.
* `SessionPool`: a cancelled read loop eventually sees a frame or the end of its
  connection: the keepalive has stopped by then and the proxy drops an idle
  connection after 60 s (comment at `transport.go:184`). `Handshake` has the same
  timer of the proxy (`IdleDrop`).
* `Duplex`: a goroutine that waits for `writeMu` gets it if it is free again and
  again (a Go mutex does not starve a waiter), hence SF of `Lock`. A peer that
  reads is the premise of `Served`, and of nothing else.
* `Runner`: the discovery goroutine goes on, its one-second poll included, and
  /jsonstats is asked again. Nothing makes an endpoint or the chain answer.
* `Withdraw`: the poll goes on until its timeout, and a fetch that is tried again
  and again succeeds once (SF).
* `Router`: the deadline passes.

A module that does not run is never obliged to move: where an action that is fair
in it is enabled in its initial state, the `MC` module states its fairness for the
case that it runs. All runs but `stores` say `CHECK_DEADLOCK FALSE`: all calls of
an instance may have returned.

### Disagreements between code and comments

Three runs state what a comment or a document says and fail on what the code does.
`PROJECT.json` quotes the sentences.

* `streams_error` (`RefusesIncomplete`): a full channel drops the final error
  chunk too, so a translated response can be 200 with a truncated body. What does
  hold is `CompleteUnlessFull`.
* `pool_release` (`CloseReleasesAll`): a session overwritten by ConnectProxy
  after its relock stays open after `Client.Close`. What does hold is `Accounted`:
  no connection is left over in any other way.
* `withdraw_drained` (`ConfirmedMeansDrained`): a deposit to a wallet that is not
  deployed confirms a withdrawal that has not happened. What does hold is
  `QuietConfirmation`.

Other places where the models, which follow the code, differ from what is written
beside it. No run is about them; they are noted for whoever changes the code.

| Written | The code | Model |
|---|---|---|
| "opens (or returns the existing) Session" (`client.go:344`) | a second call closes a session that is still connecting | `SessionPool`, `ConnectEvict` |
| "Close terminates the session" (`session.go:182`) | `connect` sets Ready also after a Close (`session.go:149`) | `SessionPool`, `SetReady` |
| "Optional secret_string used for the short-auth path" (`types.go:45`) | `AuthSecretHashOK` is never true, so short authorization is never chosen | `Handshake`, `PickAuth` |
| "We never lie about readiness now" (`discovery.go:56`) | a lost session is shown until the one-second poll; `LossIsReported` holds | `Runner`, `waitSessionReadyOrContext` |
| "the background loop that: 1. Fetches the registered proxy list" (`discovery.go:15`) | the list is read once, and an error ends discovery | `Runner`, `NoProxies` |
| "updates state.WalletBalance every 30s" (`discovery.go:177`) | only for an active account | `Runner`, `pollWalletBalance` |
| "always cleaned of think and tool_call blocks" (`tools_translate.go:425`) | not of a malformed block when no call is recovered | `ToolCalls`, `translateResponseBody` |
| "`stream:true` is force-disabled" (`openai_passthrough.go:20`) | not when "tools" occurs only in another letter case | `Passthrough`, `translateRequestBody` |
| "Extract model from JSON for routing" (`openai_passthrough.go:53`) | a model named in another letter case, or again, routes the query, while the forwarded body keeps what it has under "model" | `Passthrough`, `NamesModel` |
| "If `tools` is missing or empty, returns the input unchanged" (`tools_translate.go:110`) | empty tools are deleted, with tool_choice | `Passthrough`, `translateRequestBody` |
| "one JSON document" (`openai_passthrough.go:18`) | an error after some bytes is answered 200 with what there is | `Streams`, `Respond` |
| "already exists; pass --force" (`main.go:563`) | check and write are two steps, so two overlapping inits may overwrite; `KeepsWallet` holds one at a time | `Setup`, `Stat` and `Truncate` |
| "the bytes already consumed must be preserved" (`pow.go:52`) | they are dropped | `Router`, `ReadChallenge` |
| "Request sent" (`control_plane.go:279`) | the wallet has a transaction of the message, which may have sent nothing | `WalletService`, `SendNothing` |
| "default 1 TON if absent" (`control_plane.go:293`) | the message carries 0.5 TON whatever amount it names | `Channel`, `Message` |

## Proofs

All theorems are of the form `Spec => []P`, for any values of the constants that
satisfy the assumptions below, except the refinements (`Refinement` twice,
`BoltImplements`, `MemoryImplements`), the action property `OverpaysNever`, the
two theorems of `ProgramProofs` about `Setup`, which are about commands given one
at a time, and five theorems about functions (`BytesReadBack`, `ReadStaysInside`,
`ResultReadsBack`, `CallExtracted`, `StripIsOutside`), which hold for any
arguments. The invariants of the query layer, the frames, the streams, the
registration, the channel and the handshake were also model-checked on the
instances; those of the stores and the cells quantify over values TLC cannot
enumerate. A leaf that SMT is slow on or cannot prove names its backend and a time
limit, so that the proofs also go through on a busy machine.

Assumptions. They are few, and TLC evaluates each on its instance.

| Assumption | Where | Why the code meets it |
|---|---|---|
| `CallsAssumption` and its like | the modules that declare the constants | names of different kinds of things differ; bounds are numbers |
| `WritersAssumption` | `FrameStream` | a writer is not the value that says writeMu is free |
| `PayloadAssumption` | `FrameStream` | the size limits are numbers, and the lower one is 4 (`frame.go:15`) |
| `PrimitivesAssumption` | `Primitives` | a byte has 256 values; at least 4 keep 0xfe and 0xff apart from the short lengths |
| `IdleAssumption` | `MCBringUp` | the proxy drops after 60 s, a ping goes every 10 s (`transport.go:184`) |
| `StakeAssumption` | `MCOnChain` | the stake is an amount of coins |
| `VersionAssumption` | `MCOnChain` | the root stores its struct version in a byte |
| `NoneAssumption` | `BoltStore` | a stored object is not nil |
| `RequestAssumption` | `ChatRunner` | the body of a request is one of the bodies the handler tells apart |

`MCConnection` reaches recursive operators and `MCRunner` is too large for the
prover, so what the runs and the proofs have in common about `Framing` and
`Passthrough` is in `FrameStream` and `ChatRunner`, which both extend.

### Query layer and frames

`TransportProofs`. `SingleOwner` is not inductive: one must also know that an
entry of the map is the call registered under that id and ids are unique
(`MapOwn`, `UniqueIds`), what a goroutine holds while it is between unlock and
send (`HandOwn`), what each place of a call implies (`CallState`), that answers
in flight carry their own call (`OwnAnswer`), and the stages of shutdown
(`CloseState`). From the same invariant: `AnswerMatches`,
`ClosedMeansResolved`, and that each step is a step or a stutter of
`QueryService` (`Refinement`, its safety part).

`DeliveredInOrder` says nothing of what is on the wire. `Layout` gives every frame
that took a seqno its place and its seqno: the frames lie back to back (`Chained`),
the units on the wire are theirs (`Placed`), the reader is where its last header
says (`ReadEnd`), and the writers are at the end of the last frame, or one of them
is between its header and its payload (`WriteEnd`). A break only shortens the
wire. The proof uses nothing of how seqnos wrap, only that both sides do it alike,
and holds for any limits on the size of a frame.

### Byte strings

`BytesProofs`. `BytesReadBack` is the argument that a reader of the code makes by
cases: the length prefix is read as it was written in both forms (`PrefixReads`,
which needs that three digits in base `Base` name one number, `Digits`), then the
bytes, then a padding whose size both sides compute from the same two lengths. The
string may stand anywhere in a buffer, and the buffer may end in it.
`ReadStaysInside` assumes nothing of the bytes.

### Streams

`StreamsProofs`. `NoPanic` needs that the goroutines inside `push` and
`closing` hold the stream's mutex (`Locked`), that at most one goroutine runs
the `closeOnce` body (`OneCloser`), and that `done` precedes the close
(`CloseOrder`). `InOrder` and `Gapless` need a second invariant, relative to the
first, about what was received followed by what is in the channel (`Flow`): it
increases (`Increasing`), the part in the reader's hands is newer than all of it
(`Newest`), an open stream whose request is out is in the table (`Listed`), and
so it lacks a part only if the stream dropped one (`NoGap`).

`CompleteUnlessFull` needs a third: a stream that dropped nothing and carries no
error has exactly the parts 1, 2, 3 and so on (`Counted`), whoever closes a stream
has sent it a final chunk (`Ended`), and what was answered was read to its end
(`Answered`). An answer without an error then holds a final part and all before it.

### Dial, handshake and session pool

`SessionProofs`. For the dial, what each stage implies for the connection
(`Stages`), and that all nonces below the current one were tried and refused
(`Searched`), for every hash function. For the handshake, what is known at each
step (`Reached`): the answer of one query is used up before the next is sent, so an
"ok" during the authorization is the answer to that query. For the keepalive, that
the clock does not pass a ping that is due (`Beating`), so at most one interval has
gone by since the last one.

For the pool, `Ledger` says that a created session is registered, doomed
or lost and one not yet created is none of these; `PoolStages` says which calls
have created theirs. `Accounted`, `MapHoldsLive` and `ClosedStaysEmpty` follow.

### Chain

`OnChainProofs`. For the broadcaster: a message not sent is not executed
(`Unsent`), an executed one has a seqno the wallet has passed (`Spent`), a message
that deploys has the first seqno (`DeploysFirst`), and a success has
a transaction of the wallet (`Honest`). From these: one winner per seqno, one deployment, and the refinement of
`WalletService`.

Registration is proved over `WalletService`, not over the broadcaster: what each
place of an attempt says of its two broadcasts (`Asked`), what the wallet's log
holds (`Logged`), that a contract is there for whatever arrives behind a register
message that was sent (`Deployed`), that the balance lacks at most an outstanding top-up
(`Funded`), and that with every balance known one top-up at a time is outstanding
(`Exact`). `StakeReached` follows from the first four, `NeverOverpays` from the
last. For the channel, a message is built once, for the contract named when the
request was made (`ChanInv`). For the cells, the announced address is that of the
root's parameters until they change (`CellInv`); that encoders and readers agree is
then a computation on cells of fixed shape, cut into lemmas about appended fields.

### Stores

`StoreProofs`. Both refinements take each method to the method of `StoreService`:
the mapping rebuilds the table from buckets or maps, a write changes the row of its
key and no other (`RowChange`, `MemRowChange`), and GC counts and removes the same
rows. `BoltStore` needs that what is in the file under a payment bucket is a payment
of a request (`FileInv`), `MemStore` that no entry of its maps is the caller's
object (`MemInv`): what the caller writes to its objects changes no row. A crash, a
Close and a reopening are stutters.

### Programs

`ProgramProofs`. That the second list agrees with the first when it is set
follows from where the discovery goroutine is, since it alone writes them
(`Lists`, `HasSession`). For the chat handler, what the body and the model are at
each place (`Handled`): the body is the client's until it is rewritten, names the
resolved model from then on, and nothing is sent before it is plain. That rests on what
a map reads of a key after it was written again, for any number of occurrences: the
same (`MarshalReads`), since a map keeps at most one occurrence of each spelling
(`MapKeeps`, from the last of a finite set of positions, `LastPosition`).

For `wallet withdraw`: while nobody has touched the wallet and the sweep has not been
executed, the account is what the first snapshot says and so is every later
snapshot (`Snapshots`), and neither test of the poll accepts an equal one. The two
theorems about `Setup` assume `Concurrent = FALSE`: commands that overlap can pass
the check together. At most one command is under way (`OneAtATime`), what it has
written by each place (`Placed`), and what its check has seen is still so
(`Checked`).

### Texts of tool calls

`TextProofs`, about texts of any length. What a recursive function computes needs
induction, and the library's induction theorem takes an operator, which the
provers cannot instantiate. The proofs take a set instead: a set that has the
first number of an interval, and with each number the next one, has all of the
interval (`Induction`), since otherwise it lacks a least one (`Least`, from the
theorem that every non-empty set of naturals has a minimum for `<`). That a
recursive definition on an interval has the values its equation says is one more
such induction, over the functions that obey the equation so far (`Extended`,
`Recursion`, `Computed`); `Chain` is the same for a function whose calls jump
ahead, as the loop over spans does.

* `ResultReadsBack`: after each token of a result, the reader of the escaped text is
  inside a section, has that much of the result, and has counted the brackets at its
  end (`Mirrors`). The escape comes exactly where the reader would leave the section.
* `CallExtracted`: outside of strings the scanner counts braces; inside it sees
  quotes and backslashes only behind a backslash, since `JSONString` writes them so.
  The depth is positive until the call's last brace. A call's name is one token and
  no punctuation; its argument is any text.
* `StripIsOutside`: where a span has ended, or none begun, what is left of the text
  before that place followed by what the loop makes of the rest is what is left of
  the whole text. The induction goes from the end of the text to its beginning.

### What is proved only, and what is model-checked only

Some theorems state what is proved and not also model-checked: the four
`TypeCorrect`, `ClosedMeansResolved`, `InOrder`, `MapHoldsLive`,
`OneWinnerPerSeqno`, `DeploysOnce`, `EmptyUntilReady`, `ReturnedReady` and
`AnswerIsLeast`.

Only model-checked:

* all liveness, and the liveness half of the refinement of `QueryService`: the
  prover has neither fairness nor ENABLED;
* `RoundTrips` of `Wire`: encoder and decoder are `RECURSIVE` operators over the
  fields of a message, out of the prover's reach; proved is that each string among
  the fields reads back (`BytesReadBack`), not that a whole message does;
* `AnswerSplit` and `HistoryKept` of `ToolCalls`, which fold over the blocks of an
  answer and the messages of a conversation; proved is what they do within a block
  or a message (`StripIsOutside`, `CallExtracted`, `ResultReadsBack`).

## Not modelled

* Configuration: checks of single fields, without state.
* The certificate, hash and attestation functions of the router: the dial does not
  call the attestation code, and the rest is cryptography, external here. The
  simple frames of the attestation exchange have no caller on the live path.
* The bodies of contract messages, which only the contracts read; cell
  serialisation; GetSummary and GetParams, which copy the stack of a get method.
  RegisteredProxies fails as a whole on one bad entry, which `Runner` has as a
  failed read.
* `PaymentLedger` passes its calls to the store, and only tests call it.
* The HTTP mux, splitEndpoints and handleModels of the runner, flag parsing, the
  commands that only print what the runner or the chain answers, and logging: no
  state that a property here would tell apart.
* A chat body that is the JSON value null (`openai_passthrough.go:161`) panics its
  handler, which net/http confines to the request. `Passthrough` has the step and
  no property is about it: the source says nothing of such a body.
