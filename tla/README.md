# Verification of mcp-query

TLA+ models of the mcp-query monorepo (a client library for the Model Context
Protocol, a governing gateway, a command line with a keep-alive daemon, and
tools around them), TLC runs over small instances, and proofs checked by TLAPS
for every value of the constants. `PROJECT.json` lists the components, the runs,
the mutants that show each property can fail, the source lines behind every
definition, the hazards, and the theorems that matter most (the modules have more:
type correctness of nearly every machine, and parts of the listed ones).

Paths below are relative to `src/packages/` unless they say otherwise.

## 1. The system

JavaScript runs one segment of code at a time: what interleaves is the code
between two `await`s. Almost every component keeps its state in fields or
closures that survive an await, so every model has one action per segment and
names the await each invocation is suspended at.

| Component | State it keeps | Operations | What is hard | What makes it correct |
|---|---|---|---|---|
| `ServerConnection` (`mcp-query/src/core/connection.ts`) | lifecycle state, SDK client, retry count and timer, idle flag and timer, catalogs, re-list generations | `connect`, `ensureReady`, `sleep`, `close`, `reconnect`, `relist`, `onclose` | drops at any await, duplicate close signals, close and sleep beside a cycle, failed resumes | one cycle at a time; nobody waits for nothing; no transport outlives its client; reads and subscriptions belong to the session at hand |
| `ListenManager` (`core/listen.ts`) | the open stream, the observed set, two timers, three flags | `start`, `stop`, `setObserved`, `refresh`, `scheduleReopen` | stop, drop or change of the set while a stream is opening | the open stream carries the filter wanted, and one that ends is opened again |
| `MCPClient` (`core/client.ts`) | connections, operations in flight, waiters, drain flag | reads, queries, calls, prompts, tasks, `addServer`, `removeServer`, `drain`, `close` | invalidation and abort during a shared request, drain against parked operations, optimistic patches | an answer is fresher than the invalidation before it; one abort never cancels others; drain leaves nothing behind |
| query cache (`core/cache.ts`, `keys.ts`, `tags.ts`, `cacheStore.ts`, `persist.ts`, `redis/`) | entries, tags, in-flight promises, observers, L2 store | read, write, invalidate, observe, persist | other nodes' invalidations, garbage collection of shared entries | a hit is neither stale nor someone else's |
| tasks (`core/tasksExt.ts`, `client.ts` 761-998) | task handles | poll, push, input, cancel | pushed and polled snapshots out of order, inputs asked twice | a task settles once; an input is answered once |
| interactions (`core/interactions.ts`, `handlers/`) | pending approvals (in an external broker) | sampling, elicitation | a verdict racing a timeout | nothing passes unapproved |
| interceptors (`server/rateLimit.ts`, `circuitBreaker.ts`, `authorize.ts`, `x402Interceptor.ts`) | slots and queues, failure counts, verdicts | one interceptor each, `dropServer` | hand-over against newcomers, concurrent outcomes, removal under load | the cap holds; no waiter is lost; the breaker trips and recovers |
| gateway and mcp-gate (`server/gateway.ts`, `mcp-gate/src/`) | the governed client, the upstreams | serve, add, remove, update | governance order, replacement of an upstream under load | a denied call reaches nobody; a human wait holds nothing |
| `SessionManager` (`mcp-query/src/session/`) | a client per principal | `get`, `evict`, `sweep`, `closeAll` | eviction while creating | principals are isolated and reaped |
| keep-alive daemon (`cli/src/daemon/`) | pool of upstream connections, socket and pid files | requests, retry, eviction, retirement, stop, startup | two requests or two daemons at once, eviction under use | no connection leaks; one fault is not reported; one daemon |
| mcp-record (`mcp-record/src/`) | the cassette, requests pending | record, replay | ids of both directions | replay answers what was recorded |
| mcp-contract (`mcp-contract/src/contract.ts`, `schema.ts`) | the contract file | capture, diff | direction of a comparison, a server that changes between two pages | a breaking change is reported |
| mcp-query-ui (`mcp-query-ui/src/host.ts`) | app sessions | open, connect, close, track | close against initialization | a closed app stays closed |
| hooks (`mcp-query/src/react/`) | the state of their own calls | `invoke`, `run`, `fetch`, cancel | answers in another order than the calls | the newest call is what is shown |
| TanStack bridge (`mcp-query-tanstack/src/`) | bridged queries, listeners | fetch, sync, teardown | a write beside a fetch or a removal | a synchronised query shows the cache |
| page tools (`mcp-query/src/webmcp/`) | registered tools | sync, dispose | catalog changes while a registration settles | the page has the tools of the catalog |
| command line (`cli/src/`, `mcp-contract/src/registry.ts`) | queued lines, registry files | one call, interactive session, add, remove | quoting, confirmation, end of input, overlapping commands | what is sent is what was written |
| logins (`mcp-contract/src/oauth.ts`) | the file of credentials | read, merge, write | several processes | a login is not lost |
| applications (`src/apps/`) | a trust policy, an open note, a draft, an activity stream, a proxied link | see the modules | polls beside saves, tools beside typing, either end going first | the screen comes back to the truth |
| devtools panels, metrics, tracing, codegen, lint, docs, bench | output | - | - | - |

How they interact: `MCPClient` owns one `ServerConnection` per upstream and the
cache; reads, queries and calls go through the interceptor chain and then to the
SDK client of the connection. The connection calls back into the cache
(`markStaleByServer`, `invalidateTags`, catalog writes), the cache calls back
into the client (`onSubscribe`, `onUnsubscribe`, `onInvalidateTags`), which
subscribes at the server or changes the observed set of the `ListenManager`.
mcp-gate builds a client with its interceptors in a fixed order; the daemon and
the tools use the SDK client directly.

External, modelled from how this code uses it: the MCP SDK (`Client`, the
transports), the base cache and the interaction broker of
`@johnhenry/agent-query-core`, the network and the servers.

## 2. The modules

| Module | Models | State and actions ↔ code |
|---|---|---|
| `ServerConnection` | class `ServerConnection` | fields of the same name; `pc[c]` is the await of the c-th suspended `connect()` or `reconnect()`, `closer` and `sleeper` those of `close()` and `sleep()`; `link[k]` the transport of the k-th SDK client; `reads`, `observed`, `subscribed` what the cache and the server believe |
| `RetryCycle` | what a connection promises its owner about attempts | abstract: one attempt at a time, a pause after each failure, a limit; `ServerConnection` implements it |
| `ListenManager` | class `ListenManager` | `stopped`, `watched` (`observed`), `current`, `reopenQueued`; `opener` is the await of the `refresh()` that is `opening`; `retryTimer` tells a handle whose timer was cleared from none; streams are external |
| `LiveCatalog` | `relist()` and the notification handlers, over a connection cut down to its reconnects; extends `ListenManager` | `gen` is `relistGen`, `relists[g]` the answer of the g-th re-list, `catalog` the registry as an edition of the server's |
| `QueryCoalescing` | `execQuery()` with `waitOn()`, `execRead()`, L2 store, `withRetry()`, for one key | `stage` is the await of the shared request, `got` its answer, `count` and `aborted` the waiters' record, `entry` the cache entry with the version it holds |
| `Interactions` | class `InteractionBroker`, one request of a server | `at` is the await of the handler: policy, approval, model, review |
| `Tasks` | `callToolTask()` and its handle, the server's task store; extends `Interactions` | `loop` and `reader` are the awaits of the poll loop and of `getTask`/`getTaskResult`; `wire[r]` is what is on its way to r: the call, the loop, a reader and the pushes have a response or a stream each, so that snapshots overtake each other; inputs are answered by the broker |
| `Approvals` | the approval queue app: its trust policy, editor, cards, audit trail; extends `Interactions` | `inForce` is the policy the broker reads, `policy` and `draft` the copies of the App and the editor, `kept` what the browser has stored; `at` as in `Interactions` |
| `PayAndRetry` | `x402Interceptor()`, `withRetry()`, and a host interceptor that runs the chain again | `at` is the await of the operation, `sent` what reached the server |
| `Buckets` | the key function shared by the interceptors | `keyOf` |
| `RateLimit` | `rateLimit()` | `active`, `queues`; `slot` is what only the suspended call knows |
| `CircuitBreaker` | `circuitBreaker()` | `failures`, `circuit` (`openedAt` by what it decides), `seen` (the count an operation read on entry) |
| `GovernedClient` | `MCPClient.run`/`drain` with mcp-gate's chain; extends the two above | `stage[o]` is the await of operation `o`; `awaited` the promises `drain()` waits for |
| `Gateway` | `createGateway()`, the router and the declarative policy | names are sequences of segments; `offers` what each upstream has, `shown` the last listing of the agent, `last` the last operation |
| `Upstreams` | `addServer`, `removeServer`, and mcp-gate's add, remove and update, for one name | `named` is the map's entry, `job[o]` the await of an operator |
| `Sessions` | class `SessionManager` | `sessions` the map of promises, `client[c]` what became of the c-th client, `evicting` the suspended evictions |
| `AppHost` | the sessions of `createAppHost()`, their frame, and the effect of `useMcpApp()` | session r is that of run r of the effect, with the await it is at |
| `Hooks` | `useTool`, `useToolTask`, `usePrompt` | `call[i]` what became of the i-th call, `data` the call whose answer is shown |
| `Mirror` | one query bridged to TanStack Query | `cached` and `mirrored` are versions, `fetch` the await of `queryFn`, `synced` whether the bridge has listeners for it |
| `WebBridge` | the tools of a web page | `page[n]` who has registered name n, `asking` the registrations that have not settled |
| `RecordReplay` | `recordTransport()`, the cassette, `replayServer()` | requests by number, pending ids, the queues of the replay |
| `ContractCheck` | `captureContract()`, `diffContract()`, `snapshot`, `verify` | schemas as records, `offered` what the server has at each page; the comparison as a recursive function on pairs of schemas, checked against `Admitted`, a reference definition of the values a schema admits; schemas and values are finite trees, and `Height` says how deep a schema is nested |
| `TokenCache` | the file of credentials | `cacheFile`, and for each process what it has read, its token and the half of its write that is done |
| `DaemonPool` | `createHandler()`, `runDaemon()` | `upstreams`; `pc`, `attempt`, `entry` per request; `evicting`, `tick` of `evictIdle()` |
| `DaemonStartup` | `ensureDaemon()`, `request()`, `daemonStop()` against `runDaemon()` | the socket file, what each process has seen of it, and the system call it is at |
| `Repl` | the interactive session | the chain of promises as a queue of lines, the await of the command that runs |
| `CommandLine` | one `mcp-query call`, direct or through the daemon | a line is a sequence of tokens; a text has two readings, as a JSON literal (`json`) and by `Number()` (`num`); parsing, merging of arguments and coercion are operators, the catalog fetch and the confirmation are steps |
| `ServerFiles` | the registry files under the verbs `add` and `remove` | what each shell has read and which half of its write it has done |
| `LiveFile` | an open note of the notebook | `onDisk`, `content` (shown), `lastText` (`lastRef`), the editor, the write and the read in flight |
| `Draft` | a message of the composer | the blocks, and the draft as each running tool saw it |
| `Composer` | the composer's servers and palette, its model picker and its thread | `listed`, `named` and the palette's copies of a server's name; the lists under way of the picker; the message an answer is written to |
| `Activity` | the activity stream of the ops cockpit | the hub's ring buffer, and the index into it |
| `ProxyLink` | a page linked to a server through the local proxy | both ends of the socket, the target, the frames on their way |
| `…Proofs` | theorems about the module of that name | `GovernedClientProofs` also about `RateLimit`, and that the chain implements it and `CircuitBreaker`; `InteractionsProofs` about `Interactions`, `Tasks`, `Approvals`; `CommandsProofs` about `DaemonPool`, `DaemonStartup`, `Repl`, `ServerFiles`, `CommandLine`, `ContractCheck`; `ClientPartsProofs` about `Sessions`, `Mirror`, `WebBridge`, `PayAndRetry`, `TokenCache`, `Upstreams`, `Hooks`, `Composer`, `Draft`, `RecordReplay`, `AppHost`, `LiveFile`, `ProxyLink` |
| `MC…` | the instances TLC runs | |

Data is abstracted to what the properties tell apart: capabilities to "has
lists" and "may subscribe", cached reads to "of this session" or "of an earlier
one", times to what they decide (a cooldown is running or over, a connection is
stale or not), payloads to nothing. Every operation is one action per segment
and contains all state changes of the segment.

Several models take a record (`config`, `setup`, `gate`, `operation`), chosen in
`Init` and never changed: the configuration of the object and what its
environment may do. Runs take small sets of them, theorems hold for any set of
configurations of the type.

Compositions: `LiveCatalog` runs the manager under a connection, `GovernedClient`
the limiter and the breaker under one chain, `Tasks` the broker under a task and
its server. `MCServerConnection`, `MCCalls`, `MCGate`, `MCClients` and `MCCommands` only put machines
side by side that share nothing: `focus` names the one a behaviour is about, the
others rest in a state in which nothing fair is enabled.

## 3. The runs

| Run | Question | Instance and why it is enough |
|---|---|---|
| `connection` | does the lifecycle keep its promises under drops, refusals, close and sleep at every await, and does it implement `RetryCycle`? is the stream kept open with the filter wanted, and the catalog current? | two cycles, up to six SDK clients: enough for a reconnect beside a wake-up, two failed resumes and a replacement each; configurations for eager, lazy, resumable, modern and closing connections. Two streams: one open and its replacement; one resource observed or not, so the filter changes both ways; two faults (a loss and a refused listen, or two drops); three editions and four re-lists: one for each connect and two that overtake each other |
| `connection_dead_link` | is a connection that says ready live? (no) | one eager connection, one drop |
| `calls` | may callers share a request, leave it and lose nothing? does a task settle with its own result and only approved answers? do the screens of the queue say what is so? | three callers: one starts, one joins, one comes after it was cancelled; three versions: old data, an answer that is overtaken, and what overtook it. Tasks: two inputs at once or in turn, with and without broker, requests lost once or twice, and up to two pushes and two reads, where there are no inputs, so that they overtake each other and the polls. The queue: two rules, two edits and one request, so a policy is changed before, while and after it decides |
| `gate` | where does a call go, who may see and call what, and do limiter, breaker, approvals and `drain()` work together? | two upstreams with names that need a qualifier, six gates, one for each way the policy reads a rule; three operations on one slot: one holds, one waits, one arrives; threshold 2, so a count can be lost or be one short |
| `clients` | the machines on the client's side | two of everything that can overlap, and one more where a replacement comes after (four clients for two principals, three connections for two operators) |
| `commands` | six machines of `mcp-query` on a host | two daemons and two callers, one of which may be killed; pool: two requests with two keys or one and three connections, with two lost connections (one more than the retry tolerates), with evictions, or, on two keys, with evictions and a stop or one lost connection; four lines; command lines of up to two tokens of any kind, before or after the server and the tool, or three of a few kinds after them, with values that JSON and `Number()` read alike (7), differently (0x10, Infinity, nothing) or as a literal in quotes, with flags that take the next token and call expressions, against a tool that is absent or whose argument is an integer, a boolean or a string; two shells, one kill; contracts: servers that differ in one respect, their schemas taken from six groups (types, enums, kinds, properties inside a property, items, items without a type) and from objects in an object, and values that tell them apart |
| `task_snapshot_overtaken` | does the cache come to the end of a task? (no) | the tasks of `calls`; one poll and one push are enough |
| `daemon_startup_race` | is there one daemon? (no) | two daemons over a stale file |
| `unconfirmed_destructive` | is a destructive tool confirmed before it runs? (no) | one line with `--daemon` |
| `draft_text_lost` | does an inserted result keep the text? (no) | one tool, one key |
| `approved_unreviewed` | is every result that a person approved reviewed? (no) | one manual request |
| `activity_goes_silent` | does the stream go on? (no) | a hub of two |

Every property of a passing run has a mutant, a plausible slip in the code the
property is about, which the property catches: 40 properties, 40 mutants.

Deadlock is not checked: each of these systems may stop (a closed connection, a
client that nobody calls, a daemon that has exited). That what should go on does
go on is stated by the liveness properties instead.

### Fairness

Only what the runtime schedules by itself is fair: a suspended call resumes once
what it awaits has settled, an armed timer fires, a process that is not killed
takes its next system call, a read on a socket returns what has arrived. The
environment is never forced: nobody has to call, to answer an approval, to save,
to fail or to drop. A request over an open transport is answered or fails, since
the SDK gives every request a timeout. That gives `Settles` (faults are bounded,
so the last retry succeeds or the retries are used up), `EndsHearing` (the
debounce timer is pushed back only while observers come and go within its 50 ms,
and the property is about observers that rest), `QueriesSettle`, `HandleSettles`,
`CallsSettle`, `Recovers`, `ComesUp`, `NoSessionLeaks` and `EndsTogether`.

All of it is weak but for one place. In `LiveFile` a poll gives up the read
before it, so the answer of a read is enabled and disabled again and again; that
some read does arrive is strong fairness of `ServerReads` and `TextArrives`. It
is justified where a local file is read faster than the poll's interval; where
it is not, the note starves, and section "What the code does not keep" says so.

### Refinement

`ServerConnection` implements `RetryCycle`: with `INSTANCE … WITH`, its phase is
"trying" while a cycle runs, "waiting" while the timer is armed, and otherwise
"up", "idle" or "over" by its state. The run checks the whole of it (`RetriesInTurn`); the
theorem `ImplementsRetryCycle` proves its safety part for every configuration.

### What the code does not keep

Seven runs end in a counterexample, each against a sentence of the repository;
`PROJECT.json` quotes it. They are disagreements met while modelling:

- a drop swallowed by the last awaits of a connect or reconnect leaves a
  connection ready over a dead transport (`ReadyIsLive`);
- a snapshot pushed before a task ended and written after the poll that ends it
  leaves the cache, and the screens that read it, with a task that works for ever
  (`CacheConverges`);
- two daemons that start over a stale socket file both end up serving
  (`OneDaemon`);
- `mcp-query call … --daemon` does not ask before a destructive tool
  (`DestructiveIsConfirmed`);
- what is typed while a tool of the composer runs is lost (`TypedTextIsKept`);
- the activity stream takes nothing more from a hub that is full
  (`StreamIsLive`);
- a sampling result that a person authored is not reviewed, although reviews are
  configured (`EveryApprovedIsReviewed`).

Others were found the same way and have no run of their own. Where a module
states the property, it is named, and its counterexample comes with the
configuration set named after it in the MC module:

- `close()` neither cancels the backoff timer nor stops a suspended cycle
  (`ClosedReapsLinks`, `CalmConfigs`);
- a cooled breaker admits every operation until the first outcome (`OneTrial`,
  `FailingConfigs`);
- `dropServer()` forgets queued operations, and `drain()` waits for them for
  ever (`DrainReturnsAnyway`, `RemovalConfigs`);
- two overlapping first requests of the daemon open two connections for one key
  (`OneUpstreamPerKey`, `SharedConfigs`);
- `ListenManager.stop()` keeps the handle of a pending retry, which blocks every
  later re-listen after a restart (`NeverDeaf`, `DeafRegimes`);
- an update of an upstream beside a removal leaves an open connection without a
  name (`UpdateIsAtomic`);
- `useToolTask` can show the data of an older task (`DataOfTheTask`), and an
  older call of `useTool` that rejects overwrites the state of the newer;
- a task whose second round reuses the keys of the first leaves its inputs
  unanswered (`NoInputForgotten`);
- without namespaces, a resource of two upstreams goes to the first although one
  of them was meant (`UniqueOwnerFound`, `MCBare`).

Exceptions that the properties that hold name themselves: a catalog that changes
between its last re-list and the acknowledgement of the stream (`unheard` in
`CatalogCurrent`); an answer overtaken by an invalidation, and an L2 entry that
an invalidation does not reach (`FreshOrOvertaken`); an observer of a resource
that goes takes the request of a caller with it (`CancelledWhenLeft`); a request
that collides with an id, and equal requests that cross (`ReplayIsFaithful`);
a key that a later round of a task uses again (`Reused` in `HandleSettles`);
a literal given to a string parameter (`AsLiteral` in `SentAsWritten`);
two processes that write the file of credentials or a registry at once, or one
killed in the middle (`FileHasLastTokens`, `ToldIsFound`); a write that a
bridged query could not see (`behind` in `SyncedIsMirrored`); a script of the
page that takes a name (`clashed` in `PageHasCatalog`); a removal that overlaps
another (`OrphansNeedOverlap`).

Seen while reading, and kept as the code has them: the comparison of contracts
passes over a type that one side leaves out, all but the first of several types,
`items` and schemas that one side leaves out, names required but not declared,
and `additionalProperties` with a schema, and takes a listing that fails for an
empty one (`contract.ts:73-81`); replay answers a recorded error with
`undefined` (`replay.ts:27`); a confirmation at the end of input never settles;
a daemon that closes unlinks the path of its successor (`server.ts:233-248`); a
flag of a tool that is followed by a flag of the command line takes that for its
value; `remove` without a scope leaves the project's entry; the notebook shows a
write that the tool reports as an error as saved, and an older save that fails
puts back an older text; the composer shows "Running…" for ever when a message
is sent during a re-run; `start()` of the proxied transport never settles when
the socket drops or the token is refused between open and acknowledgement; when
reads take longer than the interval of the poll the note never shows any; a rule
of the approval queue for "confirm" never matches, since the broker asks its
policy about an elicitation, though the editor's preview shows a verdict for it
(`PolicyEditor.tsx:166-170`); a model that fails leaves no audit record; a 402 of a
read or a query reaches the payment interceptor unwrapped and is not paid
(`client.ts:402-420`); a literal given to a string parameter (`title=123`, `id=true`)
is sent as the literal (`invoke.ts:121`), although `invoke.ts:9-11` has arguments
typed "via the live tool schema", and `Infinity` given to a number is sent as null.

## 4. The proofs

TLAPS checks every theorem for all values of the constants, under the named
assumptions of the modules: finite sets of operations and requests, a cap and a
threshold of at least one, a bound on the clients or connections followed, command
lines that are sequences of named tokens of the four kinds (flags, words, pairs,
expressions), schemas that are finite trees
(`ContractAssumption`: what a schema is made of is a schema of smaller `Height`, as
it is of what JSON can write), and `Configs` any set of configurations of its
type.

`ServerConnectionProofs`. `TypeOK` is inductive. `OneCycle` and `DropNoticed`
are not: that a drop is noticed depends on the `onclose` handler being installed
whenever the state is live, that no second cycle starts depends on the timer
being disarmed whenever one runs. `CycleInv` adds, for every value of `state`,
what runs and what is armed (lemma `CycleInvariant`); the two properties follow
from it. `NoLeakedLink` and `ReadsOfThisSession` need `LinkInv` (lemma
`LinkInvariant`), which says for every await of a cycle what became of the link
and of the cached reads. `NeverStranded` is inductive with `TypeOK`.
`ImplementsRetryCycle` maps every step to one of the cycle or a stutter; it
needs that a cycle which runs and a timer that is armed exclude each other, which
is `CycleInv` again.

`ObservedStaySubscribed` needs that the first connect, after which nothing has
been subscribed yet, is told from the later ones, and that an attempt which has
a new session goes on to subscribe (`ObservedInv`, with `CycleInv`).

`GovernedClientProofs`. For the limiter, the count of holders, the content of the
queue and "no slot idles" are proved together, since a hand-over keeps the first
only by the second and needs the third to be a hand-over at all. For the whole
chain: types by the lemmas about the limiter and the breaker; `OpenMeansTripped`
is inductive by itself; `AskingHoldsNothing` needs to know what each stage holds;
`DrainedIsQuiet` needs that `awaited` is exactly what is in flight while
`drain()` waits; `CapHeldUnlessRemoved` that every step of the chain is one of
the limiter or leaves it alone, but for a removal. The run checks this and
`AskingHoldsNothing` as `SlotsAreForRequests`.

The chain implements its interceptors: `ImplementsBreaker` maps every step of
`GovernedClient` to one of `CircuitBreaker` or a stutter, `ImplementsLimiter` to
one of `RateLimit`. The limiter on its own assumes that who holds a slot releases
it, and once; that is what `ImplementsLimiter` shows of the chain, however an
operation ends. It is stated for an upstream that stays: a removal empties the
queues under the operations in them, which is no step of the limiter.

`CommandsProofs`. For the pool, `PooledNotClosed` needs that a connection is
numbered higher than every one made before it; `NoOrphan` needs that, when nobody
shares an upstream, a request that connects finds its key absent from the pool.
The run checks both as `PoolIsKept`. `OneFaultNeverSurfaces` needs to know, at
each await of a request, what has gone wrong under it: `RetryInv` has a request
whose connection is down either at its first run, where it will retry, or at its
second. For the session, `DispatchInv` says that what has run are the commands
among the lines the chain has reached, in order; the chain ends at the last line
before the end of the input, so none is left. For the registry files, `FileInv`:
a process that is about to write has read what the file has, and while it writes
no other process is at the file, unless the file is one of those on which writes
have been `mixed`. `SentAsWritten` compares two readings of one line: the code's, token by token with a
state, and the property's, which looks at the whole line. The proof goes along the
line: `ReadTo` says what the first parser has after each token, `SpokenTo` what the
second one has, and both hold at the end of a `Clear` line (`ReadsAsWritten`). That is
an induction over the tokens, done by the first token at which it would fail. A call
expression that stands alone is read in one step (`ExpressionFacts`), and which token
names the tool is settled before either (`ToolAtFacts`). What is said is then followed
through the coercion: a text that can be said in the declared type is sent in it
(`SentInItsType`), and a literal, which the coercion leaves alone, in its own
(`LiteralsAreTyped`). The property does not mention the coercion: it has `Sayable`,
what a person can write for a type, and `Fits`, what then has to be sent.

`VerdictIsSound` joins a fact about operators with one about steps. `Breaks`,
`Admitted` and `Comparable` are recursive functions, so the first thing to prove is
that they are what their bodies say (`BreaksIs`, `AdmittedIs`, `ComparableIs`). One
lemma, `RecursionHolds`, has it for every body whose value at a point depends on
points of smaller height only, by building the function height by height.
`SchemasHold` is then the induction, on the height of the older schema: of two
comparable schemas between which nothing breaks, the newer accepts what the older
accepted (`AcceptedStep`), and the older can read what the newer gives
(`ReadableStep`); each needs the same of the properties and of the items. Over the
steps, `ContractInv` says that what a capture has read is what the server offers,
as far as it has read and unless the server has changed, and that a verdict that
passes was given on it.

For the daemon's startup, `WhoAnswersHasServed`: the path names a daemon only while
that daemon listens. That it is the only one is false (`OneDaemon`).

`InteractionsProofs`. `NothingUnapproved` needs what has been said by the time
the handler is at each await (`AskedFor`), so that the answer it then gives rests
on it; the handler is the same whether a connection or a task asks. For
`ResultIsTheTasks`, `Told` says of a task that has ended that every end which is on its
way, on any stream, or has reached the cache or the result, is how it ended: snapshots
from before the end may still arrive after it, and do not say that it ended. It holds
until a cancelled task is revived, which is the exception that the property names.
`InputsAskedInTurn` maps every step of the task to one of the broker, a
request to a broker at rest, the taking of an outcome, or a stutter; it needs that
the loop is at its handler exactly while the broker has its input
(`HandlersAnswerTheLoop`). `NothingMisreported` needs that the copies of the policy on the
screens and the stored one are one with the policy in force (`PolicyInv`), and that a
request without a person's word is still where the policy is asked (`WordInv`). That
a request is decided as the editor shows is then about one step: the verdict is what
the policy in force says (`AppDecides`), the preview what the draft says, and the two
are one policy if the editor says "Applied" or nothing was edited. The theorem is about
the broker as this application builds it (`TheApp`), for any number of rules, edits and
requests.

`GatewayProofs`. `DiscoveryIsEnforced` is a property of every configuration that
validation lets through and every registry, so its proof is about operators: how
a qualified name is split, who has the item, and that the rule by which the
listing keeps an item is the rule by which a call is decided. `NeverMisrouted` is
an action property; it needs that what the agent remembers are items with the
names the gateway has given them (`ShownInv`).

`LiveCatalogProofs`. `ManagerInv` says, for each await of `refresh()`, what
becomes of the filter asked for: `FilterCurrent` alone is not inductive, since a
filter is fixed at one await and compared at a later one. `ListensOrRetries`
needs that a stream that has just opened is still there when the old one is
closed. For the catalog, `AgesInv` says that a later answer is a newer one (so
`NeverBackwards`), and `FreshInv` that the latest re-list brings the server's
edition unless a change is news or went unheard (so `CatalogCurrent`). The run
checks both as `NothingStale`. The
manager's lemmas are stated over `ManagerStep`, the union of its actions, so
they hold under any connection that drives it that way.

`QueryCoalescingProofs`. The waiter count is the cardinality of the set of
callers that wait; both cancellation properties follow from that. Freshness
needs `AgeInv`: an answer under way is older than what has been heard only if it
is marked overtaken.

`ClientPartsProofs`. Every property of the run `clients` but for liveness, each by
an invariant of its own.

- `NoClientLost` and `SyncedIsMirrored` are inductive with their types.
- The tools of the page need `Registered` (the controllers the bridge keeps are
  those of its catalog, and no tool of the page is without one).
- Payments need `Counted`, which counts what is about to be sent as sent.
- The file of credentials needs `TokenTruth`: while nobody has written beside
  another, one process at most is running, and its copy differs from the file
  only by the token it has just been given.
- An orphaned connection needs `OneRemoval`: before two removals overlap, one
  operator at most is closing, and what it closes is what the map has.
- `NeverGoesBack` needs that the effect that is live is the last one, and that
  what is shown is not of a later one (`PromptInv`).
- `ComposerIsTrue` is three invariants that touch each other nowhere: a name that
  is being added is not listed yet and a removal nobody repeats is of a listed
  one (`ServersInv`); the request for models that was not cancelled is for the
  address shown (`PickerInv`); the answer that streams has an identity that was
  given out, so no other message has it (`ThreadInv`).
- `SentIsGrounded` needs `DraftInv`: no two blocks share an identity, a block of
  a tool has its result with it and keeps it while it runs again, and the text
  block that a running tool remembers is never a tool's.
- `ReplayIsFaithful` needs `InTurn`: what the cassette has of a key, in its
  order, is what the requests of that key were given, in theirs, and an open
  request is the last of its kind. While it is replayed, `QueuesLeft` says how
  much of each queue is left.

### What liveness rests on

Liveness is beyond this prover, but much of it is a safety property under a
scheduler: something that is waited for has to be on its way. These are proved,
for every value of the constants; TLC adds the fairness.

| Liveness | Theorem | What it says, and what it needs |
|---|---|---|
| `CallsSettle` | `NoWaitIsInVain` | while the upstream stays, a call that waits for a slot waits for one of its key that is at its request, so no circle of calls waits for itself. Needs that a slot is held from the limiter to the end of the request (`StageHolds`), and "no slot idles" |
| `HandleSettles` | `EveryPollIsAnswered`, `HandlersAnswerTheLoop` | the call, the loop and the reader of a task are owed one answer each while they wait and none otherwise; the loop waits for a handler as long as the broker has its input. `OwedInv` counts the answers that are asked for at the server or on their way, each on its own stream; a push is none |
| - | `ResultSettlesOnce` | a result stays what it is, whatever arrives later; it follows from the same invariant, since nothing that could change it is owed |
| `NoSessionLeaks` | `GoneIsClosed` | the session of a run that has been cleaned up is still to be dropped, is closing, or is closed with its frame gone (`SessionFacts`, for each run). With it `ClosedStaysClosed`, `WaitersAreTold` and the types |
| `ShowsTheDisk` | `ScreenIsCompared` | the text a read is compared with is the text on the screen, through saves shown at once and their roll-backs |
| `EndsTogether` | `EndsAreAnnounced` | the frame that ends the other side is on its way before it is needed. Needs that the target is asked for by the first frame only (`AskedOnce`), and that an end that no longer sends has been heard of or will be (`Socket`) |

`PrincipalsAreKeptApart` says of `Sessions` what no run checks: no two principals
share a client, nor is one given a client that an eviction has taken.

### Lemmas

Two kinds of facts came up again and again and are lemmas. What a step does to
one element of a function or a record (`PatchedKeeps`, `RemoveAtFacts`) is
stated pointwise, since no prover here can be given a lemma about an operator.
The first or the last index with a property (`LeastIndex`, `GreatestIndex`)
exists because the naturals are well-founded (`WFMin` of `WellFoundedInduction`,
which takes a set, not an operator); with it, facts that would ask for an
induction can be proved: those about counting (`CountTellsApart`,
`CountIsReached`), that the two loops of the command line, recursive functions of
the number of tokens, are defined at all (`ClientSteps`, `StreamSteps`), and the
same for the comparison of schemas (`RecursionHolds`).

Attempts at a proof corrected four properties. `NeverMisrouted` was false of a
name whose server has left: the first server is then asked for the whole
qualified name, and may have it; the property names that now, and the instance
has such a name. `ObservedStaySubscribed` was false of a lazy connection that
says it is up beside a first attempt whose new session has not subscribed yet; it
is about rest now, and the run has that configuration. `ListedIsServed` had an
exception (a removal under way) that the proof did not need, and has lost it.
`VerdictIsSound` was false of schemas nested deeper than the instance had: of a field
that one side does not declare inside a property that both do, and of items
without a type, which the comparison passes over. `Admitted` and `Comparable` say
so now at every depth, and the instance has such schemas.

Only model-checked: liveness under fairness and ENABLED, which this prover does
not reach (`Settles`, `EndsHearing`, `QueriesSettle`, `HandleSettles`,
`CallsSettle`, `Recovers`, `ComesUp`, `NoSessionLeaks`, `ShowsTheDisk`,
`EndsTogether`, and the fairness of `RetryCycle` in `RetriesInTurn`). Every
invariant and every action property of a passing run has its theorem. Of `Activity`
nothing is proved: it filters sequences with an operator that takes a predicate,
about which no lemma can be stated here, and what its run checks (`StreamIsLive`)
is false.

## 5. The plan

Done: the connection, its stream and catalog, shared requests, the governed
client, the daemon's pool (first), then the refinement, tasks and interactions,
the gateway and its policy, sessions, apps, hooks, payments, the bridge to
TanStack, live upstreams, contracts, logins, recordings, page tools, the daemon's
startup, the command line and its files, the machines of the applications; proofs of
every safety property the passing runs check, and of what their liveness rests on.

Left, in this order:

1. legacy subscribe and unsubscribe requests of one resource that overlap
   (`client.ts:1161`): the flag they write is in the external cache, so the model
   needs a decision on what that cache guarantees; the same for optimistic
   patches and their rollback (`client.ts:573`);
2. the screens of the remaining applications that keep state over an await;
3. redaction of audit entries, and the order of the session store's writes.

## 6. Not modelled, and why

- Rendering, wording and output (devtools panels, docs, lint, bench, codegen,
  metrics, tracing, the CLI's formats, most screens of `apps/`): no protocol of
  their own. They are more than half of the implementation's lines, which is why
  the definitions cover a smaller share of the lines than of the state: the map
  names the lines that a definition translates, and no others.
- Transports, the browser part of a login (its callback server stays open after
  a timeout, `oauth.ts:327-331`), file and Redis back ends: I/O, of which the
  models keep the outcomes.
- The test doubles, except the mock server's task store: the environments of the
  models do what they do.
- The base cache, the queue of the broker, the devtools hub, readline, TanStack
  Query, AppBridge and the SDK are not part of this repository, and are modelled
  from how it uses them. Optimistic patches live wholly in that cache.
- Redaction, and the release script: sequential text transformations.

`LiveCatalog` keeps of the connection's lifecycle what drives the manager and
the re-lists: every drop is noticed there (the one that is not is a run of
`ServerConnection`), and a re-list fails only with the link. In
`QueryCoalescing` the entry is collected only while no request for it is under
way: whether the external cache guards that is not known from this repository,
and neither is `clear()` under a request. `Upstreams` has one name, since names
do not touch each other. `CommandLine` has one server, which has one tool or none in
the run. `ContractCheck` leaves out resource templates and the verb `diff`, which
compares two saved contracts. That a request never leaks a connection of the daemon's
pool is checked for requests with upstreams of their own (`Alone` in `PoolIsKept` and
`OneFaultNeverSurfaces`); for a shared one it is false, and no run has it
(`OneUpstreamPerKey`). A task is in one partition of the cache.

Bounds of the models, all named in the modules: `Cycles`, `MaxClients`,
`config.clients`, `config.maxFaults`, `MaxConns`, `MaxGen`, `MaxVersion`,
`MaxEnds`, `MaxLines`, `MaxDeploys`, `MaxVerbs`, `MaxKills`, `MaxRuns`, `MaxCalls`,
`MaxChains`, `MaxWrites`, `MaxMoves`, `MaxTokens`, `MaxRequests`, `MaxSyncs`,
`MaxTurns`, `MaxSlips`, `MaxIds`, `MaxKeys`, `MaxKey`, `MaxHappenings`; one
suspended `close()`, one `sleep()` and one eviction tick at a time. A theorem
holds for every value of the constants and configurations; the runs use the
values above.
