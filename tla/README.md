# Verification of the `tech` demo projects

The repository is a collection of small Java programs, each of which tries one
technology (Redis, Netty, RabbitMQ, ZooKeeper, memcached, Elasticsearch,
GraphQL), and, as by far its largest part, the GraphiQL page that the GraphQL
application serves: a React component, an editor for queries and one for
variables, and the GraphQL language itself, bundled in `graphiql.js`. Each Java
program is short and leans on a protocol between threads, connections and servers
that its tests hardly exercise; the page leans on callbacks in any order, and on
half a dozen walks over one grammar and one schema that have to agree. This
directory models both in TLA+, checks them with TLC and proves the most important
facts with TLAPS. Lines below without a file are of
`tech-springboot-graphql-sqqr/src/main/resources/static/graphiql/js/graphiql.js`.

## 1. Inventory

| Component | Code | State | Operations | What is hard |
|---|---|---|---|---|
| Redis distributed lock | `tech-redis` `TechRedisConfigurationTests` | the key `user.lock` with its lease, the static `COUNTER`, each thread's place in `run()` | `lock`, `unlock`, `CounterIncr.run` | lease against critical section, non-atomic GET/DEL, interrupts, lost replies |
| Redis pools and sentinel | `tech-redis` `RedisConfiguration`, `RedisSentinelConfiguration` | pools, master address | bean creation, borrow/return, failover | address read twice, pool pinned to the old master, exhausted pool |
| Lettuce clients | `tech-redis` `LettuceClient`, `LettuceClusterClient` | client, connection, shutdown | `init`, `shutdown`, commands | half-initialised client, double shutdown, reconnects |
| Netty HTTP server | `tech-netty` `SpringNettyConfiguration`, `InterceptorHandler`, `DispatcherServlet`, `HttpResponse` | one pipeline per connection, buffers with reference counts, a thread pool | `channelRead`, `channelRead0`, `handleRequest`, `writeResponse` | two kinds of threads on one channel, pipelined requests, listener added after the write, released buffers |
| Netty echo | `tech-netty` `EchoServer`, `EchoClient` and handlers | two channels, byte streams | connect, echo, close, shutdown | fragmentation, flush at read-complete, shutdown order |
| Publisher confirms | `tech-rabbit` `exchange/confirm` | `unconfirmedSet`, the channel's sequence numbers, the broker | publish, `handleAck`, `handleNack` | confirms on another thread, batched and reordered confirms, unroutable messages, reconnects |
| Work queue | `tech-rabbit` `worker`, `direct` | durable queue, unacknowledged deliveries | send, deliver, work, ack | crash of worker or broker, redelivery, prefetch |
| Log exchanges | `tech-rabbit` `exchange/fanout`, `direct`, `topic` | exchange, exclusive queues | bind, publish, route | messages published before a receiver is bound, pattern matching |
| Delay queue | `tech-rabbit` `exchange/delay` | a queue with per-message TTL and its dead-letter queue | publish, expire, consume | expiry only at the head of the queue |
| Spring AMQP application | `tech-rabbit` `Runner`, `Receiver` | a latch, a queue | send, await, receive, close | timeout against a late message, a message of an earlier run |
| ZooKeeper client | `tech-zookeeper` `ZookeeperConfiguration` | session, znodes, watches, cache | create path, read, watch | check then create, ephemeral sequential names, session expiry |
| memcached client | `tech-memcached` `MemcachedConfiguration` | ring of nodes | set, get, cas, incr | redistribution, stale nodes |
| Vendor store and GraphQL controller | `tech-springboot-graphql-sqqr` | an unsynchronised `LinkedHashSet`, futures | `createVendor`, `getVendor`, `singleRequest`, `executeBatch` | concurrent HTTP threads, ids from `size()` |
| GraphiQL page | `GraphiQL` (1226-2091), `DocExplorer` and its pages (2-914), `ExecuteButton` (914-1079), host page `index.html` | the query with its facts, variables, response, number of the last run, sizes of the panes, `localStorage`, the URL, the stack of documentation pages | edit, run, prettify, answers, introspection, drag a bar, open a page of the documentation, search, close, reopen | answers in any order, debounce timers, a page closed or killed half-way, listeners that outlive their gesture |
| GraphQL language in the page | graphql-js (19840-33100): parser, printer, types, coercion, validation, execution | none between calls | `parse`, `print`, `validate`, `execute` | separate walks over one grammar and one schema |
| Schema utilities of the page | graphql-js: `buildASTSchema`, `extendSchema`, `printSchema`, introspection, `buildClientSchema` | a schema | build, extend, print, introspect, rebuild | types that refer to each other, defaults printed without their type |
| Editors of the page | `QueryEditor` (2169-2323), `VariableEditor` (2610-2755), codemirror-graphql (3363-5649), CodeMirror's addons show-hint (6580-7019) and lint (7019-7260), `fillLeafs`, `getQueryFacts`, `onHasCompletion` (2800-3340) | the incremental parser's state at the end of each token; text and cursor, the active completion with its widget, the marks, the schema among the options | type, colour, hint, pick, lint, fill in | the text is seldom a complete query; hints and marks are made some time after the key that needs them |
| CodeMirror's core and libraries | third-party libraries (5649-6580, 7260-19840) | a document, selections, key maps | - | only used |
| Elasticsearch tests | `tech-es` | indices and documents | create index, index, get, update, delete | check then create, asynchronous indexing, refresh |
| Generated code | `mvnw`, `MavenWrapperDownloader` | - | - | not modelled |

What makes each component correct:

- *lock*: one thread at a time in the `try` block; no increment lost; `unlock()`
  deletes only its caller's key; the key does not stay behind.
- *HTTP server*: every request answered at most once, nothing after a rejection,
  the channel closed after an answer and only then, no buffer read after its
  release, no client left waiting.
- *confirms*: `unconfirmedSet` names exactly the messages the broker has still to
  confirm; the sender closes only when it knows.
- *work queue*: no task lost, few repeated, a busy worker gets no second task.
- *delay queue*: no message early, all arrive.
- *log exchanges*: a message reaches the queues whose bindings match when it is
  routed; *Spring AMQP*: the runner's message is received before the context
  closes, or stays in the queue.
- *pools and clients*: a pool's address is one the sentinels announced; a client
  that is handed out is connected; shutdown happens once.
- *ZooKeeper*: the paths the application reads exist; one node per path and
  application. *memcached*: a read returns the last value written.
- *vendor store*: ids are unique and a vendor is found under its id.
- *GraphiQL page*: the result shown is that of the last run; every run gets an
  answer; the operations to choose from are those of the query; a page that comes
  back is as it was left; the pages of the documentation are those asked for.
- *language*: what is printed parses back; what the validation accepts executes
  without ambiguity and with the schema's types; cycles of fragments are found.
- *schema utilities*: printing and building, extending and merging, serving and
  fetching a schema agree.
- *editors*: the popup is about the word at the cursor and a hint taken replaces
  that word and no more; the marks are those of the text and schema there are; what
  parses is not coloured as a mistake; following the hints makes
  no mistake in a name; filling in leaves makes a query no worse; variables
  without a remark are taken.
- *Elasticsearch tests*: an assertion about a document runs after the document
  was indexed.

## 2. Plan

Written so far, the components with the most concurrency first:

1. `SharedCounter` (abstract), `RedisLock`, `RedisLockProofs`
2. `HttpConversation` (abstract), `HttpDispatcher`, `HttpDispatcherProofs`
3. `RabbitConfirm`, `RabbitConfirmProofs`, `WorkQueue`, `WorkQueueProofs`,
   `DelayQueue`, `DelayQueueProofs`
4. `VendorStore`, `GraphiQL`, `GraphiQLPanes`, `DocExplorer`, composed in
   `GraphiQLSystem`; `GraphiQLProofs`
5. `GraphQLSyntax`, `GraphQLTypes`, `FragmentCycles`, `GraphQLValidation`,
   `GraphQLExecution`, the modules of the editors, composed in `GraphQLSession`;
   `FragmentCyclesProofs`
6. `SchemaTools`, used in `SchemaSession`
7. `HintList`, `ShowHint`, composed in `PageEditors`;
   `PageEditorsProofs`

To come, in this order:

8. `ZookeeperStartup`: several applications that run `zooKeeperClient()` on one
   ensemble, lost replies with retries, expired sessions, the one-shot watch.
9. `SentinelPool` and `LettuceLifecycle`: failover between the two reads of the
   master's address, the pool that is not told of a failover, borrowing at the
   pool's limit; `init` and `shutdown` of a client that did not connect.
10. `LogExchange` (fanout, direct, topic bindings; exclusive queues; automatic
   acknowledgement) and `SpringRunner` (the 10 s latch), to be composed with
   `DelayQueue` into one instance, as the programs that share a broker.
11. `EchoTcp` and `NettyServerStartup`, composed; `MemcachedRing`; `EsDocument`.

Every safety property of the protocols, the page and its editors that a run checks is
proved, and of the liveness of the queues, the confirms and the dispatcher what needs no
fairness. Proofs to come: the safety of the components above, and the invariants of
`SchemaSession` and `GraphQLSession`, operator by operator, as `FragmentCycles` was: each
RECURSIVE operator has to become a recursive function first.

## 3. Modules and code

**RedisLock** models `CounterIncr.run()`, `lock()` and `unlock()` of
`TechRedisConfigurationTests`. A thread's `pc` names the line it is at: `outer`
and `inner` are the two loop conditions, `lock` the SET, `sleep` the
`Thread.sleep(10)`, `recheck` the `if (COUNTER >= TOTAL) return`, `read` and
`write` the two halves of `++COUNTER`, `unlockGet` and `unlockDel` the two
commands of `unlock()`. `userLock` is the value of the key in Redis. Each command
of Redis is one action because Redis executes them one at a time. `Expire` is the
lease (`"EX", 10`); the constant `Overrunning` says which threads may take longer
than that between `lock()` and the end of `unlock()`. `RedisCallFails` is an
exception of Jedis, before or after the server executed the command; nothing
catches it. `WakeInterrupted` is the `break` of the interrupt handler, which
leads into the critical section. `leases` is a history variable: whether a lease
has run out under its owner.

**SharedCounter** is what the threads promise together: a counter that grows by
one up to `TOTAL`, and threads that finish when it is there. `RedisLock`
implements it (`count <- COUNTER`, `finished <- {t : pc[t] = "done"}`) when no
lease overruns and nobody is interrupted.

**HttpDispatcher** models one connection: `ReadBatch`, `ChannelRead` (the
interceptor's `Reject` or `ChannelRead0`), `ReleaseOriginal` and `RunTask` are the
event loop; `Handle`, `WriteAndFlush` and `AddListener` the pool's thread in
`handleRequest`/`writeResponse`. `loopQueue` holds what other threads queue on the
event loop, `refCnt` the reference counts of a request and of its copy. `ChannelRead0`
ends with `execute`; the release of the original, when `channelRead0` has returned, is
a step of its own (`inRead0` names the request between the two), so a thread of the pool
may read before it, after it, or be done by then. A
`writeAndFlush` from another thread is only queued, so `AddListener` may come
before or after the write. A response is represented by its status.

**HttpConversation** is what a client may rely on: a queue of answers that were handed
over (`outbox`) and the sequence of answers on the wire (`answered`), in which each
request occurs once at most, and the answers in the order they were handed over.
`HttpDispatcher` implements it (`outbox <- loopQueue`, `answered` the requests of
`wire`). Neither the code nor its comments promise that pipelined requests are handed
over in their order, and with a thread per request they are not.

**RabbitConfirm** models `EmitLogTopic` of `exchange/confirm`: `Add`, `Publish`,
`StillWaiting` and `Close` are the main thread, `HandleConfirm` the listener on
the connection's thread. `seqNo` is `getNextPublishSeqNo()`. The broker, the
frames under way and the automatic recovery of the connection are external.

**WorkQueue** models `TaskSender` with `Worker` and `DirectSend` with
`DirectRecv`; the variable `program` says which pair runs, and with it whether
queue and messages are durable and whether `basicQos(1)` is set. `StartWork` and
`FinishWork` are the callback with its `basicAck`; `acks` counts acknowledgements
on their way. `stale` marks a callback whose delivery came over a channel that is
gone: its acknowledgement is dropped.

**DelayQueue** models `DelayProducer`'s loop (`i * 5000` ms for `i` from `N - 1`
down to 0), the queue that dead-letters at its head, and `DelayConsumer`.

**GraphiQL** models the component's handlers, one action each, since the page is
single threaded: the constructor and `componentDidMount` (`Opened`),
`componentWillUnmount` (`Reload`; a `Crash` is a browser that dies without it),
the introspection query with its second attempt, `handleEditQuery` with the
debounced `_updateQueryFacts` (`timer`), `handlePrettifyQuery`, `handleRunQuery`
with `autoCompleteLeafs`, and the two ends of a fetch. `requests` holds what has
no answer yet, in no order. A query is a name; `operationsOf` says which
operations the parser finds in it.

**GraphiQLPanes** models the variables (in text, URL and storage), the three bars
with the listeners of a drag, the drawers and the menu of the execute button.
`drag` is what the listeners close over; `menu` is `"pressed"` between the mouse
button going down on the execute button and its release. **DocExplorer** models the
stack of documentation pages, the search box with its debounce, links and the back
button; `overtaken` notes that a page was opened while a search was pending.

**VendorStore** models `VendorQuery`'s set of vendors under concurrent requests; the
outcomes of two calls of `add` that overlap are those of the data race. The code promises
nothing about them, so `VendorsAreFound` speaks of calls one after the other, up to the
first overlap.
**GraphiQLSystem** composes the page with the application behind it: a run's request
reaches `GraphQLSampleController.singleRequest`, which executes it on its own
thread, and can be lost on either way.

**GraphQLSyntax** translates parser and printer over sequences of tokens (`parse`,
`join`, the visitor `print` uses). A failure is `[ok |-> FALSE, at |-> i]`: the first
token the grammar does not take. **GraphQLTypes** translates types, `TypeInfo`,
`astFromValue`, `valueFromAST` and the coercions; **TypeReferences** reads the
types a document names; `Truncated` is what `coerceInt` makes of a fraction. **GraphQLValidation** has one operator per rule of
`specifiedRules`, each over the visits of a document with the type information at
each; **FragmentCycles** has its two searches through the fragments, which are numbers
there in the order of their definitions; **RuleHelpers** what several rules share. **GraphQLExecution** collects fields,
coerces arguments and completes values over an object whose fields are resolved by
`Resolved`.

**OnlineParser** is codemirror-graphql's incremental parser: a stack of rules, one
token at a time; **QueryMode** and **VariablesMode** are its two grammars,
**QueryHints** `getHintsAtPosition` with `getTypeInfo`, **VariablesLint** the JSON
parser and the linter of the variable editor, **FillLeafs** `fillLeafs`.
**GraphQLSession** lets a user type, complete, paste, prettify and fill in a query
and then its variables, and compares what the parts make of each text.

**SchemaTools** translates `buildASTSchema`, `extendSchema`, `printSchema`, the
introspection types with the introspection query, and `buildClientSchema`; `Kept` is
what `extendSchema` takes over from an old type without looking it up among the copies,
`NamesAreUnique` the refusal of a schema in which a name would lead to both;
**SchemaSession** applies them one after the other to one schema.

**ShowHint** translates CodeMirror's popup: `completion` is
`cm.state.completionActive` (with the cursor it began at, the rest of the line behind
it, its options' schema and the last `data`), `widget` its list on the screen, `frame`
the animation frame `cursorActivity` asks for, `blurTimers` the `closingOnBlur`s that
run. A widget that `disable` has touched takes Enter only, and keeps it in `picked` for
the update. **HintList** is what the hint helpers make of the token at the cursor:
`hintList` with `filterAndSortList` and `lexicalDistance`; which names fit is
`NamesAfter`, as `GraphQLSession` checks that part. The linter's timer and its
marks, which a pick changes too, are in **ShowHint** as well. **PageEditors** is one of the two editors with these addons: keys, clicks,
focus, `componentDidUpdate` with a new schema (or new types of variables), and what the
page does to the text. A line stands for the text: a completion never leaves its line.

In `GraphQLSyntax` to `SchemaSession` a text is a sequence of tokens: white space, comments and the
letters of a name are what the lexer takes care of. `{...}` of two comparable
values, as in `\A x \in {f(y)}`, gives `f(y)` a name that TLC evaluates once.

Operators whose names end in `_mutant` are plausible mistakes in the definition
that follows them. No specification uses them; they serve to see that each
property notices such a mistake.

## 4. Runs

| Run | Question | Result |
|---|---|---|
| `redis_lock` | Do three threads count like one atomic counter while leases outlive critical sections and nobody is interrupted, although connections break? | yes |
| `redis_lock_failures` | What is left when leases overrun, threads are interrupted and connections break? | every thread ends; all normal returns mean a complete count; the key is freed; `unlock()` is right until the first overrun |
| `redis_lock_stolen` | Does `unlock()` release only the owner's lock ("release lock only if the owner to release is the one who locked")? | no: the lease may run out between GET and DEL |
| `http_dispatcher` | Does the server keep `HttpConversation`, close after writing, read no released request, and answer everybody? | yes; an exception without a message leaves its client waiting |
| `rabbit_confirm` | Is `unconfirmedSet` exact under batched, reordered and negative confirms and outages? | exact but for refused messages while the connection holds; one message escapes at most otherwise |
| `work_queue` | Are tasks lost, repeated, piled up or forgotten when workers and broker fail? | not lost once on disk; repeated at most once per failure |
| `delay_queue` | Which delay do messages keep, and do they arrive? | that of the longest, which is first in the queue; all arrive |
| `graphiql` | Whatever order keys, answers, timers, drags and reloads come in: is the result that of the last run, are the facts those of the query, does the page come back as it was, are vendors found? | yes; a result of an earlier run is dropped, and every run is answered |
| `graphiql_stale_error` | Is only the last run rendered ("Ensure only the last executed editor query is rendered.", line 1273)? | no: the handler of errors (1642) does not look at the run |
| `graphql_session` | Do colouring, parser, printer, hints, validation, execution, leaf filling and the variables' linter agree on whatever is typed, completed or pasted? | yes, with the exceptions stated in the properties |
| `schema_session` | Do building, extending, printing, serving and fetching a schema agree? | yes, but for the losses `ClientKnowsTheServer` and `PrintedSchemasBuildBack` name |
| `page_editors` | Are popup, picked hints and marks those of the text, whatever comes between a key, the animation frame and the timers? | yes, but for a click on a hint while a frame is due |

`TypeOK` of each protocol module is in no run, as it is proved: as `TypeCorrect` of
`RedisLock`, `ConfirmTypeCorrect` of `RabbitConfirm`, `QueueTypeCorrect` of
`WorkQueue`, `DelayTypeCorrect` of `DelayQueue`, and with `DispatchInvHolds` of
`HttpDispatcher`. The other modules were checked with theirs while they were written.
`LockInv` is proved and in no run either.

Seen while modelling, without a run of its own:

- `headSet(deliveryTag + 1).clear()` of a later multiple acknowledgement (35) also
  clears a message that was refused before, and `EmitLogTopic` closes as if it had
  been taken, although `tech-rabbit`'s README (32) says the sender thereby knows
  whether sending succeeded.
- A refused message that no later multiple acknowledgement covers keeps
  `EmitLogTopic` in its waiting loop for ever (`rabbit_confirm` excludes refused
  messages from `SenderLearnsOutcome` for that reason).
- After an outage the recovered channel numbers from 1 while `unconfirmedSet`
  keeps the old numbers, so a new confirm may cover a lost message
  (`ClosedMeansDecided` speaks of connections that hold).
- `DispatcherServlet`'s class comment says the content of the request is sent
  back; `writeResponse` fills a buffer with it that is never written and never
  released. Nobody releases the copy of the request either: its count stays 1, which is
  why `RequestOutlivesItsRead` asks of the original, and not of the copy, that it is
  released.
- Answers to pipelined requests may leave in another order than the requests came, and
  the first of them closes the channel, whatever the others wait for. Nothing in the
  repository promises otherwise, so no run checks it.
- An exception with a null message makes `HttpResponse.fail` throw in
  `handleRequest`'s catch block, and no response is written.
- The README of `tech-rabbit` says expired messages move to the dead-letter
  queue; `DelayProducer` publishes the longest delay first, so a message of 0 ms
  waits 45 s behind it, counted from when that one was published
  (`HeldBackByTheFirst`).
- `run()` returns at line 109 between `lock()` and the `try` block without
  `unlock()`: the key stays until its lease ends (`LockIsFreedInTheEnd` waits for
  that).
- *Page*: an introspection that fails replaces the response of a run that is shown;
  a name that is not among the known operations becomes `undefined`
  (`getSelectedOperationName` reads `names[-1]`); a run within 150 ms of an edit
  chooses from the operations before it; variables that are `null` are stored as
  the text "null", so the page opens with it next time; an `editorFlex` of 0 comes
  back as 1; requests of a closed page are still executed; a search made before a
  type was opened replaces that type's page when its debounce ends.
- *Language*: a string "on" is read as the keyword; two fragments of one name hide
  a cycle from `NoFragmentCycles`, which looks at the first; the comparison of
  overlapping fields does not end on a cycle; `UniqueInputFieldNames` does not look
  into nested objects; `String` takes an object as a variable's value.
- *Editors*: the highlighter takes no list type within a list type (3928), although the
  comment above its rules (3850-3853) says that it "can parse everything the spec
  declares possible"; `ColoursFollowTheParser` states this as its exception, and the run
  pastes such queries: the inner brackets are coloured as mistakes, nothing behind the
  type is. A fragment's
  hint offers one that closes a cycle of two; `fillLeafs` may insert a field with a
  required argument; the variables' linter does not miss a required variable.
- *Popup*: a click on a hint within a frame of a key works with the positions before
  it (`PicksReplaceTheWord` leaves it out); Enter pressed while a frame is due is
  swallowed unless exactly one hint is left; a popup that is replaced leaves its blur
  timer running, and focus cannot stop that one any more; a popup that comes up in an
  editor without focus has none. A key-up in the variable editor takes a single hint at
  once (the two settings of `completeSingle` are the other way round there), and a word
  that fits nothing is offered everything, so a single name replaces whatever is typed.
  "ba" is offered before "abc" for "ab": both are one edit away, and the shorter one
  comes first. A validation that throws leaves the old marks.
- *Schema*: introspection loses the enum values among defaults (25960 passes the
  argument instead of its type), doubles escapes, and answers `null` altogether for
  a directive with an unknown location; a type wrapped more than seven times cannot
  be told; `extendSchema` drops deprecations.

### Bounds

- Three threads and a count of two or three: two threads compete while a third is
  interrupted, fails or finishes, and the last increment meets every exit of
  `run()`. The code uses two threads and 100.
- Three pipelined requests: two answers of the pool can overtake each other and a
  rejection between them.
- Four messages with confirms: single and multiple ones overlap in every order;
  two outages leave numbers of three channels in the set.
- Three tasks, two workers, one death and one restart: the surviving worker gets
  the dead one's task, and the restart meets tasks on disk and not, delivered,
  worked, and acknowledged. `MaxCrashes`, `MaxRestarts` and `MaxOutages` bound
  the failures; `EveryTaskIsWorked` needs one worker that survives.
- Four delayed messages and a clock of three times the longest delay
  (`MaxTime`): each message has been due for a while when the clock stops.

- `graphiql`: three things the user does with the query and four with the panes
  (`MaxActions`, `MaxPaneActions`; an edit or run counts two of the latter in
  `IsShort`), so two runs overlap with an edit and a drag, on two lives of a page
  (`MaxPages`); six queries, with one, two and no operations, unparseable, and with
  leaves to fill in; `MaxResults` 2 for the 100 search results.
- `graphql_session`: texts of four typed tokens (`MaxTyped`), which is each way
  into each rule of the grammar, and pasted documents of two definitions
  (`MaxDefinitions`), an operation and a fragment or two fragments, of up to about
  30 tokens: all pairs of selections that agree, overlap or conflict. Variables of
  six typed tokens (`MaxJson`: an object with one member) or pasted, of nine types, one
  of them a list of lists.
- `page_editors`: a line of three characters (`MaxLength`) of two letters, a space, a
  mark that closes the popup and one that does not: words of one to three letters, alone
  and next to others; three fields and a directive, so lists of one hint and of several,
  filtered and not; marks of any earlier text are `Old`.
- `schema_session`: twenty documents, eleven extensions, three utilities after the
  first (`MaxSteps`): what one of them loses the next one builds on.

### Fairness

- Threads of `ForkJoinPool.commonPool()` and of the cached pool are scheduled, as
  is an event loop and the reader of an AMQP connection: weak fairness of each
  thread's next step.
- Redis removes a key whose lease ran out (`WF(Expire)`); it never answers a
  request with an expired key.
- The application begins and ends each request it receives, and each fetch of the
  page is resolved or rejected in the end (`Result`, `Failure`): weak fairness of
  the server's two steps and of the answers. The user never has to act, and timers
  never have to fire.
- The broker routes, delivers, confirms and dead-letters what it can, and the
  client library reconnects: weak fairness of these actions. Nobody has to send
  a request, start a consumer or fail.

Deadlock is checked in the runs of the protocols and of the editors; the states in which
a program has rightly ended or waits for input step to themselves (`AllEnded`, `Idle`,
`Ended`, `Done`). The sessions with the page, the language and the schema end when
their bounds are used up, and are checked without.

## 5. Proofs

`RedisLockProofs` proves for any set of threads and any `TOTAL`:

- `TypeCorrect`: `TypeOK`, whatever fails.
- `OnlyTheOwnerUnlocks`: `UnlockOnlyByOwnerInTime`, whatever fails. The inductive
  invariant is `DelInv`: until a lease has run out under its owner, a thread
  before its DEL still owns the key, because only that thread could delete it.
- `WorkIsNotCutShort`: `NothingLeftToCount`, whatever fails. A thread that writes
  a stale value back is not done yet and has to look at `COUNTER` again.
- `LockInvHolds`, `Exclusion`, `Counts`: the inductive invariant, mutual
  exclusion, and that `RedisLock` implements `SharedCounter`, from the
  assumptions `Overrunning = {}` and `Interrupted = {}`. Both are needed:
  `redis_lock_stolen` shows what the first excludes, and an interrupted thread
  enters without the lock. Mutual exclusion is not inductive by itself. `LockInv`
  adds that the key names the thread inside (so a second SET NX fails), that a
  thread at `recheck` without the key stands before a complete count (the inner
  loop also ends when the count is complete, so it returns), that the value an
  increment has read is still current, and that `COUNTER` stays below `TOTAL`
  until it is written.

`WorkQueueProofs` proves for any tasks, workers, crashes and restarts:

- `NothingLost`: `NoTaskLost`. The broker forgets a delivery when an
  acknowledgement arrives, and an acknowledgement does not name its task in the
  model: it stands for the first delivery of its worker. So `QueueInv` adds
  `AckedIsDone` (the deliveries that have acknowledgements under way have been
  worked), `CurrentIsNext` (a callback whose channel still exists works on the
  first delivery without one) and `QueuedWasSent` (which makes the loss of what was
  not on disk the only one a restart can cause).
- `QueueTypeCorrect`: `TypeOK`, whose bound on `acks` needs `CurrentIsNext` as well.
- `RepeatsArePaidFor`: `RepeatsNeedFailures`. The invariant keeps an account of each
  task: how often it was worked, plus the callbacks that work on it in vain because the
  broker has forgotten their delivery (`Orphans`), plus one if it is still to come
  (`ToCome`), is at most one more than the failures (`Within`). A crash or a restart
  brings a task back at most once because a task is in one place of the queue
  (`OncePlaced`), and a restart orphans at most one more callback of each task because
  only one works on a delivery that the broker knows of.
- `BusyWorkersWait`: `BusyWorkerGetsNothing`, from `RoomInv` (a Worker has one
  delivery at most) and `CurrentIsNext`.
- `DueTasksMoveOn`, `WorkRunsEnd`: what `EveryTaskIsWorked` needs besides fairness. While
  a task is due and a worker runs, some worker can be given a task, start or end one, or
  have an acknowledgement arrive; and a step is one of at most `MaxCrashes + MaxRestarts`
  failures or shrinks one of seven `Stages` (to send, to write, to deliver, to work, to
  work in vain, to acknowledge, to start) and grows none before it.

`RabbitConfirmProofs` proves for any number of messages and of outages, whatever the
broker refuses:

- `ClosingMeansDecided`: `ClosedMeansDecided`. `DecidedInv` adds that, while the
  connection holds, each message that was published waits at the broker or has been
  taken or refused, so an empty set at the end leaves none over.
- `SetIsExact`: `UnconfirmedSetIsExact`. `OrderInv` says that numbers are confirmed
  behind one another: what waits is numbered higher than what is settled, which is
  numbered as no confirm under way reaches, so a multiple confirm takes no number out
  that the broker still owes. `NotedInv` allows one gap, the message that was noted
  before an outage and published after it, and `VainInv` gives each number in the set
  its reason.
- `ConfirmTypeCorrect`: `TypeOK`, with the bounds of the counters (`CountInv`).
- `ConfirmRunsEnd`, `MainNeverWaitsInVain`: what `SenderLearnsOutcome` needs besides
  fairness. Every step lowers `Remaining`, whatever is refused and however often the
  connection breaks; and without refusals and outages there is something to do until the
  channel is closed, because by `SetIsExact` a number main waits for is one the broker
  has still to confirm. With a refusal there need not be: `EmitLogTopic` then waits for
  ever, as section 4 says.

`DelayQueueProofs` proves for any number of messages:

- `FirstHoldsBack`: `HeldBackByTheFirst`, counted from the publication of the first
  message. `FirstInv` adds that either this one has left, when its delay was over, or
  nothing has left and it is at the head of the queue or not published.
- `DelayTypeCorrect`: `TypeOK`.
- `NoneLostNoneOvertaken`: `AccountInv`, which no run checks in this form: each message is
  in one place of the way from `DelayProducer` to `DelayConsumer`, and they keep the order
  of their publication.
- `DelayRunsEnd`, `SettledMessagesMoveOn`: what `EveryMessageArrives` needs besides
  fairness. Every step lowers `Remaining`; messages published in time stay due before the
  clock of the model ends (`Settled`); and until the last is consumed there is something
  to do.

`HttpDispatcherProofs` proves for any requests and outcomes of controllers:

- `Converses`: `ImplementsConversation`. `DispatchInv` adds that a request which waits
  for the pipeline waits in one place and has neither thread nor answer (`OnceInv`);
  that each response is written by one task, before its future is completed, and only a
  completed future has a task that closes the channel (`TaskInv`); and that a completed
  future means an answer on the wire or a closed channel (`WireInv`), without which the
  listener could close a connection that has not been answered.
  The wire is a sequence there, so an answer that was written twice, or out of the order
  in which it was handed over, would be no step of `HttpConversation`.
- `RequestsOutlive`: `RequestOutlivesItsRead`. `CountInv` in `DispatchInv` says for each
  request which counts it has: that of the original is 1 from the read until the
  interceptor or `SimpleChannelInboundHandler` releases it, and at most one request is
  between `execute` and that release; that of the copy is 1 from `copy` on.
- `AnswersAreOnTheirWay`, `ACloseIsOnItsWay`: what `NobodyIsLeftWaiting` and
  `ClosesAfterWrite` need besides fairness. `PathInv` adds to `DispatchInv` that on an open
  channel a request the pipeline has seen has a thread, a queued response or a completed
  future, and that a completed future goes with an answer on the wire and with a thread
  that has still to add its listener or a close that is queued: the race of `addListener`
  on the pool's thread with the write on the event loop leaves no gap.
- `DispatchRunsEnd`: every step shrinks one of nine `Stages` (to send, to read, to pass on,
  to release, to handle, to write, to listen, to run, to close) and grows none before it.

`GraphiQLProofs` proves for any queries, texts, sizes, documentation and bounds:

- `LastResult`: `ResultIsOfTheLastRun`. It is inductive: a run clears the response
  together with counting, and a result is shown only if its run is the counted one.
- `FactsAreThoseOfTheQuery`: `FactsCatchUp`. `PageInv` adds that a debounced call
  that is pending is for the query in the editor, and only while a schema is loaded
  (so an edit before the schema arrives is caught up with when it does); and what
  is in the URL and in storage, of which a page is opened.
- `ClosedPagesComeBack`: `ClosedComesBack`, from `PageInv` and `PanesInv`. The URL
  wins over the storage when a page is opened, so `PageInv` ties its query, and
  `PanesInv` its variables up to formatting, to those shown; and `PanesInv` ties the
  sizes of a drag that has closed its drawer to those before it.
- `ResultsStayFirst`: `ResultsAreOfTheBox`, from `ExplorerInv`: as long as no page
  was opened during a pending search, the page a search acts on is the first or
  its results.
- `VendorsComeBack`: `VendorsAreFound`, for any vendors and any number of requests at
  once. `StoreInv` adds that, as long as no two calls of `createVendor` have overlapped,
  vendors are numbered in the order they were added, and one that is being built has
  the next number, so no id is in the set already when it is added.

`PageEditorsProofs` proves for any characters, names, schemas and validations:

- `MarksFollowTheText`: `MarksAreOfTheText`. It is inductive: each step that changes the
  line or the schema signals a change.
- `PopupFollowsTheWord`: `PopupIsOfTheWord`. `EditorsInv` adds that a completion of the
  query editor has the schema there is or began before it arrived, and that one begun
  before it has nothing to show (so the popup needs no notice of the schema's arrival);
  and that only an active completion has a frame due, whose update then rests on the
  text of that moment.
- `PicksReplace`: `PicksReplaceTheWord`. `PicksInv` adds to `EditorsInv` that a widget
  which takes keys has no frame to wait for, so that its list is of the word there is
  (`HintsAreOfTheWord`); a click may pick from an older list, so the invariant also says
  of any list shown that its names and places keep the line a line. The list is filtered
  and sorted by distances, and `FilteredAreNames` says that it is never empty and holds
  nothing but names of the schema at that place.
- `TypedInFullComesFirst`: a name that is typed in full is the first of the list. Its
  proof bounds each entry of the table of `lexicalDistance` from below
  (`EntryBounds`).

`FragmentCyclesProofs` proves for any fragments that spread each other in any way:

- `ReferencedIsLeast`: `getRecursivelyReferencedFragments` collects the least set with
  the spreads it begins from that is closed under spreads.
- `CyclesAreFound`: the search of `NoFragmentCycles` reports something if and only if a
  fragment refers to itself, and names only such fragments, as long as no two have one
  name. It visits a fragment once, from whichever entry comes first, so two invariants of
  a search are needed: the fragments on the spread path refer to all that is left
  (`FoundAreCycles`), and what is visited and not on the path is done with, that is
  closed under spreads and without a cycle, as long as none was found
  (`CyclesAreNotMissed`). Every search leads to smaller ones by what is not visited and,
  that being equal, by what is left (`SearchesGoDown`).

`lexicalDistance` and these searches are recursive functions: `lexicalDistance` is a table of which each entry depends on
earlier ones. `Least`, the least-number principle, gives both that there is such a
table (`TableExists`: the diagonals can be filled in one after the other, so there is
no first one that cannot) and what holds of all its entries (there is no first that it
does not hold of); likewise for the searches by their size (`SearchExists`,
`SearchInduction`). `Ranks` says that sorting by the number of closer names puts one
name at each place.

`RedisLockAssumption`, `HttpDispatcherAssumption`, `RabbitConfirmAssumption`,
`WorkQueueAssumption`, `DelayQueueAssumption`, `GraphiQLAssumption`,
`PanesAssumption`, `ExplorerAssumption` and `EditorsAssumption` are the only
assumptions on the constants in these modules; the runs evaluate them. They give the
constants their types; those of the page say as well that operations are functions of
the query, that `undefined` is no text and that formatting twice is formatting once;
that of the editors, that names, prettified lines and leaves consist of characters.

Liveness under fairness is out of TLAPS's reach and stays model-checked only
(`EveryThreadEnds`, `LockIsFreedInTheEnd`, `EveryTaskIsWorked`, `EveryRunIsAnswered` and so
on). For the work queue, the confirms, the delay queue and the dispatcher its two halves
without fairness are proved, for every value of the constants: something can be done until
the goal is reached, and nothing goes on for ever. What TLAPS cannot do is to put them
together, since that takes WF and ENABLED; reading a chain of shrinking stages as
termination also takes finitely many tasks, workers and requests, which no theorem
assumes. The lock has no such measure: its threads go round until the lock is free.

Model-checked only, too, is what the operators of the language and of the schema utilities
compute that are declared RECURSIVE; the invariants of `SchemaSession` and `GraphQLSession`
rest on them.

## 6. Not modelled

The components of the plan under "To come", and for good:

- `PersonQuery`, `SocialNetworkQuery`, `ProductQuery`, `DomainQuery` and the data
  classes (they compute constant answers), the `Application` classes with nothing
  but `main`, and the Maven wrapper.
- CodeMirror's core and its addons other than hints and linter, marked, markdown-it
  and the browserify runtime in `graphiql.js`: third-party libraries of general use.
  What the page relies on is in the modules as the order of events (`change`, `blur`,
  key-up), as `ShowHint`'s few operators on positions, or as an external definition.
- In the editors: selections, bracket closing, several lines and the history.
- The rendering of React components, the texts of error messages, the history of
  edits (undo), and the letters within a token.
- In graphql-js: subscriptions, custom resolvers' promises (the order in which
  fields settle), the lexer, and the utilities the page does not call.
