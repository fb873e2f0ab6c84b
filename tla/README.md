# MeowSight: TLA+ verification development

MeowSight is an observability proxy for LLM traffic. `meowsight-proxy` passes
requests on to OpenAI or Anthropic, attributes each one to a tenant and an
agent, reads the token usage from the answer and emits one `RequestEvent` to a
NATS JetStream work queue. `meowsight-ingest` takes the events off the queue and
writes metrics and audit rows to ClickHouse and an agent registry to
PostgreSQL. `meowsight-api` applies the schema migrations, manages tenants and
agents and serves the dashboard's queries. This directory holds TLA+ models of
those parts, TLC runs over small instances of them, and proofs checked by TLAPS
for all instances. Paths and line numbers below are relative to `src/`.

## Inventory

| Component | State it keeps | Operations | Interacts with | What is hard | What makes it correct |
|---|---|---|---|---|---|
| Event emitter, `internal/adapter/nats/emitter.go` | a JetStream client | `NewEmitter` (stream, or the fallback to `LogEmitter`), `Emit` | proxy handlers call it; JetStream answers | a publish that times out although the message is stored; a choice made once at start-up; a connection given up for good | an event that is stored is settled, whatever its caller was told; a proxy stays without its stream after an outage only |
| Stream and durable consumer (JetStream, external) | messages, delivery counts, AckWait timers | store, deliver, ack, nak, term, expire | emitter, every ingest process | redelivery, lost answers, a bounded number of attempts, MaxAge | at-least-once, in the sense of `DeliveryLedger` |
| Ingest service, `internal/adapter/nats/consumer.go`, `cmd/meowsight-ingest/main.go` | the loop's locals and the iterator's buffer | `Start` (pull, decode, three handlers, Ack/Nak/Term), `Stop`, shutdown | JetStream, ClickHouse, PostgreSQL | partial failure, a crash or shutdown between two steps, processes that overlap on one event | no acknowledgement without all three sinks; one sink's failure does not starve the others |
| Metric and audit writers, `internal/adapter/clickhouse` | none | one insert per event | called by the ingest handlers | a write that succeeds although an error is returned; rows that expire | duplicates come from redelivery only, and counts are off by no more than those |
| API key resolver, `internal/proxy/keyresolver.go`, `postgres/key_store.go` | a `sync.Map` of cached lookups | `Resolve`, `LookupByHash` | tagger; `api_keys`, changed by hand | unlocked load, delete, lookup and store of concurrent requests | bounded staleness |
| Proxy handlers, `internal/proxy/tagger.go`, `internal/proxy/provider` | locals per request | tag, forward, stream or copy, parse usage, emit | clients, upstreams, resolver, emitter | streams that break off at any line, clients that leave, upstreams that hang | complete answers are counted once, with the usage they state, for the right tenant |
| Proxy process, `cmd/meowsight-proxy/main.go` | server, pool | accept, `pool.Close`, `Shutdown` | all handlers | the pool closes before the server stops accepting | a signal ends the process |
| Agent and tenant registry, `postgres/agent_repo.go`, `tenant_repo.go`, `migrations/postgres/001_init.up.sql` | tables `tenants`, `agents` | upsert (ingest), create, update, delete (API) | two kinds of process write one table | a tenant that is deleted between the read and the write of an upsert; names that are not unique; `now()` of a statement that waits for the row | links point at tenants that exist, follow the name, and are not lost to traffic; activity and counts are what the requests were |
| Management API, `internal/handler/httpapi` | none | REST handlers | repositories | a PUT that sets more columns than its body names, in one statement, and answers from another; failures that are answered 404 | an edit changes what it says it changes, and stays; an id that is gone stays gone |
| Migrations and API start-up, `internal/migrate`, `cmd/meowsight-api/main.go` | `schema_migrations`, the schema | check, apply, record, serve | replicas of the API | no lock or transaction around the three steps | who serves has the whole schema; everyone serves in the end |
| Dashboard queries, `httpapi/dashboard.go`, `clickhouse/metric_reader.go` | none | read-only aggregates, pages | ClickHouse, `agents` | `request_count` is `count()/4`; OFFSET pages over a table that grows and expires | counts cover every settled request; a client that pages to the end misses nothing that stays |
| Pricing, configuration, `pkg/errors`, worker stub, `meowctl`, web page, deployment | none, or loaded once | | | nothing to interleave | not modelled |

## Modules and how they correspond to the code

Every module starts with the files it models; `PROJECT.json` gives the lines of
every definition. Two conventions hold throughout: one action is one step of the
code between two points where another process may act, and an operator whose
comment says "Mutation of X" is a plausible bug in X that one of the properties
detects (it is not part of any specification).

* `DeliveryLedger` - the abstract specification of the event pipeline: an event
  is accepted once, handlers record it any number of times, it is closed when
  every handler has recorded it, and only droppable events are closed otherwise.
* `EventPipeline` - emitter, JetStream and ingest processes. `pub` and `fate` are
  the two views of one `Emit` (the caller's and the stream's); `delivered` and
  `outstanding` are the consumer's bookkeeping on the server; `mode`, `conn`,
  `inbox`, `pc`, `msg`, `at`, `allOK` are an ingest process: its context, its
  connection, the iterator's buffer and the locals of `Start`'s loop
  (`consumer.go:77-131`). `rows[h][d]` counts how often handler `h` has written
  delivery `d`, which is the only thing the properties ask of the stores. JetStream is
  modelled by what the code configures: a work queue with explicit acks, the
  filter `events.*.request`, `AckWait`, `MaxDeliver`, `MaxAge`, an iterator that
  prefetches `PullMaxMessages`. `Ack`, `Nak` and `NextMalformed` each include
  the case in which the answer is lost, because `Start` ignores their errors.
* `EventPipelineProofs`, `EventPipelineLedgerProofs` - theorems about
  `EventPipeline`; the second has those that follow the copies of an event, the
  refinement, and the cost of retries.
* `KeyResolver` - `Resolve` cut at every access to shared state: `Load`, `Hit` or
  `Expired`, `Evict`, `Lookup` or `LookupFails`, `StoreEntry`. Keys do not
  interact, so one key hash is modelled. `left` is a history variable: when the
  row last stopped having each value.
* `StaleRead` - the abstract specification of the resolver: a table that changes, and
  callers that each get one answer, held by the table at some time not longer ago than
  `Age`, unless the reading fails. There is no cache in it.
* `KeyResolverProofs` - theorems about `KeyResolver`.
* `ProxyRequest` - one proxied request from `Arrive` to the handler's return, for
  several concurrent requests, and the shutdown. An answer is a sequence of
  lines of which only the kind, the event name and the token counts are kept.
  `TagByHeaders`, `Lookup`, `Resolves` and `ResolveFails` are
  `TagFromRequestWithKey`; `ReadLine` and `StreamEnds` the scanner loops of both
  providers; `ReadBody` and `BodyFails` `ModifyResponse`; `Signal`, `PoolClosed`
  and `Exit` the end of `main`. What `Emit` does with the event is
  `EventPipeline`'s subject: here `Emit` takes one step. The resolver may answer anything
  here, a mapping, that it knows none, or an error, at once or after a lookup. `Text`
  stands for the strings, of which only equality matters.
* `Attribution` - `ProxyRequest` composed with `StaleRead`, which `KeyResolver` implements:
  the handler gets an answer (`Answered`, `Refused`) in a step that is one of both, so the
  answer is one the table held lately. A miss that was cached before the key was created
  is such an answer. The requests `WithKey` carry one and the same key, since keys do not
  interact; each asks once, so `StaleRead`'s `Ask` is not used.
* `ProxyRequestProofs` - theorems about `ProxyRequest` and `Attribution`.
* `AgentRegistry` - the two tables. A statement is atomic, except that an upsert
  is cut between the subquery that finds the tenant and the write that is
  checked against the foreign key. Times and counts are `AgentActivity`'s subject; the
  provider, the model and key rotation are left out: no statement reads what they
  write.
* `AgentRegistryProofs` - theorems about `AgentRegistry`.
* `AgentActivity` - one row of `agents`, with the columns that `AgentRegistry` leaves
  out: `last_seen_at`, `request_count`, the id and the name. The upsert is cut
  between the beginning of its transaction, whose time is `now()`, and its write;
  the PUT handler between its two statements. `edited` and `gone` are what API
  clients have been told; `applied` and `latest` are what the row's columns should
  be. `UpsertFails`, `PutFails`, `DeleteAgent` and `PutReads` include the statements
  that fail, before or after taking effect.
* `AgentActivityProofs` - theorems about `AgentActivity`.
* `Dashboard` - the rows of `metrics` and `audit_log`, and two queries over them.
  Its events come from `DeliveryLedger` itself, as an instance: what
  `EventPipeline` promises is all it knows of the pipeline. `batches` counts the batches
  of four rows that `WriteMetrics` has written for an event; an audit row is an
  event and an id of its own. `ExpireMetrics` and `ExpireAudit` are the tables' TTLs,
  which ClickHouse applies at some time after it may. `Pages` is every answer that
  `ORDER BY timestamp DESC LIMIT OFFSET` allows, rows of one timestamp in any order.
  `ReadBreaksOff` is a result that ends early: `GetAuditLogs` does not look at
  `rows.Err()` and answers with the rows it has got, of which `Begun` is every choice.
* `DashboardProofs` - theorems about `Dashboard`.
* `Migrations` - one file at a time: `Check`, `Apply` per statement, `Record`;
  `ApplyFails` and `RecordFails` are the errors that make the API exit, and it
  is started again. `Stuck` names the state that no later start gets out of.
* `Bootstrap` - `Migrations` extended to the start of the whole stack: NATS, the
  proxy and the ingest next to the API's replicas, in any order. `away[c]` says that
  NATS has been out of reach since `c` began to connect, which is what the five
  seconds of `NewEmitter` and `NewConsumer` measure. `held` has the deliveries in the
  ingest's hands: `Deliver` counts an attempt, `Handle` or `HandleFails` answers it, the
  latter as long as a table is missing, and a death or a closed connection leaves it
  unanswered but counted. A publish may fail with NATS there too (a subject that is
  refused, a late answer), so `Outcomes` has no condition on NATS.
* `BootstrapProofs` - theorems about `Migrations` and `Bootstrap`.
* `MC...` - one small instance per component. They define the sets, mappings and
  answers that the `.cfg` files choose from.

## Runs

| Run | Instance | Question |
|---|---|---|
| `pipeline_safety` | one event, two processes that may fail, the audit store may fail, events may outlast AckWait, two attempts, two faults | `AckedMeansHandled`, `DuplicatesAreRedeliveries`, `HealthySinksReceive`, and `ImplementsLedger`: the pipeline refines `DeliveryLedger` |
| `pipeline_live` | two events, one malformed that may outlive MaxAge, one process that stays up and one that may fail once, prefetching both events, four attempts | `StoredIsSettled`, `ImplementsLedger`, and `ExclusiveHandling` and `RetriesAreFaults` within AckWait |
| `pipeline_partial_outage` | two events, a reliable process, an audit store that may fail every time | `HealthySinksGetEveryEvent` |
| `pipeline_audit_outage` | one event, `MaxDeliver = 5` as in the code, an audit store that recovers | violates `EveryRequestAudited` |
| `keys_fresh` | two goroutines, two values of the row, time to live 2, lookups of up to 1, six instants | `AnswersAreFresh`, and `ImplementsStaleRead`: the cache refines `StaleRead` |
| `proxy_requests` | an OpenAI stream that may break off, a hanging Anthropic stream with an overlong line, a plain request that may hang, clients that leave, a signal | usage, counting, termination |
| `attribution` | an OpenAI and an Anthropic request that are not streamed, with one key, one with a tenant header; the key is created and deactivated at any time, answers up to one instant old, three instants | `AttributedByTheTable` |
| `registry_links` | two upserting processes, two names, two tenant ids, five API calls | `LinkedTenantsExist`, `OnlyEditsUnlink`, `TrafficLinksAgents` |
| `bootstrap` | two replicas, the repository's two files with a rerunnable PostgreSQL file between them, a proxy, an ingest, one event with two attempts, one crash, one outage of NATS | migrations: `ServesWholeSchema`, `StuckNeedsCrash`, `ReplicasEndUpServing`; the stack: `FailsOnlyBeforeServing`, `PublishesUnlessOutage`, `OrderDoesNotMatter` |
| `migrations_bootstrap` | one replica, one crash, the repository's two files | violates `StartupBootstraps` |
| `agent_activity` | two requests delivered up to twice, two ingest processes, two API clients with four calls, five instants | `ActiveIsRecent`, `SeenNearlyMonotone`, `CountIsUpserts`, `AnsweredEditsStick`, `NotFoundIsFinal` |
| `dashboard` | three events, one repeated delivery, time to live 1 in both tables, pages of one or two rows, three instants | `SummaryCountsRequests`, `ScansMissNothing` |

What the passing runs show, in words:

* **Acknowledgements are honest.** An event leaves the stream as acknowledged
  only if one and the same delivery went through all three handlers, whatever
  was redelivered, answered late by another process, or lost in a crash. The
  local `allOK` and the order of the loop carry this.
* **Duplicates are bounded** by the number of deliveries, at most `MaxDeliver`
  per sink: no handler writes one delivery twice.
* **A failing store does not starve the others**, neither in the single
  iteration (`HealthySinksReceive`) nor in the long run
  (`HealthySinksGetEveryEvent`): the loop goes on to the next handler.
* **No stored event is forgotten** while attempts are left and a reliable process
  runs; a malformed one is terminated rather than retried.
* **Events that are handled within AckWait are handled by one process at a
  time.** With slow handlers this is false, and the code relies on nothing of
  the kind: `pipeline_safety` has them.
* **Only faults cost deliveries**, if stores do not fail and handlers are in time, and
  each of them at most two of any event: a process told to stop may nak its copy and be
  sent one more, which it drops. So five attempts outlast two faults.
* **A resolved key is no older than the time to live plus one lookup**, although
  an old lookup may overwrite a newer entry and `Delete` may remove a fresh one.
  A failed lookup is not cached. To its callers the cache is a read of the table that
  may be that old, and nothing else.
* **A complete answer is counted once and in full**, whether or not its client
  stays (only the end of the process may cut its handler off before it emits), a
  broken stream with what was passed on.
* **A request goes upstream in the name of what the store held for its key**, not longer
  ago than the time to live and a lookup, or of `default`/`unknown`: because the store
  knew no mapping at such a time (a miss is cached, so a key that was tried before it was
  created stays unknown for a time to live, with a healthy store), or because the call
  failed, for a closed pool, a departed client or a failing store. In `attribution` the
  store does not fail, which leaves the first two. The event names the same tenant.
* **Traffic restores links and never removes them**, and no agent is linked to a
  tenant that is gone.
* **Racing replicas all end up serving**, by failing and being started again,
  and never leave a file that no later start gets past: only a crash does, and
  without such a file crashes do no harm either.
* **The order in which the processes come up does not matter.** The ingest may
  start before the stream and the tables exist; once a replica has
  served, also after it has gone, an attempt fails only because the ingest dies or its
  connection is closed, and a proxy that NATS does not leave ends up publishing (single
  events may be lost even so, by a publish that fails). What
  attempts were used up by then is lost all the same, with `MaxDeliver` for a limit.
* **An active agent has been active.** An agent shown as active has made a request
  within the ten minutes and the age of an event; `last_seen_at` goes back by no
  more than one statement lasts; `request_count` counts every upsert that was applied
  once, so at most `MaxDeliver` for each request.
* **An answered edit stays, and an id that is gone stays gone**, whatever traffic
  and other clients do between the two statements of a PUT.
* **`request_count` is right up to repeated deliveries** in every range that has
  not expired, and **a client that pages through the audit log to an empty page has
  been shown every event that was settled when it began**, has not expired, and has
  a timestamp of its own, unless a read of its scan broke off, which the answer to it
  does not tell.

What the violated properties show (each quotes the text it checks):

* `EveryRequestAudited` - `Nak` carries no delay (`consumer.go:128`), so an
  outage of the audit store that lasts five quick attempts loses the entry,
  although the store recovers.
* `StartupBootstraps` - a crash between applying and recording the PostgreSQL file
  leaves a database on which every start fails at the first `CREATE INDEX`.

More disagreements were noticed while modelling. They follow from one line
each and have no run:

* the documented "Update agent (name, status)" (README.md:615) sets `tenant_id` to NULL
  when its body has none, as that of the dashboard and of README.md:617-620, and so
  unlinks the agent (`agent_repo.go:123`); `OnlyEditsUnlink` allows it to this PUT alone;
* a shutdown closes the pool (`main.go:97` of the proxy) before it closes the listener
  (`:100`): a request tagged in between is refused its lookup and goes upstream
  unattributed, with its `ms-` key as it came (against README.md:184-186);
* an event whose tenant id contains a dot is stored under a subject that the filter
  does not select (`emitter.go:67`, `consumer.go:59`);
* `GetAuditLogs` and `GetSummary` do not look at `rows.Err()`: a result that breaks off is
  answered 200, as a page that is short or empty, or a summary without its later groups
  (`metric_reader.go:108`, `:141`), which is why `ScansMissNothing` excuses a scan with
  such a read and `SummaryCountsRequests` is of a result read to its end;
* the README calls the writers independent, but they share one delivery and one
  failure repeats the others (`consumer.go:114`);
* a plain answer without prompt tokens emits no event (`openai.go:115`, against
  README.md:271);
* a delete of a tenant that fails on the foreign key is answered "tenant not found"
  (`httpapi/tenant.go:127`); any failed delete of an agent, and a PUT whose second
  statement fails, is answered "agent not found" (`httpapi/agent.go:123`, `:135`),
  which is why `NotFoundIsFinal` is about the 404 of a GET;
* the `mst-...` key of a tenant (README.md:234, :264) goes into
  `tenants.api_key_hash`, which nothing reads: the proxy looks keys up in `api_keys`;
* `error_count` (README.md:336) and the audit log's error are never written, since no
  provider sets the event's `Error`;
* "If NATS is unavailable ... the proxy automatically falls back to `LogEmitter`"
  (README.md:286) holds when the proxy starts; in a later outage events are lost, and
  without one too when a publish is refused or answered late (`emitter.go:78-85`);
* the "72h replay window" (README.md:715) is that of unacknowledged messages: a work
  queue removes the others (`emitter.go`);
* rows of one timestamp may be skipped between two pages of the audit log, because
  its `ORDER BY` has no tie-break (`metric_reader.go:123`).

### Bounds, and why they are enough

Constants whose names start with `Max` and `Prefetch` bound the instances, and
nothing else does.

* `MaxDeliver` is the code's parameter, 5. Two attempts are enough for a second
  delivery to overlap with the first; four are one more than the first delivery and the
  two that one fault can cost; the run about running out of attempts uses 5.
* `MaxFaults` counts crashes, signals, closed connections and lost messages
  together. One fault at any point, next to redeliveries by AckWait and failing
  stores, which are not counted, reaches each of the error paths. The proofs
  have no bound.
* Two processes are what it takes to overlap on one event, and two events to
  queue one behind the other in the iterator (`Prefetch = 2`; the code's is 10).
* Two goroutines suffice for an old lookup to overwrite a newer one; six instants
  cover two times to live.
* The two requests of `attribution` differ in what the key has to supply, a tenant and an
  agent or the agent alone, and may be tagged before and after a change of the row, which can
  come between any two steps; three instants with an age of one put
  a change in reach of an answer and out of it.
* Five API calls are enough to create, rename, link, unlink and delete, and to
  do it again with a second tenant of the same name.
* Two replicas are what it takes to lose a race for a step, and `MixedFiles` has a
  file of each kind: one Exec that cannot be run again, one that can, and two
  statements. `TableFiles` are those that make the ingest's tables. One outage can
  hit the proxy and the ingest at different points of their start, and one crash
  any of the processes.
* Two requests delivered twice by two processes overlap in every order, one after the
  other's row has been deleted; four API calls list, edit or delete, and look again,
  by two clients. The window, the age of an event and a statement take one instant
  each, and five instants cover them one after another.
* Three events are in front of, on and behind the border of a page; a time to live of
  one instant expires them within three; one repeat puts a row in twice. Pages are
  asked for with every limit from 0 to one more than the largest.

`SYMMETRY` over processes, goroutines, requests or clients is used in four runs that
check only safety (a refinement without fairness included) and treat them alike.

### Fairness

* The loop of every ingest process takes the steps it can: a goroutine that can
  run does. `iter.Next` may wait for ever; after a signal `main` returns without
  waiting for anything.
* Only `Reliable` processes are assumed to be started again, because nothing in
  `docker-compose.yml` restarts a container. The liveness runs need one.
* JetStream answers an open pull request and its AckWait timers fire. Nothing is
  assumed of a publish, whose liveness nobody checks.
* `RecoveringSpec` adds strong fairness of a handler's success: a store that is
  called again and again is not down for ever.
* In `ProxyRequest` handlers and timers run, the key store answers or refuses a lookup
  (which has no timeout of its own, nor has `pool.Close`, which waits for it: one that
  hangs for good would keep a shutdown from ending, and is left out), and an
  upstream answers unless it is `Hanging`. A plain request to a hanging upstream
  is not promised to end, because `DefaultTransport` has no timeout.
* In `AgentRegistry` a statement that has begun ends, and every agent goes on
  sending requests.
* In `Migrations` a replica that is down is started again, as the phrase
  "bootstrap on `docker compose up`" supposes of its operator; in `Bootstrap` this
  goes for the ingest and the proxy too, whose start takes the steps it can and
  times out if it has to, and the ingest is delivered what the stream holds for it and
  answers. NATS is not assumed to come back: `OrderDoesNotMatter`
  says what holds once it has come to stay. No request is assumed to be made.
* `AgentActivity`, `Attribution` and `Dashboard` state safety only, and assume no fairness.

`CHECK_DEADLOCK FALSE` stands in the runs of systems that stop: the proxy after
its shutdown, the replicas once they serve, and clocks and calls at their bounds.

## Proofs

`EventPipelineProofs` proves, for any sets of events and processes, any faults
and any `MaxDeliver` and `Prefetch`, from `PipelineAssumption` alone:

* `TypeCorrect`, `Spec => []TypeOK`. The inductive invariant adds `InHand`: a
  process at `handle` has a delivery in hand. Without it `HandleOK` could write
  under an index that is not a delivery.
* `AckedIsHandled`, `Spec => []AckedMeansHandled`. `AckedMeansHandled` is not
  inductive: it says nothing of the process that is about to acknowledge. The
  strengthening is `PassedHandlers`: while `allOK` holds, every handler before
  `at` has written the delivery in hand. `RowsGrow` (no step lowers a count)
  keeps both facts, once true, true for other processes' steps.

`EventPipelineLedgerProofs` follows the copies of an event, from the same assumption.
`Slots(w)` and `Copy(w, i)` name what a process holds: number 0 is in hand, the
others are in its iterator. A step delivers a copy, takes one from an iterator, or
moves none (`Movement`), so each fact below has one proof for a delivery, one for a
shift and one for the rest. The inductive invariant `CopyInv` says that what a process
holds is a delivery the server has counted (`Counted`), that no two slots hold the
same one (`Distinct`), and that no handler at or after `at` has written it (`Fresh`).

* `NoDeliveryTwice`, `Spec => []DuplicatesAreRedeliveries`: by `Fresh`.
* `HealthyReceive`, `Spec => []HealthySinksReceive`, by `HealthyPassed`, the counterpart
  of `PassedHandlers` for the handlers that do not fail.
* `Exclusive`, `Spec => []ExclusiveHandling`: without slow handlers an event that is
  held is outstanding, and held once (`OneCopy`).
* `RetriesBounded`, `Spec => []RetriesAreFaults`, by an account of what has been and may
  yet be spent on an event. `Cost` adds up the deliveries wasted so far, the stopping
  processes that may still be sent one (`MayTake`) and those that may still give theirs
  back (`MayReturn`). `Budget` says that it is at most twice the number of faults. It is
  a sum over all processes, but a step changes one process's share (`Weight`,
  `CostStep`), so it is enough that every step of a process pays for what it adds
  (`Pays`): a delivery by the share it ends, an answer by taking the event off the
  stream, and only a fault with two of the budget.
* `Implements`, `Spec => ImplementsLedger`: the initial states map to the ledger's,
  `HandleOK` and `HandleErr` to `Record` or a stutter, an answer or its loss to
  `Complete`, and the rest to `Accept`, a drop or a stutter (`LedgerStep`). That an
  acknowledgement maps to `Complete` needs `AckedMeansHandled`.

`KeyResolverProofs` proves, for any requests, mappings and durations, from
`ResolverAssumption`:

* `TypeCorrect`, `Spec => []TypeOK`.
* `StalenessBound`, `Spec => []AnswersAreFresh`. The argument follows a value
  from the table to the answer: what is read was held then (`LocalsFresh`), what
  is in the cache was held since `expiresAt` minus the time to live and a lookup
  (`CacheFresh`), what is returned was held as long ago as that at most
  (`AnswerFresh`). Each is stated as `HeldSince`, which no step can make false
  (`HeldStable`), so the order of the writers of the cache does not matter.
* `Implements`, `Spec => ImplementsStaleRead`. `Returned` hides the answer of a call that
  has not returned. `Hit` and `StoreEntry` map to `Answer`, whose guard is `AnswerFresh`
  in the next state, `LookupFails` to `Fail`, `Begin` to `Ask`, the other steps of
  `Resolve` to a stutter.

`AgentRegistryProofs` proves, for any tenants, names, agents, processes and number
of calls, from `RegistryAssumption`:

* `TypeCorrect`, `Spec => []TypeOK`.
* `LinksAreSound`, `Spec => []LinkedTenantsExist`, which is inductive next to
  `TypeOK`: a link is written only to a tenant that exists when it is written, and
  a tenant is deleted only when no agent is linked to it. What an unfinished
  upsert has found needs no invariant, because the foreign key is checked again.

* `NoUnlink`, `Spec => OnlyEditsUnlink`, from the types alone.

`ProxyRequestProofs` proves, for any requests, headers, keys and mappings, answers of any
length that break off anywhere, and clients that leave at any time, from
`RequestAssumption` and `StreamAssumption` (in an Anthropic stream the line before a data
line names its event, which is the format of such streams and what the reference
`ReportedUsage` reads):

* `TypeCorrect`, `Spec => []TypeOK`, and with it that no request is emitted twice.
* `EventsStateUsage`, `Spec => []EventsStateForwardedUsage`. The invariant `Accounted`
  states of every request, at any line, that the usage read so far is the one
  reported so far, and that the event in force is the one named by the last line, if
  that names one. `ReadAccounts` is its step: a further line becomes the last of its
  kind or leaves the last one.
* `AnswersAreCounted`, `Spec => []CompleteAnswersAreCounted`, by `Staged`: what has been
  read and emitted in each phase of a handler, with the three ways in which one is done
  without an event.
* `KeysAttribute`, `AttributionSpec => []AttributedByTheTable`, also from
  `AttributionAssumption`, for any mappings, ages and histories of the row. A step of
  `StaleRead`'s table never undoes `HeldFor`, a request is tagged once, with the answer it
  was given, and neither a closed pool nor a departed client is undone. `Attributed` states it
  of one request, `Dated` that answers and changes are not of the future.

`BootstrapProofs` proves, for any number of replicas, files, crashes, events and
outages, from `MigrationsAssumption` and `BootstrapAssumption`:

* `TypeCorrect`, `SchemaIsWhole` and `RacesAreHarmless` about `Migrations`: its types,
  `ServesWholeSchema` and `StuckNeedsCrash`. `Progress` says that a replica about to
  record a file has applied all of it, and one at a statement those before it. That
  races are harmless is a matter of who carries a file on (`Carries`): once any of it
  is applied, and until it is recorded, a file that may not be applied again has a
  replica that is past what was applied and goes on, or there has been a crash.
* `StackTypeCorrect` and `AttemptsFailEarly` (`FailsOnlyBeforeServing`) about the stack. A
  step of the stack is one of the migrations or leaves them alone (`StackStep`), so their
  invariant holds in it; `Settled` says that once a replica has served every file is
  recorded, which no crash takes back, so `HandleFails` is not enabled any more.

`AgentActivityProofs` proves, for any requests, ingest processes, clients, durations and
bounds, from `ActivityAssumption`:

* `TypeCorrect`, `Spec => []TypeOK`.
* `ActivityIsRecent` and `SeenBound`, from `Times`: a running upsert began no earlier than
  a statement lasts, for a request that was made.
* `CountIsExact`, `Spec => []CountIsUpserts`, from `Numbered` (an upsert that runs has a
  number that no applied one has) and `Begun` (its request was made).
* `EditsStick` and `NotFoundStays`, `AnsweredEditsStick` and `NotFoundIsFinal` as
  invariants, from `Ids`: the row has the latest id, and a client knows no later one.

`DashboardProofs` proves, for any events, page sizes and times to live, from
`DashboardAssumption`:

* `TypeCorrect`, `Spec => []TypeOK`.
* `SummaryIsComplete`, `Spec => []SummaryCountsRequests`. Rows are counted as the
  cardinality of a product, batches times the four metrics (`FourMetrics`), so the
  division by four gives back the batches; `Stored` says that every settled event has
  one, and none that was not written.
* `ScanIsComplete`, `Spec => []ScansMissNothing`. The invariant is `Ahead`: an event that
  the scan owes and has not shown has at least `offset` newer rows, unless a read broke
  off, because rows are only
  added (which moves it back, to pages to come) unless they are older than its own, which
  may expire. `PageShows` is the counting argument that a page then shows it or leaves it
  ahead.

Only model-checked: liveness (`StoredIsSettled`, `HealthySinksGetEveryEvent`,
`RequestsFinish`, `ShutdownEnds`, `TrafficLinksAgents`, `ReplicasEndUpServing`,
`PublishesUnlessOutage`, `OrderDoesNotMatter`). Every invariant, action property and refinement that a passing run
checks is proved.
Liveness under fairness and `ENABLED` are beyond this prover, as is induction over
data, which is why `Accounted` is an invariant of reading line by line and not a
statement about a recursive function of an answer. No module has a `RECURSIVE`
operator.

## Not modelled

* Pricing is floating-point arithmetic over two counts; configuration is read
  once; `pkg/errors` is used by nothing; the worker and `meowctl` are stubs; the
  web page is static, its PUT bodies being inputs of `AgentRegistry`.
* The columns of the rows that no statement or query of the models tells apart:
  latencies, costs, models, providers, plans. The sums and averages of `GetSummary`.
* Key rotation and the reads of tenants: the column that a rotation writes is read by
  nothing, and nothing is computed from what is read.
* HTTP details: paths, headers other than the four that matter to attribution,
  status codes (but for what a 404 may mean), health checks.
* `c.stop`, which `Start` writes and `Stop` reads in another goroutine: `main`
  cancels the parent context right after `Stop`, so the outcome is the same.
* An operator's "disabled", which the next upsert sets back to "active"
  (`agent_repo.go:61`): it is in `AgentRegistry`'s `Upserted`, but nothing in the
  repository says what it should be, so no property is about it.

## Plan

Done: all modules above, in this order: `EventPipeline` with `DeliveryLedger`,
`KeyResolver`, `AgentRegistry`, `Migrations`, `ProxyRequest`; then `AgentActivity`,
`Dashboard` over `DeliveryLedger`, and `Bootstrap` over `Migrations`; with their proofs; then
`StaleRead`, and `Attribution`, which composes it with `ProxyRequest`.

Left: a composition of `EventPipeline` and `AgentRegistry`, in which the agent
handler is the upsert and its failure on the foreign key naks the event.
