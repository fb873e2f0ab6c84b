------------------------------ MODULE Dashboard ------------------------------
(***************************************************************************)
(* What the dashboard's queries show of the events that the pipeline has   *)
(* written to ClickHouse. The pipeline is DeliveryLedger, which            *)
(* EventPipeline implements: an event may be recorded by either sink again *)
(* and again, late and in any order, and is done when both have it. Rows   *)
(* expire, each table's at its own age, and a client pages through the     *)
(* audit log while all of this goes on.                                    *)
(*                                                                         *)
(*   internal/adapter/clickhouse/metric_writer.go, audit_writer.go,        *)
(*                               metric_reader.go                          *)
(*   internal/handler/httpapi/dashboard.go (MetricsSummary, AuditLogs)     *)
(*   migrations/clickhouse/001_init.up.sql                                 *)
(*                                                                         *)
(* One tenant, which every query selects, and one group of GetSummary (an  *)
(* agent, a provider and a model). Values are left out, and so are events  *)
(* that cannot be decoded, which never get a row.                          *)
(***************************************************************************)
EXTENDS Naturals, FiniteSets

CONSTANTS
  Events,        \* the request events of the tenant and group
  MetricTTL,     \* age at which metrics rows expire (90 days)
  AuditTTL,      \* age at which audit rows expire (30 days)
  DefaultPage,   \* the page size for a limit out of range (50)
  MaxPage,       \* the largest page (100)
  MaxRepeats,    \* bound on the writes of what a sink has written before
  MaxTime        \* bound on the clock

ASSUME DashboardAssumption ==
  /\ IsFiniteSet(Events)
  /\ MetricTTL \in Nat /\ AuditTTL \in Nat
  /\ MaxPage \in Nat /\ DefaultPage \in 1..MaxPage
  /\ MaxRepeats \in Nat /\ MaxTime \in Nat \ {0}

VARIABLES
  state, recorded,   \* the ledger's
  now,               \* the clock
  time,              \* time[e]: the timestamp of e, 0 until there is one
  writes,            \* writes[s][e]: how often sink s has written e
  repeats,           \* writes of what a sink has written before, at most MaxRepeats
  batches,           \* batches[e]: the batches of e in table metrics
  audit,             \* the rows of audit_log: the event, and the row's own id
  scan,              \* "idle" or "reading"
  offset,            \* offset of the page the scan asks for next
  due,               \* history: events settled when the scan began
  seen,              \* history: events the scan has been shown
  broken             \* history: a read of the scan broke off

ledgerVars == <<state, recorded>>
scanVars == <<scan, offset, due, seen, broken>>
vars == <<ledgerVars, now, time, writes, repeats, batches, audit, scanVars>>

Sinks == {"metric", "audit"}

Ledger == INSTANCE DeliveryLedger WITH Handlers <- Sinks, Droppable <- {}

TypeOK ==
  /\ Ledger!TypeOK
  /\ now \in 1..MaxTime
  /\ time \in [Events -> 0..MaxTime]
  /\ writes \in [Sinks -> [Events -> 0..(MaxRepeats + 1)]]
  /\ repeats \in 0..MaxRepeats
  /\ batches \in [Events -> 0..(MaxRepeats + 1)]
  /\ audit \subseteq Events \X (1..(MaxRepeats + 1))
  /\ scan \in {"idle", "reading"}
  /\ offset \in Nat
  /\ due \subseteq Events /\ seen \subseteq Events
  /\ broken \in BOOLEAN

Init ==
  /\ Ledger!Init
  /\ now = 1
  /\ time = [e \in Events |-> 0]
  /\ writes = [s \in Sinks |-> [e \in Events |-> 0]]
  /\ repeats = 0
  /\ batches = [e \in Events |-> 0]
  /\ audit = {}
  /\ scan = "idle" /\ offset = 0
  /\ due = {} /\ seen = {} /\ broken = FALSE

-----------------------------------------------------------------------------
(* Events and time *)

Accept(e) ==
  /\ Ledger!Accept(e)
  /\ time' = [time EXCEPT ![e] = now]
  /\ UNCHANGED <<now, writes, repeats, batches, audit, scanVars>>

Complete(e) ==
  /\ Ledger!Complete(e)
  /\ UNCHANGED <<now, time, writes, repeats, batches, audit, scanVars>>

Tick ==
  /\ now < MaxTime
  /\ now' = now + 1
  /\ UNCHANGED <<ledgerVars, time, writes, repeats, batches, audit, scanVars>>

Old(e, ttl) == time[e] + ttl < now

\* TTL ... + INTERVAL 90 DAY: a merge drops the expired rows of the parts it
\* reads. The rows of a batch have one timestamp and are in one part.
ExpireMetrics(e) ==
  /\ Old(e, MetricTTL)
  /\ \E n \in 0..(MaxRepeats + 1) : n < batches[e] /\ batches' = [batches EXCEPT ![e] = n]
  /\ UNCHANGED <<ledgerVars, now, time, writes, repeats, audit, scanVars>>

ExpireAudit(row) ==
  /\ Old(row[1], AuditTTL)
  /\ audit' = audit \ {row}
  /\ UNCHANGED <<ledgerVars, now, time, writes, repeats, batches, scanVars>>

-----------------------------------------------------------------------------
(* The writers, called by the ingest's handlers once per delivery *)

Writes(s, e) ==
  /\ writes[s][e] > 0 => repeats < MaxRepeats
  /\ repeats' = IF writes[s][e] > 0 THEN repeats + 1 ELSE repeats
  /\ writes' = [writes EXCEPT ![s][e] = @ + 1]
  /\ Ledger!Record(s, e)

WriteMetrics(e) ==
  /\ Writes("metric", e)
  /\ batches' = [batches EXCEPT ![e] = @ + 1]
  /\ UNCHANGED <<now, time, audit, scanVars>>

\* Mutation of WriteAuditLog: the id is left empty.
WriteAuditLogBlank(e) ==
  /\ Writes("audit", e)
  /\ audit' = audit \cup {<<e, 0>>}
  /\ UNCHANGED <<now, time, batches, scanVars>>

\* The row's id is a new one, so a repeated delivery adds a row.
WriteAuditLog(e) ==
  /\ Writes("audit", e)
  /\ audit' = audit \cup {<<e, writes["audit"][e] + 1>>}
  /\ UNCHANGED <<now, time, batches, scanVars>>

-----------------------------------------------------------------------------
(* MetricReader.GetSummary *)

\* Mutation of Metrics: an answer without output tokens has no row for them.
MetricsOfInput == {"input_tokens", "cost_usd", "latency_ms"}

\* The rows of a batch. There is a fifth, error_count, for an event with an
\* error text, which no provider sets.
Metrics == {"input_tokens", "output_tokens", "cost_usd", "latency_ms"}

InRange(from, to) == {e \in Events : time[e] \in from..to}

\* n[e] copies of each event e in S.
Copies(n, S) == {p \in S \X (1..(MaxRepeats + 1)) : p[2] <= n[p[1]]}

MetricRows(from, to) == Copies(batches, InRange(from, to)) \X Metrics

\* toUInt64(count() / 4)
RequestCount(from, to) == Cardinality(MetricRows(from, to)) \div 4

-----------------------------------------------------------------------------
(* AuditLogs, called page by page *)

Limit(ask) == IF ask = 0 \/ ask > MaxPage THEN DefaultPage ELSE ask

Limits == {Limit(ask) : ask \in 0..(MaxPage + 1)}

TimeOf(row) == time[row[1]]

\* Mutation of Firsts: ORDER BY timestamp, oldest first.
FirstsOldest(n) ==
  {S \in SUBSET audit :
     /\ Cardinality(S) = IF n < Cardinality(audit) THEN n ELSE Cardinality(audit)
     /\ \A r \in S, q \in audit \ S : TimeOf(r) <= TimeOf(q)}

\* The first n rows by ORDER BY timestamp DESC: rows of one timestamp come in
\* any order, which need not be that of another query.
Firsts(n) ==
  {S \in SUBSET audit :
     /\ Cardinality(S) = IF n < Cardinality(audit) THEN n ELSE Cardinality(audit)
     /\ \A r \in S, q \in audit \ S : TimeOf(r) >= TimeOf(q)}

Pages(limit) == {p[2] \ p[1] : p \in {q \in Firsts(offset) \X Firsts(offset + limit) : q[1] \subseteq q[2]}}

BeginScan ==
  /\ scan = "idle"
  /\ scan' = "reading"
  /\ offset' = 0
  /\ due' = {e \in Events : state[e] = "done"}
  /\ seen' = {} /\ broken' = FALSE
  /\ UNCHANGED <<ledgerVars, now, time, writes, repeats, batches, audit>>

\* The client asks for a page and goes on by the limit that the answer states,
\* which is the one that was used, until it gets an empty page.
Shown(limit, rows) ==
  /\ seen' = seen \cup {r[1] : r \in rows}
  /\ offset' = offset + limit
  /\ scan' = IF rows = {} THEN "idle" ELSE "reading"
  /\ UNCHANGED <<ledgerVars, now, time, writes, repeats, batches, audit, due>>

ReadPage(limit) ==
  /\ scan = "reading"
  /\ \E page \in Pages(limit) : Shown(limit, page)
  /\ UNCHANGED broken

\* The rows of a page that come before the reading breaks off.
Begun(page) ==
  {S \in SUBSET page : S # page /\ \A r \in S, q \in page \ S : TimeOf(r) >= TimeOf(q)}

\* GetAuditLogs does not look at rows.Err(): a result that breaks off is answered
\* as a page that is shorter, or empty, with status 200. An error that it does
\* see is answered with 500, and the client asks again.
ReadBreaksOff(limit) ==
  /\ scan = "reading"
  /\ \E page \in Pages(limit) : \E rows \in Begun(page) : Shown(limit, rows)
  /\ broken' = TRUE

-----------------------------------------------------------------------------
Next ==
  \/ Tick
  \/ BeginScan
  \/ \E limit \in Limits : ReadPage(limit) \/ ReadBreaksOff(limit)
  \/ \E row \in audit : ExpireAudit(row)
  \/ \E e \in Events :
       Accept(e) \/ WriteMetrics(e) \/ WriteAuditLog(e) \/ Complete(e) \/ ExpireMetrics(e)

Spec == Init /\ [][Next]_vars

-----------------------------------------------------------------------------
(* Properties *)

\* For every range of times whose rows have not expired, request_count covers
\* every settled request and exceeds the number of requests by no more than the
\* repeated deliveries (metric_reader.go:87). This is of a result that is read to
\* its end: one that breaks off is answered without the groups that were to come.
SummaryCountsRequests ==
  \A from \in 1..MaxTime, to \in 1..MaxTime :
    from + MetricTTL >= now =>
      LET In == InRange(from, to)
      IN  /\ Cardinality({e \in In : state[e] = "done"}) <= RequestCount(from, to)
          /\ RequestCount(from, to) <= Cardinality(Copies(writes["metric"], In))

\* The events a scan must not miss: settled before it began, not so old that
\* their rows may go, and with a timestamp of their own, since rows of one
\* timestamp may change places between two pages.
Owed(e) ==
  /\ e \in due
  /\ ~Old(e, AuditTTL)
  /\ \A d \in Events \ {e} : time[d] # time[e]

\* A client that pages through the audit log is shown every such event, however
\* many rows are added in front of it or next to it, and however many expire,
\* between its pages, unless a read broke off, which its answer does not tell
\* (metric_reader.go:115-141, dashboard.go:126-158).
ScansMissNothing == scan = "idle" /\ ~broken => \A e \in due : Owed(e) => e \in seen

=============================================================================
