---------------------------- MODULE AgentActivity ----------------------------
(***************************************************************************)
(* One agent as the dashboard shows it: when it was last seen, how many    *)
(* requests it has made, and under which row id and name. The ingest       *)
(* processes upsert its row for every event they handle, again when an     *)
(* event is delivered again; API clients list, edit and delete it.         *)
(*                                                                         *)
(*   internal/adapter/postgres/agent_repo.go    every statement on agents  *)
(*   internal/handler/httpapi/agent.go, dashboard.go (ListAgents)          *)
(*                                                                         *)
(* Rows do not interact, so there is one. An upsert is cut in two: now()   *)
(* is the time its transaction began, and the row's values are those of    *)
(* the moment it writes. Links to tenants are AgentRegistry's subject.     *)
(***************************************************************************)
EXTENDS Naturals, FiniteSets

CONSTANTS
  Requests,      \* the agent's requests, one event each
  Ingest,        \* ingest processes
  Clients,       \* API clients
  Window,        \* the ten minutes for which an agent counts as active
  MaxLag,        \* how old an event may be when an upsert for it begins (MaxAge)
  MaxStatement,  \* how long an upsert takes
  MaxDeliver,    \* how often an event is delivered
  MaxTime,       \* bound on the clock
  MaxCalls,      \* bound on the API calls of a run
  None           \* no row, no statement, or no call

Unedited == "unedited"   \* the name of a row that nobody has edited

ASSUME ActivityAssumption ==
  /\ Window \in Nat /\ MaxLag \in Nat /\ MaxStatement \in Nat
  /\ MaxDeliver \in Nat /\ MaxTime \in Nat \ {0} /\ MaxCalls \in Nat
  /\ Unedited \notin Clients
  /\ None \notin [id : Nat, seen : Nat, count : Nat, name : Clients \cup {Unedited}]
  /\ None \notin [of : Requests \X Nat, at : Nat]

Row == [id : Nat, seen : Nat, count : Nat, name : Clients \cup {Unedited}]

VARIABLES
  now,      \* the clock of the database and of the API
  sent,     \* sent[e]: the time of request e, 0 until it is made
  tries,    \* tries[e]: the upserts begun for e
  upsert,   \* upsert[w]: what w's statement is for, and its now()
  row,      \* the row of the agent
  ids,      \* the row ids given out so far
  calls,    \* API calls so far, at most MaxCalls
  known,    \* known[c]: the id that client c has read from a list
  put,      \* put[c]: where the PUT handler for c is
  edited,   \* history: the ids for which a PUT was answered with the row
  gone,     \* history: the ids that a GET has not found or a DELETE has removed
  applied,  \* history: the upserts applied to the row since it was inserted
  latest    \* history: the latest now() among them

vars == <<now, sent, tries, upsert, row, ids, calls, known, put, edited, gone, applied, latest>>
apiVars == <<calls, known, put, edited, gone>>

TypeOK ==
  /\ now \in 1..MaxTime
  /\ sent \in [Requests -> 0..MaxTime]
  /\ tries \in [Requests -> 0..MaxDeliver]
  /\ upsert \in [Ingest -> [of : Requests \X Nat, at : Nat] \cup {None}]
  /\ row \in Row \cup {None}
  /\ ids \in Nat /\ calls \in 0..MaxCalls
  /\ known \in [Clients -> Nat]
  /\ put \in [Clients -> {"idle", "update", "read"}]
  /\ edited \subseteq Nat /\ gone \subseteq Nat
  /\ applied \subseteq Requests \X Nat
  /\ latest \in Nat

Init ==
  /\ now = 1
  /\ sent = [e \in Requests |-> 0]
  /\ tries = [e \in Requests |-> 0]
  /\ upsert = [w \in Ingest |-> None]
  /\ row = None /\ ids = 0
  /\ calls = 0
  /\ known = [c \in Clients |-> 0]
  /\ put = [c \in Clients |-> "idle"]
  /\ edited = {} /\ gone = {}
  /\ applied = {} /\ latest = 0

-----------------------------------------------------------------------------
(* Time and traffic *)

\* The clock stands still while a statement is at its limit.
Tick ==
  /\ now < MaxTime
  /\ \A w \in Ingest : upsert[w] # None => now < upsert[w].at + MaxStatement
  /\ now' = now + 1
  /\ UNCHANGED <<sent, tries, upsert, row, ids, apiVars, applied, latest>>

Request(e) ==
  /\ sent[e] = 0
  /\ sent' = [sent EXCEPT ![e] = now]
  /\ UNCHANGED <<now, tries, upsert, row, ids, apiVars, applied, latest>>

-----------------------------------------------------------------------------
(* AgentRepo.Upsert, called by the ingest's agent handler *)

\* Mutation of UpsertBegins: one delivery too many.
UpsertBeginsOnceMore(w, e) ==
  /\ upsert[w] = None
  /\ sent[e] > 0 /\ now <= sent[e] + MaxLag
  /\ tries[e] <= MaxDeliver
  /\ tries' = [tries EXCEPT ![e] = @ + 1]
  /\ upsert' = [upsert EXCEPT ![w] = [of |-> <<e, tries[e] + 1>>, at |-> now]]
  /\ UNCHANGED <<now, sent, row, ids, apiVars, applied, latest>>

\* The handler is called for a delivery of e, and the transaction begins.
UpsertBegins(w, e) ==
  /\ upsert[w] = None
  /\ sent[e] > 0 /\ now <= sent[e] + MaxLag
  /\ tries[e] < MaxDeliver
  /\ tries' = [tries EXCEPT ![e] = @ + 1]
  /\ upsert' = [upsert EXCEPT ![w] = [of |-> <<e, tries[e] + 1>>, at |-> now]]
  /\ UNCHANGED <<now, sent, row, ids, apiVars, applied, latest>>

UpsertFails(w) ==
  /\ upsert[w] # None
  /\ upsert' = [upsert EXCEPT ![w] = None]
  /\ UNCHANGED <<now, sent, tries, row, ids, apiVars, applied, latest>>

\* Mutation of Touched: DO UPDATE SET name = $2 too.
TouchedRenames(r, at) == [r EXCEPT !.seen = at, !.count = @ + 1, !.name = Unedited]

\* ON CONFLICT: the row is there, whoever has inserted it.
Touched(r, at) == [r EXCEPT !.seen = at, !.count = @ + 1]

\* Mutation of Discovered: the id is derived from the unique key.
DiscoveredAgain(id, at) == [id |-> 1, seen |-> at, count |-> 1, name |-> Unedited]

Discovered(id, at) == [id |-> id, seen |-> at, count |-> 1, name |-> Unedited]

Inserts(w) ==
  /\ row = None
  /\ row' = Discovered(ids + 1, upsert[w].at)
  /\ ids' = ids + 1
  /\ applied' = {upsert[w].of}
  /\ latest' = upsert[w].at

\* Mutation of Updates: last_seen_at is the time of the request, not now().
UpdatesToRequest(w) ==
  /\ row # None
  /\ row' = Touched(row, sent[upsert[w].of[1]])
  /\ applied' = applied \cup {upsert[w].of}
  /\ latest' = IF upsert[w].at > latest THEN upsert[w].at ELSE latest
  /\ UNCHANGED ids

Updates(w) ==
  /\ row # None
  /\ row' = Touched(row, upsert[w].at)
  /\ applied' = applied \cup {upsert[w].of}
  /\ latest' = IF upsert[w].at > latest THEN upsert[w].at ELSE latest
  /\ UNCHANGED ids

\* Mutation of UpsertWrites: the statement is sent again when its answer is lost.
UpsertWritesRetries(w) ==
  /\ upsert[w] # None
  /\ Inserts(w) \/ Updates(w)
  /\ \/ upsert' = [upsert EXCEPT ![w] = None]
     \/ UNCHANGED upsert
  /\ UNCHANGED <<now, sent, tries, apiVars>>

UpsertWrites(w) ==
  /\ upsert[w] # None
  /\ Inserts(w) \/ Updates(w)
  /\ upsert' = [upsert EXCEPT ![w] = None]
  /\ UNCHANGED <<now, sent, tries, apiVars>>

-----------------------------------------------------------------------------
(* The API *)

Call == calls < MaxCalls /\ calls' = calls + 1

Found(id) == row # None /\ row.id = id

\* GET /agents or /agents/all: the client learns the ids of the rows.
ListAgents(c) ==
  /\ Call
  /\ put[c] = "idle" /\ row # None
  /\ known' = [known EXCEPT ![c] = row.id]
  /\ UNCHANGED <<now, sent, tries, upsert, row, ids, put, edited, gone, applied, latest>>

\* A GET answers 404 only if there is no such row; the other calls answer any
\* failure with it.
GetAgent(c) ==
  /\ Call
  /\ put[c] = "idle" /\ known[c] > 0
  /\ gone' = IF Found(known[c]) THEN gone ELSE gone \cup {known[c]}
  /\ UNCHANGED <<now, sent, tries, upsert, row, ids, known, put, edited, applied, latest>>

PutAgent(c) ==
  /\ Call
  /\ put[c] = "idle" /\ known[c] > 0
  /\ put' = [put EXCEPT ![c] = "update"]
  /\ UNCHANGED <<now, sent, tries, upsert, row, ids, known, edited, gone, applied, latest>>

\* Mutation of PutUpdates: SET last_seen_at = now() too.
PutTouches(c) ==
  /\ put[c] = "update"
  /\ row' = IF Found(known[c]) THEN [row EXCEPT !.name = c, !.seen = now] ELSE row
  /\ put' = [put EXCEPT ![c] = "read"]
  /\ UNCHANGED <<now, sent, tries, upsert, ids, calls, known, edited, gone, applied, latest>>

\* UPDATE ... WHERE id = $1, which need not find a row: no error.
PutUpdates(c) ==
  /\ put[c] = "update"
  /\ row' = IF Found(known[c]) THEN [row EXCEPT !.name = c] ELSE row
  /\ put' = [put EXCEPT ![c] = "read"]
  /\ UNCHANGED <<now, sent, tries, upsert, ids, calls, known, edited, gone, applied, latest>>

\* The statement fails, and may have taken effect.
PutFails(c) ==
  /\ put[c] = "update"
  /\ \/ UNCHANGED row
     \/ Found(known[c]) /\ row' = [row EXCEPT !.name = c]
  /\ put' = [put EXCEPT ![c] = "idle"]
  /\ UNCHANGED <<now, sent, tries, upsert, ids, calls, known, edited, gone, applied, latest>>

\* The answer shows the row that a second statement reads, or is 404.
PutReads(c) ==
  /\ put[c] = "read"
  /\ \/ Found(known[c]) /\ edited' = edited \cup {known[c]}
     \/ UNCHANGED edited
  /\ put' = [put EXCEPT ![c] = "idle"]
  /\ UNCHANGED <<now, sent, tries, upsert, row, ids, calls, known, gone, applied, latest>>

Removes(c) == Found(known[c]) /\ row' = None /\ applied' = {} /\ latest' = 0

\* The answer says that the row is deleted; or it is 404, for want of the row or
\* because the statement has failed, when it may have taken effect.
DeleteAgent(c) ==
  /\ Call
  /\ put[c] = "idle" /\ known[c] > 0
  /\ \/ Removes(c) /\ gone' = gone \cup {known[c]}
     \/ Removes(c) /\ UNCHANGED gone
     \/ UNCHANGED <<row, applied, latest, gone>>
  /\ UNCHANGED <<now, sent, tries, upsert, ids, known, put, edited>>

-----------------------------------------------------------------------------
IngestNext(w) ==
  \/ \E e \in Requests : UpsertBegins(w, e)
  \/ UpsertFails(w)
  \/ UpsertWrites(w)

ApiNext(c) ==
  \/ ListAgents(c) \/ GetAgent(c) \/ DeleteAgent(c)
  \/ PutAgent(c) \/ PutUpdates(c) \/ PutFails(c) \/ PutReads(c)

Next ==
  \/ Tick
  \/ \E e \in Requests : Request(e)
  \/ \E w \in Ingest : IngestNext(w)
  \/ \E c \in Clients : ApiNext(c)

Spec == Init /\ [][Next]_vars

-----------------------------------------------------------------------------
(* Properties *)

\* last_seen_at.After(cutoff), cutoff = now - 10 minutes
Active(r) == r.seen + Window > now

\* An agent is shown as active only if it has made a request within the window
\* and the time an event may spend in the stream: last_seen_at is the time of
\* the upsert, and redelivery or an edit must not push it any further
\* (agent_repo.go:66, dashboard.go:52).
ActiveIsRecent ==
  row # None /\ Active(row) =>
    \E e \in Requests : sent[e] > 0 /\ sent[e] + MaxLag + Window > now

\* last_seen_at may go back, since now() is the time a statement began and not
\* the time it took the row's lock; but by no more than one statement lasts,
\* however late, often and out of order the events arrive (agent_repo.go:66).
SeenNearlyMonotone == row # None => row.seen + MaxStatement >= latest

Made == {e \in Requests : sent[e] > 0}

\* request_count is the number of upserts applied to the row, no update of a
\* concurrent process is lost and none is applied twice, so it counts every
\* delivery of a request once: it overstates the requests made, if at all, by no
\* more than redelivery may (agent_repo.go:67).
CountIsUpserts ==
  row # None =>
    /\ row.count = Cardinality(applied)
    /\ row.count <= MaxDeliver * Cardinality(Made)

\* A PUT that is answered with the row has set its name, and traffic does not
\* set it back: the answer comes from a second statement, which must not find a
\* row that the first one has missed (agent.go:117-128).
AnsweredEditsStick == row # None /\ row.id \in edited => row.name # Unedited

\* An id that a GET has not found, or a DELETE has removed, is never that of a
\* row again: an agent that comes back with its next request has a new id. The
\* 404 of a DELETE or a PUT says less: it also stands for a failed statement
\* (agent.go:123, agent.go:135).
NotFoundIsFinal == row # None => row.id \notin gone

=============================================================================
