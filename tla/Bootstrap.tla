------------------------------ MODULE Bootstrap ------------------------------
(***************************************************************************)
(* The start of the whole stack: API replicas that run the migrations, one *)
(* proxy and one ingest process, in any order, while NATS comes and goes.  *)
(* The proxy decides once, when it starts, whether it publishes its events *)
(* or only logs them; the ingest needs NATS to start at all, but not the   *)
(* schema, which the API makes while events are already being delivered.   *)
(*                                                                         *)
(*   cmd/meowsight-proxy/main.go:36-55, cmd/meowsight-ingest/main.go       *)
(*   internal/adapter/nats/emitter.go, consumer.go (the constructors)      *)
(*   docker-compose.yml (who waits for whom)                               *)
(*                                                                         *)
(* Delivery is EventPipeline's subject: here the handlers succeed or fail  *)
(* as one, for want of a table only, and an answer of the ingest is lost   *)
(* only with the process or its connection. The databases are up.          *)
(***************************************************************************)
EXTENDS Migrations

CONSTANTS
  Events,       \* the events of the proxy's requests
  Needed,       \* the files that make the tables the ingest writes to
  MaxDeliver,   \* attempts to deliver an event
  MaxOutages    \* bound on the outages of NATS

ASSUME BootstrapAssumption ==
  /\ Needed \subseteq File
  /\ MaxDeliver \in Nat \ {0} /\ MaxOutages \in Nat

Clients == {"proxy", "ingest"}

VARIABLES
  nats,      \* TRUE iff the NATS server can be reached
  outages,   \* outages so far, at most MaxOutages
  away,      \* away[c]: NATS has been away since c began to connect to it
  stream,    \* TRUE iff the EVENTS stream exists
  mode,      \* mode[c]: "down", "connecting", "up", "logging" or "closed"
  event,     \* event[e]: "none", "stored", "handled", "logged" or "lost"
  tries,     \* tries[e]: deliveries of e, which JetStream counts
  held,      \* the events that are delivered to the ingest and not answered
  served     \* history: a replica has served

eventVars == <<event, tries, held>>
natsVars == <<nats, outages, away, stream, mode, eventVars>>
apiVars == <<vars, served>>
stackVars == <<apiVars, natsVars>>

StackTypeOK ==
  /\ nats \in BOOLEAN /\ outages \in 0..MaxOutages
  /\ away \in [Clients -> BOOLEAN]
  /\ stream \in BOOLEAN
  /\ mode \in [Clients -> {"down", "connecting", "up", "logging", "closed"}]
  /\ event \in [Events -> {"none", "stored", "handled", "logged", "lost"}]
  /\ tries \in [Events -> 0..MaxDeliver]
  /\ held \subseteq Events /\ served \in BOOLEAN

StackInit ==
  /\ Init
  /\ nats \in BOOLEAN /\ outages = 0
  /\ away = [c \in Clients |-> FALSE]
  /\ stream = FALSE
  /\ mode = [c \in Clients |-> "down"]
  /\ event = [e \in Events |-> "none"]
  /\ tries = [e \in Events |-> 0]
  /\ held = {} /\ served = FALSE

-----------------------------------------------------------------------------
(* NATS *)

NatsUp ==
  /\ ~nats
  /\ nats' = TRUE
  /\ UNCHANGED <<apiVars, outages, away, stream, mode, eventVars>>

NatsDown ==
  /\ nats /\ outages < MaxOutages
  /\ nats' = FALSE /\ outages' = outages + 1
  /\ away' = [c \in Clients |-> TRUE]
  /\ UNCHANGED <<apiVars, stream, mode, eventVars>>

-----------------------------------------------------------------------------
(* The processes *)

Becomes(c, m) == mode' = [mode EXCEPT ![c] = m]

\* A process starts and reaches the connection to NATS: the ingest after it has
\* pinged ClickHouse, twice, and PostgreSQL.
Begin(c) ==
  /\ mode[c] = "down"
  /\ Becomes(c, "connecting")
  /\ away' = [away EXCEPT ![c] = ~nats]
  /\ UNCHANGED <<apiVars, nats, outages, stream, eventVars>>

\* What c leaves unanswered counts as delivered, and comes back after AckWait.
LeavesUnanswered(c) ==
  /\ held' = (IF c = "ingest" THEN {} ELSE held)
  /\ UNCHANGED <<event, tries>>

\* It crashes, or the ingest's first use of a database fails.
Dies(c) ==
  /\ mode[c] # "down" /\ crashes < MaxCrashes
  /\ crashes' = crashes + 1
  /\ Becomes(c, "down")
  /\ LeavesUnanswered(c)
  /\ UNCHANGED <<done, recorded, pc, file, stmt, served, nats, outages, away, stream>>

\* Mutation of CreatesStream: the ingest expects the stream to be there.
CreatesStreamOnEmit(c) ==
  /\ mode[c] = "connecting" /\ nats
  /\ c = "ingest" => stream
  /\ stream' = TRUE
  /\ Becomes(c, "up")
  /\ UNCHANGED <<apiVars, nats, outages, away, eventVars>>

\* CreateOrUpdateStream, on both sides: whoever comes first creates it.
CreatesStream(c) ==
  /\ mode[c] = "connecting" /\ nats
  /\ stream' = TRUE
  /\ Becomes(c, "up")
  /\ UNCHANGED <<apiVars, nats, outages, away, eventVars>>

\* Mutation of TimesOut: a stream that exists is an error.
TimesOutIfExists(c) ==
  /\ mode[c] = "connecting" /\ (away[c] \/ stream)
  /\ Becomes(c, IF c = "proxy" THEN "logging" ELSE "down")
  /\ UNCHANGED <<apiVars, nats, outages, away, stream, eventVars>>

\* Connect does not fail while NATS is away (RetryOnFailedConnect), the request
\* that creates the stream does, after five seconds. The proxy then logs its
\* events for good; the ingest exits.
TimesOut(c) ==
  /\ mode[c] = "connecting" /\ away[c]
  /\ Becomes(c, IF c = "proxy" THEN "logging" ELSE "down")
  /\ UNCHANGED <<apiVars, nats, outages, away, stream, eventVars>>

\* MaxReconnects(10): the client gives the connection up for good, and the
\* answers it has not sent.
GivesUp(c) ==
  /\ mode[c] = "up" /\ ~nats
  /\ Becomes(c, "closed")
  /\ LeavesUnanswered(c)
  /\ UNCHANGED <<apiVars, nats, outages, away, stream>>

-----------------------------------------------------------------------------
(* Events *)

\* What can become of an event that is emitted now. A publish fails if NATS is
\* away for too long, and also if it refuses the subject, which holds the tenant
\* as the client sent it, or answers late: the event is lost then.
Outcomes ==
  CASE mode["proxy"] = "logging" -> {"logged"}
    [] mode["proxy"] = "closed" -> {"lost"}
    [] mode["proxy"] = "up" -> {"stored", "lost"}
    [] OTHER -> {}

Emit(e) ==
  /\ event[e] = "none"
  /\ \E o \in Outcomes : event' = [event EXCEPT ![e] = o]
  /\ UNCHANGED <<apiVars, nats, outages, away, stream, mode, tries, held>>

\* The tables are there.
Prepared == \A f \in Needed : done[f] = Files[f].stmts

Connected == mode["ingest"] = "up" /\ nats

\* Mutation of Deliver: one delivery too many.
DeliverOnceMore(e) ==
  /\ Connected
  /\ event[e] = "stored" /\ e \notin held /\ tries[e] <= MaxDeliver
  /\ tries' = [tries EXCEPT ![e] = @ + 1]
  /\ held' = held \cup {e}
  /\ UNCHANGED <<apiVars, nats, outages, away, stream, mode, event>>

Deliver(e) ==
  /\ Connected
  /\ event[e] = "stored" /\ e \notin held /\ tries[e] < MaxDeliver
  /\ tries' = [tries EXCEPT ![e] = @ + 1]
  /\ held' = held \cup {e}
  /\ UNCHANGED <<apiVars, nats, outages, away, stream, mode, event>>

\* A handler fails, and the Nak makes the event come back at once.
HandleFails(e) ==
  /\ Connected /\ e \in held /\ ~Prepared
  /\ held' = held \ {e}
  /\ UNCHANGED <<apiVars, nats, outages, away, stream, mode, event, tries>>

Handle(e) ==
  /\ Connected /\ e \in held /\ Prepared
  /\ event' = [event EXCEPT ![e] = "handled"]
  /\ held' = held \ {e}
  /\ UNCHANGED <<apiVars, nats, outages, away, stream, mode, tries>>

-----------------------------------------------------------------------------
Connects(c) == CreatesStream(c) \/ TimesOut(c)

\* What a step of the migrations means for the rest of the stack.
Beside ==
  /\ served' = (served \/ \E r \in Replicas : pc'[r] = "serving")
  /\ UNCHANGED natsVars

StackNext ==
  \/ Next /\ Beside
  \/ NatsUp \/ NatsDown
  \/ \E c \in Clients : Begin(c) \/ Connects(c) \/ GivesUp(c) \/ Dies(c)
  \/ \E e \in Events : Emit(e) \/ Deliver(e) \/ HandleFails(e) \/ Handle(e)

\* What is down is started again, and what runs goes on; NATS may stay away.
StackSpec ==
  /\ StackInit /\ [][StackNext]_stackVars
  /\ \A r \in Replicas : WF_stackVars(Step(r) /\ Beside)
  /\ \A c \in Clients : WF_stackVars(Begin(c)) /\ WF_stackVars(Connects(c))
  /\ \A e \in Events : WF_stackVars(Deliver(e) \/ HandleFails(e) \/ Handle(e))

-----------------------------------------------------------------------------
(* Properties *)

\* Deliveries fail for want of a table only while the API is at its migrations:
\* once a replica has served, be it gone again, a delivery ends unhandled only
\* because the ingest dies or its connection is closed (docker-compose.yml lets
\* the ingest start as soon as the API's process has).
FailsOnlyBeforeServing ==
  [][\A e \in held \ held' :
       served => event'[e] = "handled" \/ mode'["ingest"] # "up"]_stackVars

\* Which of the processes comes up first, and creates the stream, is never the
\* reason why a proxy does not publish (proxy main.go:36-44): one that NATS does
\* not leave ends up publishing. It stays with logging, or closed, only after an
\* outage that began, or lasted, while it ran.
PublishesUnlessOutage ==
  <>[](nats /\ ~away["proxy"]) => <>[](mode["proxy"] = "up")

\* "ingest may boot first - make it idempotent here so startup ordering doesn't
\* matter" (consumer.go:43-45): once NATS is there to stay, the ingest ends up
\* running, whatever the proxy does, and has handled every stored event that did
\* not use up its attempts; unless an outage has closed its connection for good.
OrderDoesNotMatter ==
  <>[]nats =>
    <>[]( \/ mode["ingest"] = "closed"
          \/ /\ mode["ingest"] = "up"
             /\ \A e \in Events : event[e] = "stored" => tries[e] = MaxDeliver )

=============================================================================
