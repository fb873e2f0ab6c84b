---------------------------- MODULE AgentRegistry ----------------------------
(***************************************************************************)
(* The tenants and agents tables in PostgreSQL, written from two sides:    *)
(* the ingest processes upsert an agent for every event they handle, and   *)
(* the API creates, renames and deletes tenants and edits and deletes      *)
(* agents.                                                                 *)
(*                                                                         *)
(*   internal/adapter/postgres/agent_repo.go, tenant_repo.go               *)
(*   internal/handler/httpapi/agent.go, tenant.go                          *)
(*   migrations/postgres/001_init.up.sql                                   *)
(*                                                                         *)
(* A statement is atomic, except that an upsert looks the tenant up in its *)
(* snapshot and the foreign key is checked when it writes. The columns no  *)
(* statement reads back (plan, key hash, provider, model, counts, times)   *)
(* are left out.                                                           *)
(***************************************************************************)
EXTENDS Naturals, FiniteSets

CONSTANTS
  TenantIds,   \* the UUIDs tenants get
  Names,       \* tenant names, which events carry as external tenant ids
  AgentIds,    \* external agent ids
  Ingest,      \* ingest processes that upsert agents
  None,        \* SQL NULL, or no row
  MaxCalls     \* bound on the API calls of a run

ASSUME RegistryAssumption ==
  /\ None \notin TenantIds \cup Names
  /\ None \notin [status : {"active", "disabled"}, tenant : TenantIds \cup {None}]
  /\ MaxCalls \in Nat

\* UNIQUE(external_tenant_id, external_agent_id)
Key == Names \X AgentIds
Row == [status : {"active", "disabled"}, tenant : TenantIds \cup {None}]

VARIABLES
  tenant,   \* tenant[t]: the name of the row with id t, or None
  used,     \* the UUIDs given out so far
  agent,    \* agent[k]: the row with unique key k, or None
  upsert,   \* upsert[w]: the running upsert of w: its key and the tenant found
  calls     \* API calls so far, at most MaxCalls

vars == <<tenant, used, agent, upsert, calls>>

TypeOK ==
  /\ tenant \in [TenantIds -> Names \cup {None}]
  /\ used \subseteq TenantIds
  /\ agent \in [Key -> Row \cup {None}]
  /\ upsert \in [Ingest -> [key : Key, found : TenantIds \cup {None}] \cup {None}]
  /\ calls \in 0..MaxCalls

Init ==
  /\ tenant = [t \in TenantIds |-> None]
  /\ used = {}
  /\ agent = [k \in Key |-> None]
  /\ upsert = [w \in Ingest |-> None]
  /\ calls = 0

-----------------------------------------------------------------------------
(* AgentRepo.Upsert, called by the ingest's agent handler *)

\* The ids SELECT id FROM tenants WHERE name = n LIMIT 1 may return: names are
\* not unique, and the query states no order.
IdsNamed(n) ==
  LET ids == {t \in TenantIds : tenant[t] = n}
  IN  IF ids = {} THEN {None} ELSE ids

\* The statement begins: the subquery sees the tenants of its snapshot.
UpsertReads(w, k) ==
  /\ upsert[w] = None
  /\ \E t \in IdsNamed(k[1]) : upsert' = [upsert EXCEPT ![w] = [key |-> k, found |-> t]]
  /\ UNCHANGED <<tenant, used, agent, calls>>

\* COALESCE(a, b)
Coalesce(a, b) == IF a # None THEN a ELSE b

Upserted(row, found) ==
  [status |-> "active",
   tenant |-> IF row = None THEN found ELSE Coalesce(found, row.tenant)]

\* Mutation of UpsertWrites: COALESCE with its arguments swapped.
UpsertKeepsLink(w) ==
  /\ upsert[w] # None
  /\ LET k == upsert[w].key
         row == agent[k]
         link == IF row = None THEN upsert[w].found
                 ELSE Coalesce(row.tenant, upsert[w].found)
     IN  agent' = [agent EXCEPT ![k] =
                     IF link # None /\ tenant[link] = None THEN @
                     ELSE [status |-> "active", tenant |-> link]]
  /\ upsert' = [upsert EXCEPT ![w] = None]
  /\ UNCHANGED <<tenant, used, calls>>

\* Mutation of UpsertWrites: no COALESCE.
UpsertOverwritesLink(w) ==
  /\ upsert[w] # None
  /\ LET t == upsert[w].found
     IN  agent' = [agent EXCEPT ![upsert[w].key] =
                     IF t # None /\ tenant[t] = None THEN @
                     ELSE [status |-> "active", tenant |-> t]]
  /\ upsert' = [upsert EXCEPT ![w] = None]
  /\ UNCHANGED <<tenant, used, calls>>

\* Mutation of UpsertWrites: the foreign key is not checked.
UpsertUnchecked(w) ==
  /\ upsert[w] # None
  /\ agent' = [agent EXCEPT ![upsert[w].key] = Upserted(@, upsert[w].found)]
  /\ upsert' = [upsert EXCEPT ![w] = None]
  /\ UNCHANGED <<tenant, used, calls>>

\* The statement inserts or updates the row, or fails on the foreign key if the
\* tenant it found has been deleted since: the handler's error makes the event
\* come back.
UpsertWrites(w) ==
  /\ upsert[w] # None
  /\ LET t == upsert[w].found
     IN  agent' = [agent EXCEPT ![upsert[w].key] =
                     IF t # None /\ tenant[t] = None THEN @ ELSE Upserted(@, t)]
  /\ upsert' = [upsert EXCEPT ![w] = None]
  /\ UNCHANGED <<tenant, used, calls>>

-----------------------------------------------------------------------------
(* The API *)

Call == calls < MaxCalls /\ calls' = calls + 1

CreateTenant(t, n) ==
  /\ Call
  /\ t \notin used
  /\ used' = used \cup {t}
  /\ tenant' = [tenant EXCEPT ![t] = n]
  /\ UNCHANGED <<agent, upsert>>

RenameTenant(t, n) ==
  /\ Call
  /\ tenant[t] # None
  /\ tenant' = [tenant EXCEPT ![t] = n]
  /\ UNCHANGED <<used, agent, upsert>>

Linked(t) == {k \in Key : agent[k] # None /\ agent[k].tenant = t}

\* DELETE of a tenant that agents refer to fails on the foreign key (and is
\* answered, as every error here is, with 404): it changes nothing.
DeleteTenant(t) ==
  /\ Call
  /\ tenant[t] # None /\ Linked(t) = {}
  /\ tenant' = [tenant EXCEPT ![t] = None]
  /\ UNCHANGED <<used, agent, upsert>>

\* PUT with a tenant_id, or without one (t = None), sets all three columns. It
\* changes nothing if the tenant does not exist.
EditAgent(k, status, t) ==
  /\ Call
  /\ agent[k] # None
  /\ t # None => tenant[t] # None
  /\ agent' = [agent EXCEPT ![k] = [status |-> status, tenant |-> t]]
  /\ UNCHANGED <<tenant, used, upsert>>

\* Mutation of DeleteAgent: the row is marked instead of removed.
DeleteAgentSoftly(k) ==
  /\ Call
  /\ agent[k] # None
  /\ agent' = [agent EXCEPT ![k].status = "deleted"]
  /\ UNCHANGED <<tenant, used, upsert>>

DeleteAgent(k) ==
  /\ Call
  /\ agent[k] # None
  /\ agent' = [agent EXCEPT ![k] = None]
  /\ UNCHANGED <<tenant, used, upsert>>

-----------------------------------------------------------------------------
ApiNext ==
  \/ \E t \in TenantIds :
       \/ \E n \in Names : CreateTenant(t, n) \/ RenameTenant(t, n)
       \/ DeleteTenant(t)
  \/ \E k \in Key :
       \/ \E s \in {"active", "disabled"}, t \in TenantIds \cup {None} : EditAgent(k, s, t)
       \/ DeleteAgent(k)

IngestNext(w) == UpsertWrites(w) \/ \E k \in Key : UpsertReads(w, k)

Next == ApiNext \/ \E w \in Ingest : IngestNext(w)

Spec == Init /\ [][Next]_vars

\* A statement that has begun ends, and every agent keeps sending requests.
FairSpec ==
  /\ Spec
  /\ \A w \in Ingest : WF_vars(UpsertWrites(w))
  /\ \A k \in Key : SF_vars(\E w \in Ingest : UpsertReads(w, k))

-----------------------------------------------------------------------------
(* Properties *)

\* REFERENCES tenants(id) (001_init.up.sql:20): no agent is linked to a tenant
\* that does not exist, although an upsert may have found the tenant before it
\* was deleted.
LinkedTenantsExist ==
  \A k \in Key : agent[k] # None /\ agent[k].tenant # None =>
    tenant[agent[k].tenant] # None

\* Traffic never unlinks an agent, whatever happens to its tenant's name: a step
\* that takes a link away is a PUT (agent_repo.go:62-65).
OnlyEditsUnlink ==
  [][\A k \in Key :
       agent[k] # None /\ agent[k].tenant # None
         /\ agent'[k] # None /\ agent'[k].tenant = None
       => \E s \in {"active", "disabled"} : EditAgent(k, s, None)]_vars

LinkedByName(k) ==
  agent[k] # None /\ agent[k].tenant # None /\ tenant[agent[k].tenant] = k[1]

\* "If a tenant with a matching name exists, the agent is automatically linked
\* via tenant_id FK" (agent_repo.go:49): once a tenant of that name is there to
\* stay, every agent that keeps sending requests ends up, and stays, linked to a
\* tenant of that name, whatever link it had before.
TrafficLinksAgents ==
  \A k \in Key :
    <>[](\E t \in TenantIds : tenant[t] = k[1]) => <>[]LinkedByName(k)

=============================================================================
