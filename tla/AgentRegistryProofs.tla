------------------------- MODULE AgentRegistryProofs -------------------------
(***************************************************************************)
(* Proofs about AgentRegistry: types, that no agent is linked to a tenant  *)
(* that does not exist, and that no step but a PUT takes a link away, for  *)
(* any number of ingest processes, tenants and API calls.                  *)
(***************************************************************************)
EXTENDS AgentRegistry, TLAPS

\* The row an upsert writes keeps the old link or takes the one it found.
LEMMA UpsertedRow ==
  ASSUME NEW row \in Row \cup {None}, NEW found \in TenantIds \cup {None}
  PROVE  /\ Upserted(row, found) \in Row
         /\ \/ Upserted(row, found).tenant = found
            \/ row # None /\ Upserted(row, found).tenant = row.tenant
  BY RegistryAssumption DEF Upserted, Coalesce, Row

\* The ids that a tenant's name may be resolved to are rows of that name.
LEMMA IdsNamedType ==
  ASSUME NEW n, NEW t \in IdsNamed(n)
  PROVE  t \in TenantIds \cup {None}
  BY DEF IdsNamed

\* Every step keeps the types.
LEMMA TypeStep == TypeOK /\ [Next]_vars => TypeOK'
<1> SUFFICES ASSUME TypeOK, [Next]_vars PROVE TypeOK'
  OBVIOUS
<1> USE RegistryAssumption
<1>1. ASSUME NEW w \in Ingest, NEW k \in Key, UpsertReads(w, k) PROVE TypeOK'
  <2>1. PICK t \in IdsNamed(k[1]) :
          upsert' = [upsert EXCEPT ![w] = [key |-> k, found |-> t]]
    BY <1>1 DEF UpsertReads
  <2>2. [key |-> k, found |-> t] \in [key : Key, found : TenantIds \cup {None}]
    BY <2>1, IdsNamedType
  <2>. QED BY <1>1, <2>1, <2>2 DEF TypeOK, UpsertReads
<1>2. ASSUME NEW w \in Ingest, UpsertWrites(w) PROVE TypeOK'
  <2>1. upsert[w] \in [key : Key, found : TenantIds \cup {None}]
    BY <1>2 DEF TypeOK, UpsertWrites
  <2>2. Upserted(agent[upsert[w].key], upsert[w].found) \in Row
    BY <2>1, UpsertedRow DEF TypeOK
  <2>3. agent' \in [Key -> Row \cup {None}]
    BY <1>2, <2>1, <2>2 DEF TypeOK, UpsertWrites
  <2>4. upsert' \in [Ingest -> [key : Key, found : TenantIds \cup {None}] \cup {None}]
    BY <1>2 DEF TypeOK, UpsertWrites
  <2>. QED BY <1>2, <2>3, <2>4 DEF TypeOK, UpsertWrites
<1>3. ASSUME NEW t \in TenantIds, NEW n \in Names,
             CreateTenant(t, n) \/ RenameTenant(t, n)
      PROVE  TypeOK'
  BY <1>3 DEF TypeOK, CreateTenant, RenameTenant, Call
<1>4. ASSUME NEW t \in TenantIds, DeleteTenant(t) PROVE TypeOK'
  BY <1>4 DEF TypeOK, DeleteTenant, Call
<1>5. ASSUME NEW k \in Key, NEW s \in {"active", "disabled"},
             NEW t \in TenantIds \cup {None}, EditAgent(k, s, t)
      PROVE  TypeOK'
  BY <1>5 DEF TypeOK, EditAgent, Call, Row
<1>6. ASSUME NEW k \in Key, DeleteAgent(k) PROVE TypeOK'
  BY <1>6 DEF TypeOK, DeleteAgent, Call
<1>7. CASE UNCHANGED vars
  BY <1>7 DEF TypeOK, vars
<1>. QED
  BY <1>1, <1>2, <1>3, <1>4, <1>5, <1>6, <1>7 DEF Next, ApiNext, IngestNext

\* The variables of AgentRegistry keep their types, whatever the processes and
\* the API do.
THEOREM TypeCorrect == Spec => []TypeOK
<1>1. Init => TypeOK
  BY RegistryAssumption DEF Init, TypeOK
<1>2. TypeOK /\ [Next]_vars => TypeOK'
  BY TypeStep
<1>. QED BY <1>1, <1>2, PTL DEF Spec

\* A link is written only to a tenant that exists at that moment, and a tenant
\* is deleted only when no agent is linked to it.
LEMMA LinksStep == TypeOK /\ LinkedTenantsExist /\ [Next]_vars => LinkedTenantsExist'
<1> SUFFICES ASSUME TypeOK, LinkedTenantsExist, [Next]_vars,
                    NEW k \in Key, agent'[k] # None, agent'[k].tenant # None
             PROVE  tenant'[agent'[k].tenant] # None
  BY DEF LinkedTenantsExist
<1> USE RegistryAssumption
<1>1. agent[k] # None => agent[k] \in Row
  BY DEF TypeOK
<1>2. CASE UNCHANGED <<tenant, agent>>
  BY <1>2 DEF LinkedTenantsExist
<1>3. ASSUME NEW w \in Ingest, UpsertWrites(w)
      PROVE  tenant'[agent'[k].tenant] # None
  <2> DEFINE t == upsert[w].found
             u == upsert[w].key
  <2>1. u \in Key /\ t \in TenantIds \cup {None}
    BY <1>3 DEF TypeOK, UpsertWrites
  <2>2. CASE k # u \/ (t # None /\ tenant[t] = None)
    <3>1. agent'[k] = agent[k] /\ tenant' = tenant
      BY <1>3, <2>1, <2>2 DEF TypeOK, UpsertWrites
    <3>. QED BY <3>1 DEF LinkedTenantsExist
  <2>3. CASE k = u /\ (t = None \/ tenant[t] # None)
    <3>1. agent'[k] = Upserted(agent[k], t) /\ tenant' = tenant
      BY <1>3, <2>1, <2>3 DEF TypeOK, UpsertWrites
    <3>2. \/ agent'[k].tenant = t
          \/ agent[k] # None /\ agent'[k].tenant = agent[k].tenant
      BY <2>1, <3>1, UpsertedRow DEF TypeOK
    <3>. QED BY <2>3, <3>1, <3>2 DEF LinkedTenantsExist
  <2>. QED BY <2>2, <2>3
<1>4. ASSUME NEW t \in TenantIds, NEW n \in Names,
             CreateTenant(t, n) \/ RenameTenant(t, n)
      PROVE  tenant'[agent'[k].tenant] # None
  <2>1. agent' = agent /\ tenant' = [tenant EXCEPT ![t] = n] /\ n # None
    BY <1>4 DEF CreateTenant, RenameTenant
  <2>. QED BY <1>1, <2>1 DEF LinkedTenantsExist, TypeOK, Row
<1>5. ASSUME NEW t \in TenantIds, DeleteTenant(t)
      PROVE  tenant'[agent'[k].tenant] # None
  <2>1. agent' = agent /\ tenant' = [tenant EXCEPT ![t] = None]
    BY <1>5 DEF DeleteTenant
  <2>2. agent[k].tenant # t
    BY <1>5, <2>1 DEF DeleteTenant, Linked
  <2>. QED BY <1>1, <2>1, <2>2 DEF LinkedTenantsExist, TypeOK, Row
<1>6. ASSUME NEW j \in Key, NEW s \in {"active", "disabled"},
             NEW t \in TenantIds \cup {None}, EditAgent(j, s, t)
      PROVE  tenant'[agent'[k].tenant] # None
  BY <1>6 DEF EditAgent, LinkedTenantsExist, TypeOK
<1>7. ASSUME NEW j \in Key, DeleteAgent(j)
      PROVE  tenant'[agent'[k].tenant] # None
  BY <1>7 DEF DeleteAgent, LinkedTenantsExist, TypeOK
<1>8. ASSUME NEW w \in Ingest, NEW j \in Key, UpsertReads(w, j)
      PROVE  UNCHANGED <<tenant, agent>>
  BY <1>8 DEF UpsertReads
<1>. QED
  BY <1>2, <1>3, <1>4, <1>5, <1>6, <1>7, <1>8 DEF Next, ApiNext, IngestNext, vars

\* The foreign key of agents.tenant_id (001_init.up.sql:20) holds between the
\* statements of any number of processes, although an upsert acts on a tenant
\* it has read earlier.
THEOREM LinksAreSound == Spec => []LinkedTenantsExist
<1>1. Init => LinkedTenantsExist
  BY DEF Init, LinkedTenantsExist
<1>2. TypeOK /\ LinkedTenantsExist /\ [Next]_vars => LinkedTenantsExist'
  BY LinksStep
<1>. QED BY <1>1, <1>2, TypeCorrect, PTL DEF Spec

\* An upsert that finds no tenant keeps the link that is there.
LEMMA UpsertKeeps ==
  ASSUME NEW row \in Row, row.tenant # None, NEW found \in TenantIds \cup {None}
  PROVE  Upserted(row, found).tenant # None
  BY RegistryAssumption DEF Upserted, Coalesce, Row

\* A link that a step takes away is taken away by a PUT.
LEMMA UnlinkStep ==
  ASSUME TypeOK, [Next]_vars, NEW k \in Key,
         agent[k] # None, agent[k].tenant # None,
         agent'[k] # None, agent'[k].tenant = None
  PROVE  \E s \in {"active", "disabled"} : EditAgent(k, s, None)
<1> USE RegistryAssumption
<1>1. agent[k] \in Row /\ agent' # agent
  BY DEF TypeOK
<1>2. ASSUME NEW w \in Ingest, UpsertWrites(w) PROVE FALSE
  <2> DEFINE t == upsert[w].found
             u == upsert[w].key
  <2>1. u \in Key /\ t \in TenantIds \cup {None}
    BY <1>2 DEF TypeOK, UpsertWrites
  <2>2. agent'[k] = agent[k] \/ (k = u /\ agent'[k] = Upserted(agent[k], t))
    BY <1>2, <2>1 DEF TypeOK, UpsertWrites
  <2>. QED BY <1>1, <2>1, <2>2, UpsertKeeps
<1>3. ASSUME NEW j \in Key, NEW s \in {"active", "disabled"},
             NEW t \in TenantIds \cup {None}, EditAgent(j, s, t)
      PROVE  j = k /\ t = None
  BY <1>3 DEF EditAgent, TypeOK
<1>4. ASSUME NEW j \in Key, DeleteAgent(j) PROVE FALSE
  BY <1>4 DEF DeleteAgent, TypeOK
<1>5. ASSUME NEW t \in TenantIds PROVE /\ ~DeleteTenant(t)
                                      /\ \A n \in Names : ~CreateTenant(t, n) /\ ~RenameTenant(t, n)
  BY <1>1 DEF DeleteTenant, CreateTenant, RenameTenant
<1>6. ASSUME NEW w \in Ingest, NEW j \in Key PROVE ~UpsertReads(w, j)
  BY <1>1 DEF UpsertReads
<1>. QED
  BY <1>1, <1>2, <1>3, <1>4, <1>5, <1>6 DEF Next, ApiNext, IngestNext, vars

\* Traffic never takes an agent's link away, whatever happens to its tenant's
\* name (agent_repo.go:62-65): a step that does is a PUT without a tenant_id.
THEOREM NoUnlink == Spec => OnlyEditsUnlink
<1>1. TypeOK /\ [Next]_vars =>
        [\A k \in Key :
           agent[k] # None /\ agent[k].tenant # None
             /\ agent'[k] # None /\ agent'[k].tenant = None
           => \E s \in {"active", "disabled"} : EditAgent(k, s, None)]_vars
  BY UnlinkStep
<1>. QED BY <1>1, TypeCorrect, PTL DEF Spec, OnlyEditsUnlink

=============================================================================
