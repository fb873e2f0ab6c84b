----------------------------- MODULE Attribution -----------------------------
(***************************************************************************)
(* Whom the proxy's requests are attributed to while their API key is      *)
(* created, changed and deactivated in the store: ProxyRequest's handlers  *)
(* composed with what the key resolver promises, StaleRead, which          *)
(* KeyResolver implements. A call of Resolve is one step of both.          *)
(*                                                                         *)
(*   internal/proxy/tagger.go:34-73, the call of Resolve at line 47        *)
(*   cmd/meowsight-proxy/main.go:47-63, 96-98 (the pool's life)            *)
(*                                                                         *)
(* Keys do not interact, so the requests WithKey carry one and the same.   *)
(***************************************************************************)
EXTENDS ProxyRequest, Integers

CONSTANTS
  Age,       \* how old an answer may be: a time to live and a lookup
  MaxTime    \* bound on the time a run covers

ASSUME AttributionAssumption == Age \in Nat /\ MaxTime \in Nat

VARIABLES
  now,       \* the clock
  row,       \* the mapping the store holds for the key, or Nil
  left,      \* left[v]: when the row last stopped being v, 0 for never
  answer     \* answer[r]: what Resolve returned to r, when, and if for an error

resolverVars == <<now, row, left, answer>>
allVars == <<vars, resolverVars>>

Resolver == INSTANCE StaleRead WITH Values <- Mappings \cup {Nil}

\* Time starts late enough that 0 can stand for "never".
AttributionInit ==
  /\ Init
  /\ now = Age + 1
  /\ Resolver!Init

Tick == now <= Age + MaxTime /\ Resolver!Tick /\ UNCHANGED vars

\* An operator creates, changes or deactivates the key by hand.
SetRow(v) == Resolver!SetRow(v) /\ UNCHANGED vars

\* The handler of r gets its answer, and tags the request.
Answered(r, m) == Resolves(r, m) /\ Resolver!Answer(r, m)
Refused(r) == ResolveFails(r) /\ Resolver!Fail(r)

Unanswered == Serve /\ UNCHANGED resolverVars

AttributionNext ==
  \/ Tick
  \/ \E v \in Mappings \cup {Nil} : SetRow(v)
  \/ \E r \in Requests : Refused(r) \/ \E m \in Mappings \cup {Nil} : Answered(r, m)
  \/ Unanswered

AttributionSpec == AttributionInit /\ [][AttributionNext]_allVars

-----------------------------------------------------------------------------
(* Properties *)

\* The store held v for the key not longer than Age before r was answered.
HeldFor(r, v) == Resolver!HeldSince(v, answer[r].at - Age)

\* A request that carries the key, and lacks a header, goes upstream in the name
\* of what the store held for the key when the request was tagged, or within a
\* time to live and a lookup before: of a mapping, and with the key swapped, or
\* of default/unknown if the store knew no mapping at such a time (a cached miss
\* outlives the creation of the key, keyresolver.go:67-71). If the call failed it
\* goes as default/unknown as well: the pool closed by a shutdown, the client
\* gone, the store failing. Its event says the same (tagger.go:45-72). So a key
\* unchanged for longer than that is attributed rightly unless the call fails,
\* and a deactivated one stops working in that time.
AttributedByTheTable ==
  \A r \in WithKey :
    /\ ~HasBoth(r) /\ pc[r] \notin {"idle", "tag", "lookup"} /\ end[r] # "cut"
    =>
      /\ answer[r].at > 0
      /\ IF answer[r].failed
         THEN /\ who[r] = Identity(r, Unknown)
              /\ mode # "up" \/ client[r] = "gone" \/ StoreMayFail
         ELSE \E m \in Mappings \cup {Nil} : who[r] = Identity(r, Base(m)) /\ HeldFor(r, m)
      /\ emitted[r] # <<>> => emitted[r][1].who = who[r]

=============================================================================
