----------------------------- MODULE KeyResolver -----------------------------
(***************************************************************************)
(* The proxy's KeyResolver (internal/proxy/keyresolver.go): a sync.Map of  *)
(* lookups with a time to live in front of the api_keys table, called by   *)
(* concurrent request goroutines without a lock around the whole of        *)
(* Resolve. Keys do not interact, so one key hash is modelled.             *)
(*                                                                         *)
(* The table (internal/adapter/postgres/key_store.go) is read by one query *)
(* per lookup. No code writes it: an operator inserts, replaces,           *)
(* activates and deactivates the row by hand.                              *)
(***************************************************************************)
EXTENDS Integers

CONSTANTS
  Requests,    \* request goroutines
  Mappings,    \* the KeyMappings the row may hold
  Nil,         \* no active row
  NoEntry,     \* the cache has no entry for the hash
  Ttl,         \* the resolver's ttl (main.go: 5 minutes)
  LookupTime,  \* the longest time between the table read and cache.Store
  MaxTime      \* bound on the time a run covers

ASSUME ResolverAssumption ==
  /\ Nil \notin Mappings
  /\ Ttl \in Nat \ {0} /\ LookupTime \in Nat /\ MaxTime \in Nat
  /\ NoEntry \notin [mapping : Mappings \cup {Nil}, expiresAt : Nat]

Value == Mappings \cup {Nil}

\* Time starts late enough that 0 can stand for "never".
Epoch == Ttl + LookupTime + 1
Entry == [mapping : Value, expiresAt : Nat]

VARIABLES
  now,        \* the clock
  row,        \* what LookupByHash would find now
  left,       \* left[v]: when the row last stopped being v, 0 for never
  cache,      \* the sync.Map's entry for the hash
  pc,         \* pc[r]: the next step of Resolve
  entry,      \* entry[r]: the local variable ce
  mapping,    \* mapping[r]: the local variable mapping
  readAt,     \* readAt[r]: when the table was read
  answer      \* answer[r]: the mapping returned, when, and if by a failed lookup

vars == <<now, row, left, cache, pc, entry, mapping, readAt, answer>>

Clock == Epoch..(Epoch + MaxTime)

TypeOK ==
  /\ now \in Clock
  /\ row \in Value
  /\ left \in [Value -> 0..now]
  /\ cache \in Entry \cup {NoEntry}
  /\ pc \in [Requests -> {"load", "check", "evict", "lookup", "store", "done"}]
  /\ entry \in [Requests -> Entry \cup {NoEntry}]
  /\ mapping \in [Requests -> Value]
  /\ readAt \in [Requests -> 0..now]
  /\ answer \in [Requests -> [value : Value, at : 0..now, failed : BOOLEAN]]
  /\ cache # NoEntry => cache.expiresAt <= now + Ttl

NoAnswer == [value |-> Nil, at |-> 0, failed |-> TRUE]

Init ==
  /\ now = Epoch
  /\ row \in Value
  /\ left = [v \in Value |-> 0]
  /\ cache = NoEntry
  /\ pc = [r \in Requests |-> "load"]
  /\ entry = [r \in Requests |-> NoEntry]
  /\ mapping = [r \in Requests |-> Nil]
  /\ readAt = [r \in Requests |-> 0]
  /\ answer = [r \in Requests |-> NoAnswer]

\* Time passes; a lookup that has read the table stores its result in time.
Tick ==
  /\ now < Epoch + MaxTime
  /\ \A r \in Requests : pc[r] = "store" => now < readAt[r] + LookupTime
  /\ now' = now + 1
  /\ UNCHANGED <<row, left, cache, pc, entry, mapping, readAt, answer>>

\* The operator changes the row.
SetRow(v) ==
  /\ v # row
  /\ row' = v
  /\ left' = [left EXCEPT ![row] = now]
  /\ UNCHANGED <<now, cache, pc, entry, mapping, readAt, answer>>

-----------------------------------------------------------------------------
(* Resolve *)

Goes(r, to) == pc[r] = to[1] /\ pc' = [pc EXCEPT ![r] = to[2]]

Returns(r, v, failed) ==
  answer' = [answer EXCEPT ![r] = [value |-> v, at |-> now, failed |-> failed]]

\* cache.Load
Load(r) ==
  /\ Goes(r, <<"load", IF cache = NoEntry THEN "lookup" ELSE "check">>)
  /\ entry' = [entry EXCEPT ![r] = cache]
  /\ UNCHANGED <<now, row, left, cache, mapping, readAt, answer>>

\* Mutation of Hit: the entry's life is extended each time it is used.
HitExtends(r) ==
  /\ Goes(r, <<"check", "done">>)
  /\ now < entry[r].expiresAt
  /\ Returns(r, entry[r].mapping, FALSE)
  /\ cache' = [mapping |-> entry[r].mapping, expiresAt |-> now + Ttl]
  /\ UNCHANGED <<now, row, left, entry, mapping, readAt>>

\* The loaded entry has not expired: its mapping is the answer.
Hit(r) ==
  /\ Goes(r, <<"check", "done">>)
  /\ now < entry[r].expiresAt
  /\ Returns(r, entry[r].mapping, FALSE)
  /\ UNCHANGED <<now, row, left, cache, entry, mapping, readAt>>

Expired(r) ==
  /\ Goes(r, <<"check", "evict">>)
  /\ now >= entry[r].expiresAt
  /\ UNCHANGED <<now, row, left, cache, entry, mapping, readAt, answer>>

\* cache.Delete removes whatever entry is there by now.
Evict(r) ==
  /\ Goes(r, <<"evict", "lookup">>)
  /\ cache' = NoEntry
  /\ UNCHANGED <<now, row, left, entry, mapping, readAt, answer>>

\* LookupByHash reads the table.
Lookup(r) ==
  /\ Goes(r, <<"lookup", "store">>)
  /\ mapping' = [mapping EXCEPT ![r] = row]
  /\ readAt' = [readAt EXCEPT ![r] = now]
  /\ UNCHANGED <<now, row, left, cache, entry, answer>>

\* Mutation of LookupFails: the error is logged and the nil mapping is cached.
LookupFailsCached(r) ==
  /\ Goes(r, <<"lookup", "done">>)
  /\ Returns(r, Nil, TRUE)
  /\ cache' = [mapping |-> Nil, expiresAt |-> now + Ttl]
  /\ UNCHANGED <<now, row, left, entry, mapping, readAt>>

\* LookupByHash fails: nil is returned and nothing is cached.
LookupFails(r) ==
  /\ Goes(r, <<"lookup", "done">>)
  /\ Returns(r, Nil, TRUE)
  /\ UNCHANGED <<now, row, left, cache, entry, mapping, readAt>>

\* Mutation of StoreEntry: the entry never expires in time.
StoreEntryLonger(r) ==
  /\ Goes(r, <<"store", "done">>)
  /\ cache' = [mapping |-> mapping[r], expiresAt |-> now + Ttl + Ttl]
  /\ Returns(r, mapping[r], FALSE)
  /\ UNCHANGED <<now, row, left, entry, mapping, readAt>>

\* cache.Store, even of nil, over whatever entry is there by now.
StoreEntry(r) ==
  /\ Goes(r, <<"store", "done">>)
  /\ cache' = [mapping |-> mapping[r], expiresAt |-> now + Ttl]
  /\ Returns(r, mapping[r], FALSE)
  /\ UNCHANGED <<now, row, left, entry, mapping, readAt>>

\* The goroutine of the next request with this key: its locals start afresh.
Begin(r) ==
  /\ Goes(r, <<"done", "load">>)
  /\ entry' = [entry EXCEPT ![r] = NoEntry]
  /\ mapping' = [mapping EXCEPT ![r] = Nil]
  /\ readAt' = [readAt EXCEPT ![r] = 0]
  /\ answer' = [answer EXCEPT ![r] = NoAnswer]
  /\ UNCHANGED <<now, row, left, cache>>

Resolve(r) ==
  \/ Load(r) \/ Hit(r) \/ Expired(r) \/ Evict(r)
  \/ Lookup(r) \/ LookupFails(r) \/ StoreEntry(r) \/ Begin(r)

Next ==
  \/ Tick
  \/ \E v \in Value : SetRow(v)
  \/ \E r \in Requests : Resolve(r)

Spec == Init /\ [][Next]_vars

-----------------------------------------------------------------------------
(* Properties *)

\* The row was v at some time not before t.
HeldSince(v, t) == row = v \/ left[v] >= t

\* An answer is what the table held not longer ago than a time to live and a
\* lookup: a deactivated key stops working, and a new one starts working, in
\* that time, whatever older lookup overwrites the entry of a newer one
\* (keyresolver.go:52-71). A failed lookup answers nil and must not be cached.
AnswersAreFresh ==
  \A r \in Requests :
    pc[r] = "done" /\ ~answer[r].failed =>
      HeldSince(answer[r].value, answer[r].at - (Ttl + LookupTime))

\* Refinement: to its callers the cache is a read of the table that may be Age
\* old. A call is answered by its return, once, whatever the calls that run next
\* to it load, delete and store (keyresolver.go:48-74).
Returned == [r \in Requests |-> IF pc[r] = "done" THEN answer[r] ELSE NoAnswer]

Stale == INSTANCE StaleRead
  WITH Values <- Value, Age <- Ttl + LookupTime, answer <- Returned

ImplementsStaleRead == Stale!Spec

=============================================================================
