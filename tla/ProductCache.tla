----------------------------- MODULE ProductCache -----------------------------
(***************************************************************************)
(* Products through the cache: GET /products/:id, GET /products/popular    *)
(* and the stock check of POST /cart all go through                        *)
(* CacheService.getOrSet, a look-up, a fetch from the database and a       *)
(* set, with nothing to hold two requests apart.  The cache is the         *)
(* memory of one instance, nothing removes an entry when a product         *)
(* changes, and a fetch that takes long sets what it read over what        *)
(* others have set meanwhile.                                              *)
(*                                                                         *)
(* Time is a clock that ticks at will.  What was read from the database    *)
(* at time t shows the products as they were at t: a value is the time     *)
(* of its read, and its age is how stale it may be.                        *)
(*                                                                         *)
(* A definition named like the one below it with a suffix is a faulty      *)
(* variant of it: no action uses it, and put in the definition's place     *)
(* it makes a property of this module fail.                                *)
(***************************************************************************)
EXTENDS Integers

CONSTANTS
    Instances,  \* Node processes
    Keys,       \* product_detail_<id>, popular_products_<limit>
    Ttl,        \* the TTL each key is set with
    DefaultTtl, \* the TTL of a set that names none
    Requests,   \* calls of getProductById and getPopularProducts
    InstanceOf, \* the instance that serves each
    KeyOf,      \* the key it looks up
    FetchMax,   \* the longest time between the read of a fetch and its set
    MaxTime     \* bound on the clock

ASSUME ProductCacheAssumption ==
    /\ Ttl \in [Keys -> Nat] /\ DefaultTtl \in Nat
    /\ InstanceOf \in [Requests -> Instances]
    /\ KeyOf \in [Requests -> Keys]
    /\ FetchMax \in Nat /\ MaxTime \in Nat

VARIABLES
    clock,
    cache,  \* of each instance and key: see Entry
    pc,     \* where each request is
    value,  \* the time of the read that a request's value comes from
    age,    \* its age when it was answered
    before  \* the requests that had been answered when it arrived

reqVars == <<pc, value, age, before>>
vars == <<clock, cache, reqVars>>

\* asOf: when the value was read; until: the last moment it is served; live: it is there.
Entry == [asOf : Nat, until : Nat, live : BOOLEAN]

TypeOK ==
    /\ clock \in Nat
    /\ cache \in [Instances -> [Keys -> Entry]]
    /\ pc \in [Requests -> {"idle", "lookup", "fetch", "set", "answered", "failed"}]
    /\ value \in [Requests -> Nat]
    /\ age \in [Requests -> Int]
    /\ before \in [Requests -> SUBSET Requests]

Nothing == [asOf |-> 0, until |-> 0, live |-> FALSE]

Init ==
    /\ clock = 0
    /\ cache = [i \in Instances |-> [k \in Keys |-> Nothing]]
    /\ pc = [r \in Requests |-> "idle"]
    /\ value = [r \in Requests |-> 0]
    /\ age = [r \in Requests |-> 0]
    /\ before = [r \in Requests |-> {}]

-----------------------------------------------------------------------------
Goto(r, label) == pc' = [pc EXCEPT ![r] = label]

Cached(r) == cache[InstanceOf[r]][KeyOf[r]]

\* Two requests for one key on one instance.
Same(r, d) == InstanceOf[r] = InstanceOf[d] /\ KeyOf[r] = KeyOf[d]

Answer(r, asOf) ==
    /\ Goto(r, "answered")
    /\ value' = [value EXCEPT ![r] = asOf]
    /\ age' = [age EXCEPT ![r] = clock - asOf]

Ask(r) ==
    /\ pc[r] = "idle"
    /\ Goto(r, "lookup")
    /\ before' = [before EXCEPT ![r] = {d \in Requests : pc[d] = "answered"}]
    /\ UNCHANGED <<clock, cache, value, age>>

\* cacheManager.get: an entry is served until its time is over.
Usable(e) == e.live /\ clock <= e.until

Hit(r) ==
    /\ pc[r] = "lookup"
    /\ Usable(Cached(r))
    /\ Answer(r, Cached(r).asOf)
    /\ UNCHANGED <<clock, cache, before>>

Miss(r) ==
    /\ pc[r] = "lookup"
    /\ ~Usable(Cached(r))
    /\ Goto(r, "fetch")
    /\ UNCHANGED <<clock, cache, value, age, before>>

\* fetchFn: findById, findPopularProducts.
Fetch(r) ==
    /\ pc[r] = "fetch"
    /\ value' = [value EXCEPT ![r] = clock]
    /\ Goto(r, "set")
    /\ UNCHANGED <<clock, cache, age, before>>

\* 'Product not found' or an error of the database: nothing is cached.
FetchFails(r) ==
    /\ pc[r] = "fetch"
    /\ Goto(r, "failed")
    /\ UNCHANGED <<clock, cache, value, age, before>>

\* cacheManager.set: over whatever is there.
LifetimeDefault(k) == DefaultTtl
Lifetime(k) == Ttl[k]

OverwritesIfAbsent(r) == ~Usable(Cached(r))
Overwrites(r) == TRUE

Fill(r) ==
    LET e == [asOf |-> value[r], until |-> clock + Lifetime(KeyOf[r]), live |-> TRUE]
    IN  /\ pc[r] = "set"
        /\ cache' = IF Overwrites(r)
                    THEN [cache EXCEPT ![InstanceOf[r]][KeyOf[r]] = e]
                    ELSE cache
        /\ Answer(r, value[r])
        /\ UNCHANGED <<clock, before>>

\* The process dies: its memory and its requests are gone.
Restart(i) ==
    /\ cache' = [cache EXCEPT ![i] = [k \in Keys |-> Nothing]]
    /\ pc' = [r \in Requests |-> IF InstanceOf[r] = i /\ pc[r] \in {"lookup", "fetch", "set"}
                                 THEN "failed" ELSE pc[r]]
    /\ UNCHANGED <<clock, value, age, before>>

\* Time passes, but no fetch takes longer than FetchMax.
Tick ==
    /\ clock < MaxTime
    /\ \A r \in Requests : pc[r] = "set" => clock - value[r] < FetchMax
    /\ clock' = clock + 1
    /\ UNCHANGED <<cache, reqVars>>

-----------------------------------------------------------------------------
GetOrSet(r) == Hit(r) \/ Miss(r) \/ Fetch(r) \/ FetchFails(r) \/ Fill(r)

Next ==
    \/ \E r \in Requests : Ask(r) \/ GetOrSet(r)
    \/ \E i \in Instances : Restart(i)
    \/ Tick

Spec == Init /\ [][Next]_vars

-----------------------------------------------------------------------------
(* Properties *)

\* No answer shows the products as they were longer ago than the TTL of its key
\* and one fetch: expired entries are not served, a slow fetch does not keep
\* what it read alive any longer than that, and the popular products, with the
\* shorter TTL, are never as old as a detail may be.
BoundedStaleness ==
    \A r \in Requests : pc[r] = "answered" => age[r] <= Ttl[KeyOf[r]] + FetchMax

\* Whoever has seen an answer and asks the same instance again is not sent back in
\* time, but for the length of one fetch: a fetch that was under way may set
\* what it read over what the first answer showed.
BackByOneFetch ==
    \A r \in Requests : \A d \in before[r] :
        pc[r] = "answered" /\ Same(r, d) => value[r] >= value[d] - FetchMax
=============================================================================
