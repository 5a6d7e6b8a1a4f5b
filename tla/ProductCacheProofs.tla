------------------------- MODULE ProductCacheProofs -------------------------
(***************************************************************************)
(* Proofs about ProductCache, for any number of instances, keys and        *)
(* requests, any TTLs, and any length of a fetch.                          *)
(***************************************************************************)
EXTENDS ProductCache, TLAPS

THEOREM TypeCorrect == Spec => []TypeOK
<1>1. Init => TypeOK
  BY DEF Init, TypeOK, Nothing, Entry
<1>2. TypeOK /\ [Next]_vars => TypeOK'
  <2> SUFFICES ASSUME TypeOK, [Next]_vars PROVE TypeOK'
    OBVIOUS
  <2> USE ProductCacheAssumption
  <2>1. ASSUME NEW r \in Requests, Ask(r) PROVE TypeOK'
    BY <2>1 DEF Ask, TypeOK, Goto
  <2>2. ASSUME NEW r \in Requests, Hit(r) PROVE TypeOK'
    <3>1. Cached(r).asOf \in Nat
      BY DEF TypeOK, Cached, Entry
    <3> QED BY <2>2, <3>1 DEF Hit, TypeOK, Goto, Answer
  <2>3. ASSUME NEW r \in Requests, Miss(r) PROVE TypeOK'
    BY <2>3 DEF Miss, TypeOK, Goto
  <2>4. ASSUME NEW r \in Requests, Fetch(r) PROVE TypeOK'
    BY <2>4 DEF Fetch, TypeOK, Goto
  <2>5. ASSUME NEW r \in Requests, FetchFails(r) PROVE TypeOK'
    BY <2>5 DEF FetchFails, TypeOK, Goto
  <2>6. ASSUME NEW r \in Requests, Fill(r) PROVE TypeOK'
    <3> DEFINE e == [asOf |-> value[r], until |-> clock + Lifetime(KeyOf[r]), live |-> TRUE]
    <3>1. e \in Entry
      BY DEF TypeOK, Entry, Lifetime
    <3>2. cache' \in [Instances -> [Keys -> Entry]]
      BY <2>6, <3>1 DEF Fill, TypeOK, Overwrites
    <3> QED BY <2>6, <3>2 DEF Fill, TypeOK, Goto, Answer
  <2>7. ASSUME NEW i \in Instances, Restart(i) PROVE TypeOK'
    BY <2>7 DEF Restart, TypeOK, Nothing, Entry
  <2>8. CASE Tick
    BY <2>8 DEF Tick, TypeOK, reqVars
  <2>9. CASE UNCHANGED vars
    BY <2>9 DEF TypeOK, vars, reqVars
  <2> QED BY <2>1, <2>2, <2>3, <2>4, <2>5, <2>6, <2>7, <2>8, <2>9
          DEF Next, GetOrSet
<1> QED BY <1>1, <1>2, PTL DEF Spec

-----------------------------------------------------------------------------
(* How old an answer can be *)

\* What a request is about to set was read at most one fetch ago.
FetchIsRecent ==
    \A r \in Requests : pc[r] = "set" => value[r] <= clock /\ clock <= value[r] + FetchMax

\* An entry's time is over one fetch and one TTL after the read of its value,
\* which is in the past.
EntryExpires ==
    \A i \in Instances, k \in Keys :
        cache[i][k].live =>
            /\ cache[i][k].asOf <= clock
            /\ cache[i][k].until <= cache[i][k].asOf + FetchMax + Ttl[k]

Staleness == FetchIsRecent /\ EntryExpires /\ BoundedStaleness

\* A look-up that hits is answered in time, and changes no entry.
LEMMA HitIsFresh ==
    ASSUME TypeOK, Staleness, NEW r \in Requests, Hit(r)
    PROVE  Staleness'
<1> USE ProductCacheAssumption
<1> DEFINE e == Cached(r)
<1>1. e \in Entry /\ e.live /\ clock <= e.until /\ e.until <= e.asOf + FetchMax + Ttl[KeyOf[r]]
  BY DEF Staleness, TypeOK, EntryExpires, Hit, Usable, Cached
<1>2. clock - e.asOf <= Ttl[KeyOf[r]] + FetchMax
  BY <1>1 DEF Entry, Staleness, TypeOK
<1>3. /\ pc' = [pc EXCEPT ![r] = "answered"]
      /\ age' = [age EXCEPT ![r] = clock - e.asOf]
      /\ value' = [value EXCEPT ![r] = e.asOf]
      /\ UNCHANGED <<clock, cache>>
  BY DEF Hit, Goto, Answer
<1>4. FetchIsRecent' /\ EntryExpires'
  BY <1>3 DEF Staleness, TypeOK, FetchIsRecent, EntryExpires
<1>5. BoundedStaleness'
  BY <1>2, <1>3 DEF Staleness, TypeOK, BoundedStaleness
<1> QED BY <1>4, <1>5 DEF Staleness

\* So is a fetch, and the entry it sets expires in time.
LEMMA FillIsFresh ==
    ASSUME TypeOK, Staleness, NEW r \in Requests, Fill(r)
    PROVE  Staleness'
<1> USE ProductCacheAssumption
<1> DEFINE e == [asOf |-> value[r], until |-> clock + Ttl[KeyOf[r]], live |-> TRUE]
<1>1. /\ cache' = [cache EXCEPT ![InstanceOf[r]][KeyOf[r]] = e]
      /\ pc' = [pc EXCEPT ![r] = "answered"]
      /\ age' = [age EXCEPT ![r] = clock - value[r]]
      /\ value' = [value EXCEPT ![r] = value[r]]
      /\ UNCHANGED clock
  BY DEF Fill, Goto, Answer, Overwrites, Lifetime
<1>2. value[r] <= clock /\ clock <= value[r] + FetchMax
  BY DEF Fill, Staleness, FetchIsRecent
<1>3. FetchIsRecent'
  BY <1>1 DEF Staleness, TypeOK, FetchIsRecent
<1>4. EntryExpires'
  <2>1. e.asOf <= clock /\ e.until <= e.asOf + FetchMax + Ttl[KeyOf[r]]
    BY <1>2 DEF Staleness, TypeOK
  <2> SUFFICES ASSUME NEW i \in Instances, NEW k \in Keys, cache'[i][k].live
               PROVE  /\ cache'[i][k].asOf <= clock
                      /\ cache'[i][k].until <= cache'[i][k].asOf + FetchMax + Ttl[k]
    BY <1>1 DEF EntryExpires
  <2>2. CASE i = InstanceOf[r] /\ k = KeyOf[r]
    BY <1>1, <2>1, <2>2 DEF Staleness, TypeOK
  <2>3. CASE ~(i = InstanceOf[r] /\ k = KeyOf[r])
    <3>1. cache'[i][k] = cache[i][k]
      BY <1>1, <2>3 DEF Staleness, TypeOK
    <3> QED BY <3>1 DEF Staleness, EntryExpires
  <2> QED BY <2>2, <2>3
<1>5. BoundedStaleness'
  BY <1>1, <1>2 DEF Staleness, TypeOK, BoundedStaleness
<1> QED BY <1>3, <1>4, <1>5 DEF Staleness

LEMMA StalenessHolds == Spec => []Staleness
<1>1. Init => Staleness
  BY DEF Init, Staleness, FetchIsRecent, EntryExpires, BoundedStaleness, Nothing
<1>2. TypeOK /\ Staleness /\ [Next]_vars => Staleness'
  <2> SUFFICES ASSUME TypeOK, Staleness, [Next]_vars PROVE Staleness'
    OBVIOUS
  <2> USE ProductCacheAssumption DEF Staleness, FetchIsRecent, EntryExpires, BoundedStaleness
  <2>1. ASSUME NEW r \in Requests, Ask(r) PROVE Staleness'
    BY <2>1 DEF Ask, TypeOK, Goto
  <2>2. ASSUME NEW r \in Requests, Miss(r) PROVE Staleness'
    BY <2>2 DEF Miss, TypeOK, Goto
  <2>3. ASSUME NEW r \in Requests, Fetch(r) PROVE Staleness'
    BY <2>3 DEF Fetch, TypeOK, Goto
  <2>4. ASSUME NEW r \in Requests, FetchFails(r) PROVE Staleness'
    BY <2>4 DEF FetchFails, TypeOK, Goto
  <2>5. ASSUME NEW i \in Instances, Restart(i) PROVE Staleness'
    BY <2>5 DEF Restart, TypeOK, Nothing
  <2>6. CASE Tick
    BY <2>6 DEF Tick, TypeOK, Entry, reqVars
  <2>7. CASE UNCHANGED vars
    BY <2>7 DEF TypeOK, vars, reqVars
  <2> QED BY <2>1, <2>2, <2>3, <2>4, <2>5, <2>6, <2>7, HitIsFresh, FillIsFresh
          DEF Next, GetOrSet
<1> QED BY <1>1, <1>2, TypeCorrect, PTL DEF Spec

\* No answer is older than the TTL of its key and one fetch.
THEOREM StaleNoLonger == Spec => []BoundedStaleness
<1>1. Staleness => BoundedStaleness
  BY DEF Staleness
<1> QED BY <1>1, StalenessHolds, PTL

-----------------------------------------------------------------------------
(* How far back a reader can be sent *)

\* Only answered requests come before one, and none has seen the future.
PastAnswers ==
    /\ \A r \in Requests : \A d \in before[r] : pc[d] = "answered"
    /\ \A d \in Requests : pc[d] = "answered" => value[d] <= clock

\* What is in the cache is at most one fetch behind what it has answered.
CacheKeepsUp ==
    \A d \in Requests :
        LET e == cache[InstanceOf[d]][KeyOf[d]]
        IN  pc[d] = "answered" /\ e.live => e.asOf >= value[d] - FetchMax

Order == PastAnswers /\ CacheKeepsUp /\ BackByOneFetch

LEMMA OrderOfHit ==
    ASSUME TypeOK, Staleness, Order, NEW r \in Requests, Hit(r)
    PROVE  Order'
<1> USE ProductCacheAssumption
<1> DEFINE e == Cached(r)
<1>1. e \in Entry /\ e.live /\ e.asOf <= clock
  BY DEF Staleness, TypeOK, EntryExpires, Hit, Usable, Cached
<1>2. /\ pc' = [pc EXCEPT ![r] = "answered"]
      /\ value' = [value EXCEPT ![r] = e.asOf]
      /\ UNCHANGED <<clock, cache, before>>
      /\ pc[r] # "answered"
  BY DEF Hit, Goto, Answer
<1>3. PastAnswers'
  BY <1>1, <1>2 DEF Order, PastAnswers, TypeOK
<1>4. CacheKeepsUp'
  BY <1>1, <1>2 DEF Order, CacheKeepsUp, Cached, TypeOK, Entry
<1>5. \A d \in before[r] : Same(r, d) => e.asOf >= value[d] - FetchMax
  BY <1>1 DEF Order, PastAnswers, CacheKeepsUp, Same, Cached, TypeOK
<1>6. BackByOneFetch'
  <2> SUFFICES ASSUME NEW q \in Requests, NEW d \in before[q],
                      pc'[q] = "answered", Same(q, d)
               PROVE  value'[q] >= value'[d] - FetchMax
    BY <1>2 DEF BackByOneFetch, Same
  <2>1. d \in Requests /\ d # r
    BY <1>2 DEF Order, PastAnswers, TypeOK
  <2>2. CASE q = r
    BY <1>2, <1>5, <2>1, <2>2 DEF TypeOK
  <2>3. CASE q # r
    BY <1>2, <2>1, <2>3 DEF Order, BackByOneFetch, TypeOK
  <2> QED BY <2>2, <2>3
<1> QED BY <1>3, <1>4, <1>6 DEF Order

\* A fetch sets what it has read, one fetch behind whatever was answered before.
LEMMA OrderOfFill ==
    ASSUME TypeOK, Staleness, Order, NEW r \in Requests, Fill(r)
    PROVE  Order'
<1> USE ProductCacheAssumption
<1>1. /\ pc' = [pc EXCEPT ![r] = "answered"]
      /\ value' = [value EXCEPT ![r] = value[r]]
      /\ UNCHANGED <<clock, before>>
      /\ pc[r] # "answered"
      /\ value[r] <= clock /\ clock <= value[r] + FetchMax
  BY DEF Fill, Goto, Answer, Staleness, FetchIsRecent
<1>2. value' = value
  BY <1>1 DEF TypeOK
<1>3. PastAnswers'
  BY <1>1, <1>2 DEF Order, PastAnswers, TypeOK
<1>4. \A d \in Requests : pc[d] = "answered" => value[r] >= value[d] - FetchMax
  BY <1>1 DEF Order, PastAnswers, TypeOK
<1>5. CacheKeepsUp'
  <2> SUFFICES ASSUME NEW d \in Requests, pc'[d] = "answered",
                      cache'[InstanceOf[d]][KeyOf[d]].live
               PROVE  cache'[InstanceOf[d]][KeyOf[d]].asOf >= value[d] - FetchMax
    BY <1>2 DEF CacheKeepsUp
  <2>1. value[r] >= value[d] - FetchMax
    BY <1>1, <1>4 DEF TypeOK
  <2>2. CASE Same(r, d)
    <3>1. cache'[InstanceOf[d]][KeyOf[d]].asOf = value[r]
      BY <2>2 DEF Fill, Overwrites, Same, TypeOK
    <3> QED BY <2>1, <3>1
  <2>3. CASE ~Same(r, d)
    <3>1. cache'[InstanceOf[d]][KeyOf[d]] = cache[InstanceOf[d]][KeyOf[d]] /\ d # r
      BY <2>3 DEF Fill, Overwrites, Same, TypeOK
    <3> QED BY <1>1, <3>1 DEF Order, CacheKeepsUp, TypeOK
  <2> QED BY <2>2, <2>3
<1>6. BackByOneFetch'
  BY <1>1, <1>2, <1>4 DEF Order, PastAnswers, BackByOneFetch, Same, TypeOK
<1> QED BY <1>3, <1>5, <1>6 DEF Order

\* Who has seen an answer is never sent back by more than one fetch.
THEOREM NoFurtherBack == Spec => []BackByOneFetch
<1>1. Init => Order
  BY DEF Init, Order, PastAnswers, CacheKeepsUp, BackByOneFetch
<1>2. TypeOK /\ Staleness /\ Order /\ [Next]_vars => Order'
  <2> SUFFICES ASSUME TypeOK, Staleness, Order, [Next]_vars PROVE Order'
    OBVIOUS
  <2> USE ProductCacheAssumption
          DEF Order, PastAnswers, CacheKeepsUp, BackByOneFetch, Same
  <2>1. ASSUME NEW r \in Requests, Ask(r) PROVE Order'
    BY <2>1 DEF Ask, TypeOK, Goto
  <2>2. ASSUME NEW r \in Requests, Miss(r) PROVE Order'
    BY <2>2 DEF Miss, TypeOK, Goto
  <2>3. ASSUME NEW r \in Requests, Fetch(r) PROVE Order'
    BY <2>3 DEF Fetch, TypeOK, Goto
  <2>4. ASSUME NEW r \in Requests, FetchFails(r) PROVE Order'
    BY <2>4 DEF FetchFails, TypeOK, Goto
  <2>5. ASSUME NEW i \in Instances, Restart(i) PROVE Order'
    BY <2>5 DEF Restart, TypeOK, Nothing
  <2>6. CASE Tick
    BY <2>6 DEF Tick, TypeOK, reqVars
  <2>7. CASE UNCHANGED vars
    BY <2>7 DEF TypeOK, vars, reqVars
  <2> QED BY <2>1, <2>2, <2>3, <2>4, <2>5, <2>6, <2>7, OrderOfHit, OrderOfFill
          DEF Next, GetOrSet
<1>3. Order => BackByOneFetch
  BY DEF Order
<1> QED BY <1>1, <1>2, <1>3, TypeCorrect, StalenessHolds, PTL DEF Spec
=============================================================================
