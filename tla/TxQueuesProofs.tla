----------------------------- MODULE TxQueuesProofs -----------------------------
(***************************************************************************)
(* Facts about the queues of TxFetcher, for any finite sets of             *)
(* transactions and peers and any limits: what scheduleFetches gives, and  *)
(* that each of the updates of the queues keeps the requests and what is   *)
(* being fetched in step.                                                  *)
(***************************************************************************)
EXTENDS TxFetcher, FiniteSetTheorems, TLAPS

Requests == [hashes : Seq(Hashes), stolen : SUBSET Hashes]

\* Well-typed queues.
QueueTypes(q) ==
    /\ q.announces \in [Peers -> SUBSET Hashes]
    /\ q.announced \in [Hashes -> SUBSET Peers]
    /\ q.fetching \in [Hashes -> SUBSET Peers]
    /\ q.requests \in [Peers -> SUBSET Requests]
    /\ q.alternates \in [Hashes -> SUBSET Peers]

\* The type invariant.
TypeOK ==
    /\ waitlist \in [Hashes -> SUBSET Peers]
    /\ waitslots \in [Peers -> SUBSET Hashes]
    /\ QueueTypes(Queues)
    /\ waitTimer \in BOOLEAN /\ timeoutTimer \in BOOLEAN

-------------------------------------------------------------------------------
(* What scheduleFetches gives *)

\* An order of a finite set has every element of it.
LEMMA OrderHasAll ==
    ASSUME NEW S, IsFiniteSet(S), NEW order \in Orderings(S)
    PROVE  /\ Cardinality(S) \in Nat
           /\ order \in [1 .. Cardinality(S) -> S]
           /\ \A x \in S : \E i \in 1 .. Cardinality(S) : order[i] = x
<1>1. Cardinality(S) \in Nat
  BY FS_CardinalityType
<1>2. order \in [1 .. Cardinality(S) -> S] /\ order \in Injection(1 .. Cardinality(S), S)
  BY <1>1 DEF Orderings, Injection, IsInjective
<1>3. Cardinality(1 .. Cardinality(S)) = Cardinality(S)
  BY <1>1, FS_Interval
<1>4. order \in Surjection(1 .. Cardinality(S), S)
  BY <1>2, <1>3, FS_Injection
<1> QED
  BY <1>1, <1>2, <1>4 DEF Surjection

\* The requests that scheduleFetches makes are sequences of hashes.
LEMMA OrdersAreSequences ==
    ASSUME NEW o \in RequestOrders
    PROVE  o \in Seq(Hashes)
<1>1. PICK S \in SUBSET Hashes : o \in Orderings(S)
  BY DEF RequestOrders, Orders
<1>2. IsFiniteSet(S)
  BY <1>1, FS_Subset, FiniteConstants
<1>3. Cardinality(S) \in Nat /\ o \in [1 .. Cardinality(S) -> S]
  BY <1>1, <1>2, OrderHasAll
<1>4. o \in Seq(S)
  BY <1>3
<1> QED
  BY <1>4

\* scheduleFetches asks idle peers only, for hashes that they announced and that
\* nobody is asked for, and no two of them for the same hash.
LEMMA GrantFacts ==
    ASSUME NEW q, QueueTypes(q), NEW actives \in SUBSET Peers, NEW g \in Grants(q, actives)
    PROVE  /\ DOMAIN g \subseteq actives
           /\ \A p \in actives : p \in DOMAIN g <=> q.requests[p] = {} /\ q.announces[p] # {}
           /\ \A p \in DOMAIN g :
                 /\ g[p] \in Seq(Hashes)
                 /\ \A h \in Range(g[p]) : h \in q.announces[p] /\ q.fetching[h] = {}
           /\ \A p, o \in DOMAIN g : p # o => Range(g[p]) \cap Range(g[o]) = {}
<1> DEFINE idle == {p \in actives : q.requests[p] = {} /\ q.announces[p] # {}}
           free(p) == {h \in q.announces[p] : q.fetching[h] = {}}
           before(order, i) == UNION {Range(g[order[j]]) : j \in 1 .. i - 1}
<1>1. g \in [idle -> RequestOrders]
  BY DEF Grants
<1>2. PICK order \in Orderings(idle) :
        \A i \in DOMAIN order : Range(g[order[i]]) \subseteq free(order[i]) \ before(order, i)
  BY Zenon DEF Grants
<1>3. IsFiniteSet(idle)
  BY FS_Subset, FiniteConstants
<1> HIDE DEF idle, free
<1>4. /\ Cardinality(idle) \in Nat
      /\ order \in [1 .. Cardinality(idle) -> idle]
      /\ \A p \in idle : \E i \in 1 .. Cardinality(idle) : order[i] = p
  BY <1>2, <1>3, OrderHasAll
<1>5. ASSUME NEW p \in idle PROVE g[p] \in Seq(Hashes) /\ Range(g[p]) \subseteq free(p)
  <2>1. PICK i \in 1 .. Cardinality(idle) : order[i] = p
    BY <1>4
  <2>2. Range(g[p]) \subseteq free(p)
    BY <1>2, <1>4, <2>1
  <2>3. g[p] \in Seq(Hashes)
    BY <1>1, OrdersAreSequences, Zenon
  <2> QED
    BY <2>2, <2>3
<1>6. ASSUME NEW i \in 1 .. Cardinality(idle), NEW j \in 1 .. Cardinality(idle), i < j
      PROVE  Range(g[order[i]]) \cap Range(g[order[j]]) = {}
  <2>1. Range(g[order[i]]) \subseteq before(order, j)
    BY <1>4, <1>6
  <2>2. Range(g[order[j]]) \cap before(order, j) = {}
    BY <1>2, <1>4, Zenon
  <2> QED
    BY <2>1, <2>2
<1>7. ASSUME NEW p \in idle, NEW o \in idle, p # o PROVE Range(g[p]) \cap Range(g[o]) = {}
  <2>1. PICK i \in 1 .. Cardinality(idle) : order[i] = p
    BY <1>4
  <2>2. PICK j \in 1 .. Cardinality(idle) : order[j] = o
    BY <1>4
  <2>3. i < j \/ j < i
    BY <1>4, <1>7, <2>1, <2>2
  <2> QED
    BY <1>6, <2>1, <2>2, <2>3
<1> QED
  BY <1>1, <1>5, <1>7, Zenon DEF idle, free

-------------------------------------------------------------------------------
(* The inductive invariant, of the queues q and the waiting hashes wl *)

\* A peer has one request at a time.
OneRequest(q) == \A p \in Peers : \A r, s \in q.requests[p] : r = s

\* What is being fetched is in a request, and its alternates include the peer itself.
FetchRequested(q) ==
    \A h \in Hashes : \A p \in q.fetching[h] :
        p \in q.alternates[h] /\ \E r \in q.requests[p] : h \in Open(r)

\* What a request waits for is being fetched, and not queued.
OpenFetched(q) ==
    \A p \in Peers : \A r \in q.requests[p] : \A h \in Open(r) :
        q.fetching[h] = {p} /\ q.announced[h] = {}

\* Only what is being fetched has alternates.
AlternatesFetched(q) == \A h \in Hashes : q.fetching[h] = {} => q.alternates[h] = {}

\* What a peer announced is queued for it, or it is an alternate.
AnnouncesTraced(q) ==
    \A p \in Peers : \A h \in q.announces[p] : p \in q.announced[h] \/ p \in q.alternates[h]

\* What waits is neither queued nor being fetched.
WaitApart(q, wl) == \A h \in Hashes : wl[h] # {} => q.announced[h] = {} /\ q.fetching[h] = {}

QueueInv(q, wl) ==
    /\ QueueTypes(q)
    /\ OneRequest(q) /\ FetchRequested(q) /\ OpenFetched(q)
    /\ AlternatesFetched(q) /\ AnnouncesTraced(q) /\ WaitApart(q, wl)

\* The open hashes of a request are hashes.
LEMMA OpenHashes == ASSUME NEW r \in Requests PROVE Open(r) \subseteq Hashes
<1>1. r.hashes \in Seq(Hashes)
  BY DEF Requests
<1> QED
  BY <1>1 DEF Open, Range

\* A new request waits for all of its hashes.
LEMMA OpenNew ==
    ASSUME NEW o \in Seq(Hashes)
    PROVE  /\ [hashes |-> o, stolen |-> {}] \in Requests
           /\ Open([hashes |-> o, stolen |-> {}]) = Range(o)
           /\ Range(o) \subseteq Hashes
           /\ Range(o) # {} => o # <<>>
  BY DEF Requests, Open, Range

\* What the hashes of a grant are in the queues, and after it.
LEMMA GrantedHash ==
    ASSUME NEW q, NEW wl, QueueInv(q, wl), NEW actives \in SUBSET Peers,
           NEW g \in Grants(q, actives), NEW p \in DOMAIN g, NEW h \in Range(g[p])
    PROVE  /\ p \in Peers /\ h \in Hashes
           /\ q.fetching[h] = {} /\ q.alternates[h] = {} /\ p \in q.announced[h] /\ wl[h] = {}
           /\ {o \in DOMAIN g : h \in Range(g[o])} = {p}
<1>t. QueueTypes(q)
  BY DEF QueueInv
<1>1. p \in Peers /\ h \in q.announces[p] /\ q.fetching[h] = {} /\ g[p] \in Seq(Hashes)
  BY <1>t, GrantFacts
<1>2. h \in Hashes
  BY <1>1, OpenNew, Zenon
<1>3. q.alternates[h] = {} /\ p \in q.announced[h]
  BY <1>1, <1>2 DEF QueueInv, AlternatesFetched, AnnouncesTraced
<1>4. wl[h] = {}
  BY <1>2, <1>3 DEF QueueInv, WaitApart
<1>5. \A o \in DOMAIN g : o # p => h \notin Range(g[o])
  BY GrantFacts DEF QueueInv
<1> QED
  BY <1>1, <1>2, <1>3, <1>4, <1>5, ZenonT(30)

\* scheduleFetches keeps the invariant.
LEMMA GrantKeeps ==
    ASSUME NEW q, NEW wl, QueueInv(q, wl), NEW actives \in SUBSET Peers,
           NEW g \in Grants(q, actives)
    PROVE  QueueInv(Granted(q, g), wl)
<1> DEFINE to(h) == {p \in DOMAIN g : h \in Range(g[p])}
           G == Granted(q, g)
           new(p) == [hashes |-> g[p], stolen |-> {}]
<1>1. /\ G.announces = q.announces
      /\ G.fetching = [h \in Hashes |-> q.fetching[h] \cup to(h)]
      /\ G.alternates = [h \in Hashes |-> IF to(h) # {} THEN q.announced[h] ELSE q.alternates[h]]
      /\ G.announced = [h \in Hashes |-> IF to(h) # {} THEN {} ELSE q.announced[h]]
      /\ G.requests = [p \in Peers |-> IF p \in DOMAIN g /\ g[p] # <<>> THEN {new(p)} ELSE q.requests[p]]
  BY DEF Granted
<1>2. /\ DOMAIN g \subseteq Peers
      /\ \A p \in DOMAIN g : q.requests[p] = {} /\ g[p] \in Seq(Hashes)
  <2>1. QueueTypes(q)
    BY DEF QueueInv
  <2>2. DOMAIN g \subseteq actives /\ \A p \in DOMAIN g : q.requests[p] = {}
    BY <2>1, GrantFacts
  <2>3. \A p \in DOMAIN g : g[p] \in Seq(Hashes)
    BY <2>1, GrantFacts
  <2> QED
    BY <2>2, <2>3
<1>3. \A p \in DOMAIN g : \A h \in Range(g[p]) :
        /\ p \in Peers /\ h \in Hashes /\ to(h) = {p}
        /\ q.fetching[h] = {} /\ q.alternates[h] = {} /\ p \in q.announced[h] /\ wl[h] = {}
  BY GrantedHash
<1>4. \A p \in DOMAIN g : new(p) \in Requests /\ Open(new(p)) = Range(g[p]) /\ (Range(g[p]) # {} => g[p] # <<>>)
  BY <1>2, OpenNew
<1>5. \A h \in Hashes : to(h) # {} =>
         \E p \in DOMAIN g : /\ to(h) = {p} /\ h \in Range(g[p]) /\ p \in Peers
                             /\ q.fetching[h] = {} /\ q.alternates[h] = {} /\ p \in q.announced[h] /\ wl[h] = {}
  BY <1>3, ZenonT(30)
<1> HIDE DEF to, G, new
<1>t. QueueTypes(G)
  <2>1. \A h \in Hashes : to(h) \subseteq Peers
    BY <1>2, Zenon DEF to
  <2> QED
    BY <1>1, <1>4, <2>1, SMTT(20) DEF QueueInv, QueueTypes
<1>6. OneRequest(G)
  BY <1>1 DEF QueueInv, OneRequest
<1>7. FetchRequested(G)
  <2> SUFFICES ASSUME NEW h \in Hashes, NEW p \in G.fetching[h]
               PROVE  p \in G.alternates[h] /\ \E r \in G.requests[p] : h \in Open(r)
    BY DEF FetchRequested
  <2>1. CASE to(h) # {}
    <3>1. /\ to(h) = {p} /\ h \in Range(g[p]) /\ p \in Peers /\ p \in DOMAIN g
          /\ p \in q.announced[h]
      BY <1>1, <1>5, <2>1, SMTT(20)
    <3>2. G.requests[p] = {new(p)} /\ h \in Open(new(p))
      BY <1>1, <1>4, <3>1
    <3> QED
      BY <1>1, <2>1, <3>1, <3>2, Zenon
  <2>2. CASE to(h) = {}
    <3>1. p \in q.fetching[h] /\ G.alternates[h] = q.alternates[h]
      BY <1>1, <2>2, SMTT(20)
    <3>2. p \in q.alternates[h] /\ \E r \in q.requests[p] : h \in Open(r)
      BY <3>1, Zenon DEF QueueInv, FetchRequested
    <3>3. p \in Peers /\ G.requests[p] = q.requests[p]
      BY <1>1, <1>2, <3>1, <3>2, Zenon DEF QueueInv, QueueTypes
    <3> QED
      BY <3>1, <3>2, <3>3, Zenon
  <2> QED
    BY <2>1, <2>2
<1>8. OpenFetched(G)
  <2> SUFFICES ASSUME NEW p \in Peers, NEW r \in G.requests[p], NEW h \in Open(r)
               PROVE  G.fetching[h] = {p} /\ G.announced[h] = {}
    BY Zenon DEF OpenFetched
  <2>1. CASE p \in DOMAIN g /\ g[p] # <<>>
    <3>1. r = new(p)
      BY <1>1, <2>1
    <3>2. h \in Range(g[p])
      BY <1>4, <2>1, <3>1
    <3>3. h \in Hashes /\ to(h) = {p} /\ q.fetching[h] = {}
      BY <1>3, <2>1, <3>2
    <3>4. q.fetching[h] \cup to(h) = {p} /\ to(h) # {}
      BY <3>3
    <3> QED
      BY <1>1, <3>3, <3>4, SMTT(20)
  <2>2. CASE ~(p \in DOMAIN g /\ g[p] # <<>>)
    <3>1. r \in q.requests[p] /\ r \in Requests
      BY <1>1, <2>2, Zenon DEF QueueInv, QueueTypes
    <3>2. h \in Hashes
      BY <3>1, OpenHashes
    <3>3. q.fetching[h] = {p} /\ q.announced[h] = {}
      BY <3>1 DEF QueueInv, OpenFetched
    <3>4. to(h) = {}
      BY <1>5, <3>2, <3>3, Zenon
    <3> QED
      BY <1>1, <3>2, <3>3, <3>4
  <2> QED
    BY <2>1, <2>2, Zenon
<1>9. AlternatesFetched(G)
  BY <1>1 DEF QueueInv, AlternatesFetched
<1>10. AnnouncesTraced(G)
  <2> SUFFICES ASSUME NEW p \in Peers, NEW h \in q.announces[p]
               PROVE  p \in G.announced[h] \/ p \in G.alternates[h]
    BY <1>1, Zenon DEF AnnouncesTraced
  <2>1. h \in Hashes
    BY DEF QueueInv, QueueTypes
  <2>2. p \in q.announced[h] \/ p \in q.alternates[h]
    BY Zenon DEF QueueInv, AnnouncesTraced
  <2>3. to(h) # {} => q.alternates[h] = {}
    BY <1>5, <2>1, ZenonT(30)
  <2> QED
    BY <1>1, <2>1, <2>2, <2>3, Zenon
<1>11. WaitApart(G, wl)
  <2> SUFFICES ASSUME NEW h \in Hashes, wl[h] # {} PROVE G.announced[h] = {} /\ G.fetching[h] = {}
    BY DEF WaitApart
  <2>1. q.announced[h] = {} /\ q.fetching[h] = {}
    BY DEF QueueInv, WaitApart
  <2>2. to(h) = {}
    BY <1>5, Zenon
  <2> QED
    BY <1>1, <2>1, <2>2
<1> QED
  BY <1>t, <1>6, <1>7, <1>8, <1>9, <1>10, <1>11, ZenonT(30) DEF QueueInv, G

-------------------------------------------------------------------------------
(* What each case of the loop does to the queues before it schedules *)

\* The invariant in terms of the variables.
LEMMA Plain ==
    ASSUME QueueInv(Queues, waitlist)
    PROVE  /\ announces \in [Peers -> SUBSET Hashes] /\ announced \in [Hashes -> SUBSET Peers]
           /\ fetching \in [Hashes -> SUBSET Peers] /\ requests \in [Peers -> SUBSET Requests]
           /\ alternates \in [Hashes -> SUBSET Peers]
           /\ \A p \in Peers : \A r, s \in requests[p] : r = s
           /\ \A h \in Hashes : \A p \in fetching[h] :
                 p \in alternates[h] /\ \E r \in requests[p] : h \in Open(r)
           /\ \A p \in Peers : \A r \in requests[p] : \A h \in Open(r) :
                 h \in Hashes /\ fetching[h] = {p} /\ announced[h] = {}
           /\ \A h \in Hashes : fetching[h] = {} <=> alternates[h] = {}
           /\ \A p \in Peers : \A h \in announces[p] : p \in announced[h] \/ p \in alternates[h]
           /\ \A h \in Hashes : waitlist[h] # {} => announced[h] = {} /\ fetching[h] = {}
           /\ \A h \in Hashes : fetching[h] # {} => announced[h] = {} /\ \E p \in Peers : fetching[h] = {p}
<1> USE DEF QueueInv, Queues
<1>1. /\ announces \in [Peers -> SUBSET Hashes] /\ announced \in [Hashes -> SUBSET Peers]
      /\ fetching \in [Hashes -> SUBSET Peers] /\ requests \in [Peers -> SUBSET Requests]
      /\ alternates \in [Hashes -> SUBSET Peers]
  BY DEF QueueTypes
<1>2. \A p \in Peers : \A r, s \in requests[p] : r = s
  BY Zenon DEF OneRequest
<1>3. \A h \in Hashes : \A p \in fetching[h] :
        p \in alternates[h] /\ \E r \in requests[p] : h \in Open(r)
  BY DEF FetchRequested
<1>4. \A p \in Peers : \A r \in requests[p] : \A h \in Open(r) :
        h \in Hashes /\ fetching[h] = {p} /\ announced[h] = {}
  <2>1. \A p \in Peers : \A r \in requests[p] : \A h \in Open(r) : fetching[h] = {p} /\ announced[h] = {}
    BY DEF OpenFetched
  <2>2. \A p \in Peers : \A r \in requests[p] : Open(r) \subseteq Hashes
    BY <1>1, OpenHashes, Zenon
  <2> QED
    BY <2>1, <2>2, Zenon
<1>5. \A h \in Hashes : fetching[h] = {} <=> alternates[h] = {}
  BY <1>3 DEF AlternatesFetched
<1>6. \A p \in Peers : \A h \in announces[p] : p \in announced[h] \/ p \in alternates[h]
  BY Zenon DEF AnnouncesTraced
<1>7. \A h \in Hashes : waitlist[h] # {} => announced[h] = {} /\ fetching[h] = {}
  BY Zenon DEF WaitApart
<1>8. \A h \in Hashes : fetching[h] # {} => announced[h] = {} /\ \E p \in Peers : fetching[h] = {p}
  BY <1>1, <1>3, <1>4
<1> QED
  BY <1>1, <1>2, <1>3, <1>4, <1>5, <1>6, <1>7, <1>8, Zenon

\* Where a hash belongs, by the queues.
LEMMA Stages ==
    ASSUME NEW h
    PROVE  /\ StageOf(h) = "fetching" <=> alternates[h] # {}
           /\ StageOf(h) = "announced" <=> alternates[h] = {} /\ announced[h] # {}
           /\ StageOf(h) = "wait" <=> alternates[h] = {} /\ announced[h] = {}
           /\ StageOf(h) \in {"fetching", "announced", "wait"}
  BY Zenon DEF StageOf

\* An announcement.
LEMMA NotedKeeps ==
    ASSUME QueueInv(Queues, waitlist), NEW p \in Peers, NEW new \in SUBSET Hashes, NEW wl,
           \A h \in Hashes : wl[h] = waitlist[h] \cup (IF h \in new /\ StageOf(h) = "wait" THEN {p} ELSE {})
    PROVE  QueueInv(Noted(p, new), wl)
<1> DEFINE N == Noted(p, new)
           by(h, stage) == IF h \in new /\ StageOf(h) = stage THEN {p} ELSE {}
           queued == {h \in new : StageOf(h) # "wait"}
<1>1. /\ N.announces = [announces EXCEPT ![p] = @ \cup queued]
      /\ N.announced = [h \in Hashes |-> announced[h] \cup by(h, "announced")]
      /\ N.fetching = fetching /\ N.requests = requests
      /\ N.alternates = [h \in Hashes |-> alternates[h] \cup by(h, "fetching")]
  BY DEF Noted
<1>2. \A h \in Hashes :
        /\ by(h, "fetching") \subseteq {p} /\ by(h, "announced") \subseteq {p}
        /\ by(h, "fetching") # {} => alternates[h] # {}
        /\ by(h, "announced") # {} => alternates[h] = {} /\ announced[h] # {}
        /\ h \in queued => p \in by(h, "fetching") \/ p \in by(h, "announced")
        /\ wl[h] # waitlist[h] => alternates[h] = {} /\ announced[h] = {}
  BY Stages, Zenon
<1>3. queued \subseteq Hashes
  BY Zenon
<1> HIDE DEF N, by, queued
<1>p. /\ announces \in [Peers -> SUBSET Hashes] /\ announced \in [Hashes -> SUBSET Peers]
      /\ fetching \in [Hashes -> SUBSET Peers] /\ requests \in [Peers -> SUBSET Requests]
      /\ alternates \in [Hashes -> SUBSET Peers]
      /\ \A h \in Hashes : fetching[h] = {} <=> alternates[h] = {}
      /\ \A o \in Peers : \A h \in announces[o] : o \in announced[h] \/ o \in alternates[h]
      /\ \A h \in Hashes : waitlist[h] # {} => announced[h] = {} /\ fetching[h] = {}
  BY Plain, ZenonT(30)
<1>t. QueueTypes(N)
  BY <1>1, <1>2, <1>3, <1>p, SMTT(20) DEF QueueTypes
<1>4. OneRequest(N)
  BY <1>1, Plain, SMTT(20) DEF OneRequest
<1>5. FetchRequested(N)
  BY <1>1, Plain, SMTT(20) DEF FetchRequested
<1>6. OpenFetched(N)
  <2> SUFFICES ASSUME NEW o \in Peers, NEW r \in N.requests[o], NEW h \in Open(r)
               PROVE  N.fetching[h] = {o} /\ N.announced[h] = {}
    BY DEF OpenFetched
  <2>1. h \in Hashes /\ fetching[h] = {o} /\ announced[h] = {}
    BY <1>1, Plain, Zenon
  <2>2. by(h, "announced") = {}
    BY <1>2, <2>1, Zenon
  <2> QED
    BY <1>1, <2>1, <2>2
<1>7. AlternatesFetched(N)
  BY <1>1, <1>2, <1>p, SMTT(20) DEF AlternatesFetched
<1>8. AnnouncesTraced(N)
  <2> SUFFICES ASSUME NEW o \in Peers, NEW h \in N.announces[o]
               PROVE  o \in N.announced[h] \/ o \in N.alternates[h]
    BY DEF AnnouncesTraced
  <2>1. h \in Hashes
    BY <1>t DEF QueueTypes
  <2>2. h \in announces[o] \/ (o = p /\ h \in queued)
    BY <1>1, <1>p, SMTT(20)
  <2> QED
    BY <1>1, <1>2, <1>p, <2>1, <2>2, SMTT(20)
<1>9. WaitApart(N, wl)
  <2> SUFFICES ASSUME NEW h \in Hashes, wl[h] # {} PROVE N.announced[h] = {} /\ fetching[h] = {}
    BY <1>1, Zenon DEF WaitApart
  <2>1. announced[h] = {} /\ fetching[h] = {}
    BY <1>2, <1>p
  <2>2. by(h, "announced") = {}
    BY <1>2, <2>1, Zenon
  <2> QED
    BY <1>1, <2>1, <2>2, ZenonT(30)
<1> QED
  BY <1>t, <1>4, <1>5, <1>6, <1>7, <1>8, <1>9, SMTT(20) DEF QueueInv, N

\* The end of the waiting time.
LEMMA JoinedKeeps ==
    ASSUME QueueInv(Queues, waitlist), waitlist \in [Hashes -> SUBSET Peers],
           \A h \in Hashes, p \in Peers : h \in waitslots[p] => p \in waitlist[h],
           NEW old \in SUBSET Hashes, \A h \in old : waitlist[h] # {},
           NEW wl, \A h \in Hashes : wl[h] = IF h \in old THEN {} ELSE waitlist[h]
    PROVE  QueueInv(Joined(old), wl)
<1> DEFINE N == Joined(old)
<1>1. /\ N.announces = [p \in Peers |-> announces[p] \cup (waitslots[p] \cap old)]
      /\ N.announced = [h \in Hashes |-> IF h \in old THEN waitlist[h] ELSE announced[h]]
      /\ N.fetching = fetching /\ N.requests = requests /\ N.alternates = alternates
  BY Zenon DEF Joined
<1> HIDE DEF N
<1>p. /\ announces \in [Peers -> SUBSET Hashes] /\ announced \in [Hashes -> SUBSET Peers]
      /\ fetching \in [Hashes -> SUBSET Peers] /\ requests \in [Peers -> SUBSET Requests]
      /\ alternates \in [Hashes -> SUBSET Peers]
      /\ \A h \in Hashes : fetching[h] = {} <=> alternates[h] = {}
      /\ \A o \in Peers : \A h \in announces[o] : o \in announced[h] \/ o \in alternates[h]
      /\ \A h \in Hashes : waitlist[h] # {} => announced[h] = {} /\ fetching[h] = {}
  BY Plain, Zenon
<1>t. QueueTypes(N)
  BY <1>1, <1>p, SMTT(20) DEF QueueTypes
<1>4. OneRequest(N)
  BY <1>1, Plain, SMTT(20) DEF OneRequest
<1>5. FetchRequested(N)
  BY <1>1, Plain, Zenon DEF FetchRequested
<1>6. OpenFetched(N)
  <2> SUFFICES ASSUME NEW o \in Peers, NEW r \in N.requests[o], NEW h \in Open(r)
               PROVE  N.fetching[h] = {o} /\ N.announced[h] = {}
    BY Zenon DEF OpenFetched
  <2>1. h \in Hashes /\ fetching[h] = {o} /\ announced[h] = {}
    BY <1>1, Plain, Zenon
  <2>2. h \notin old
    BY <1>p, <2>1, SMTT(20)
  <2> QED
    BY <1>1, <2>1, <2>2
<1>7. AlternatesFetched(N)
  BY <1>1, <1>p DEF AlternatesFetched
<1>8. AnnouncesTraced(N)
  <2> SUFFICES ASSUME NEW o \in Peers, NEW h \in N.announces[o]
               PROVE  o \in N.announced[h] \/ o \in N.alternates[h]
    BY DEF AnnouncesTraced
  <2>1. h \in Hashes
    BY <1>t, Zenon DEF QueueTypes
  <2>2. h \in announces[o] \/ (h \in old /\ o \in waitlist[h])
    BY <1>1, <2>1, SMTT(20)
  <2>3. h \in old => announced[h] = {} /\ alternates[h] = {}
    BY <1>p, <2>1, Zenon
  <2> QED
    BY <1>1, <1>p, <2>1, <2>2, <2>3, SMTT(20)
<1>9. WaitApart(N, wl)
  BY <1>1, <1>p, SMTT(20) DEF WaitApart
<1> QED
  BY <1>t, <1>4, <1>5, <1>6, <1>7, <1>8, <1>9, Zenon DEF QueueInv, N

\* A dangling request waits for nothing.
LEMMA OpenDangling ==
    ASSUME NEW t \in SUBSET Hashes
    PROVE  /\ [hashes |-> <<>>, stolen |-> t] \in Requests
           /\ Open([hashes |-> <<>>, stolen |-> t]) = {}
<1>1. <<>> \in Seq(Hashes) /\ Range(<<>>) = {}
  BY DEF Range
<1> QED
  BY <1>1 DEF Requests, Open

\* A request from which hashes are stolen waits for the others.
LEMMA OpenStolen ==
    ASSUME NEW r \in Requests, NEW t \in SUBSET Hashes
    PROVE  /\ [hashes |-> r.hashes, stolen |-> r.stolen \cup t] \in Requests
           /\ Open([hashes |-> r.hashes, stolen |-> r.stolen \cup t]) = Open(r) \ t
  BY DEF Requests, Open

\* A timeout.
LEMMA ExpiredKeeps ==
    ASSUME QueueInv(Queues, waitlist), NEW late \in SUBSET Peers
    PROVE  QueueInv(Expired(late), waitlist)
<1> DEFINE N == Expired(late)
           lost(p) == IF p \in late THEN UNION {Open(r) : r \in requests[p]} ELSE {}
           from(h) == {p \in late : h \in lost(p)}
           dangling(r) == [hashes |-> <<>>, stolen |-> r.stolen]
<1>1. /\ N.announces = [p \in Peers |-> announces[p] \ lost(p)]
      /\ N.announced = [h \in Hashes |-> IF from(h) = {} THEN announced[h] ELSE alternates[h] \ from(h)]
      /\ N.fetching = [h \in Hashes |-> IF from(h) = {} THEN fetching[h] ELSE {}]
      /\ N.requests = [p \in Peers |-> IF p \in late THEN {dangling(r) : r \in requests[p]} ELSE requests[p]]
      /\ N.alternates = [h \in Hashes |-> IF from(h) = {} THEN alternates[h] ELSE {}]
  BY Zenon DEF Expired
<1>p. /\ announces \in [Peers -> SUBSET Hashes] /\ announced \in [Hashes -> SUBSET Peers]
      /\ fetching \in [Hashes -> SUBSET Peers] /\ requests \in [Peers -> SUBSET Requests]
      /\ alternates \in [Hashes -> SUBSET Peers]
      /\ \A h \in Hashes : fetching[h] = {} <=> alternates[h] = {}
      /\ \A o \in Peers : \A h \in announces[o] : o \in announced[h] \/ o \in alternates[h]
      /\ \A h \in Hashes : waitlist[h] # {} => announced[h] = {} /\ fetching[h] = {}
  BY Plain, Zenon
<1>2. \A p \in Peers : \A h \in lost(p) : h \in Hashes /\ fetching[h] = {p} /\ announced[h] = {}
  BY Plain
<1>3. \A h \in Hashes : from(h) # {} => announced[h] = {} /\ fetching[h] # {}
  BY <1>2, Zenon
<1>4. \A h \in Hashes : from(h) = {} => \A p \in fetching[h] : p \notin late
  BY Plain, SMTT(20)
<1>5. \A p \in late : \A h \in lost(p) : p \in from(h)
  OBVIOUS
<1>6. \A p \in late : \A r \in requests[p] : dangling(r) \in Requests /\ Open(dangling(r)) = {}
  <2>1. \A r \in Requests : r.stolen \in SUBSET Hashes
    BY DEF Requests
  <2> QED
    BY <1>p, <2>1, OpenDangling, ZenonT(30)
<1>7. \A p \in Peers \ late : lost(p) = {}
  OBVIOUS
<1>8. \A p \in Peers, h \in Hashes : p \in from(h) => h \in lost(p)
  BY Zenon
<1> HIDE DEF N, lost, from, dangling
<1>t. QueueTypes(N)
  BY <1>1, <1>6, <1>p, SMTT(20) DEF QueueTypes
<1>9. OneRequest(N)
  BY <1>1, Plain, SMTT(20) DEF OneRequest
<1>10. FetchRequested(N)
  <2> SUFFICES ASSUME NEW h \in Hashes, NEW o \in N.fetching[h]
               PROVE  o \in N.alternates[h] /\ \E r \in N.requests[o] : h \in Open(r)
    BY Zenon DEF FetchRequested
  <2>1. from(h) = {} /\ o \in fetching[h] /\ o \in Peers
    BY <1>1, <1>p, ZenonT(30)
  <2>2. o \notin late
    BY <1>4, <2>1, Zenon
  <2> QED
    BY <1>1, <2>1, <2>2, Plain, SMTT(20)
<1>11. OpenFetched(N)
  <2> SUFFICES ASSUME NEW o \in Peers, NEW r \in N.requests[o], NEW h \in Open(r)
               PROVE  N.fetching[h] = {o} /\ N.announced[h] = {}
    BY Zenon DEF OpenFetched
  <2>1. o \notin late
    BY <1>1, <1>6, SMTT(20)
  <2>2. h \in Hashes /\ fetching[h] = {o} /\ announced[h] = {}
    BY <1>1, <2>1, Plain, SMTT(20)
  <2>3. from(h) = {}
    <3> SUFFICES ASSUME NEW p \in from(h) PROVE FALSE
      OBVIOUS
    <3>1. p \in late /\ h \in lost(p)
      BY DEF from
    <3> QED
      BY <1>2, <2>1, <2>2, <3>1, SMTT(20)
  <2> QED
    BY <1>1, <2>2, <2>3
<1>12. AlternatesFetched(N)
  BY <1>1, <1>p, ZenonT(30) DEF AlternatesFetched
<1>13. AnnouncesTraced(N)
  <2> SUFFICES ASSUME NEW o \in Peers, NEW h \in N.announces[o]
               PROVE  o \in N.announced[h] \/ o \in N.alternates[h]
    BY Zenon DEF AnnouncesTraced
  <2>1. h \in Hashes /\ h \in announces[o] /\ h \notin lost(o)
    BY <1>1, <1>p, SMTT(20)
  <2>2. o \notin from(h)
    BY <1>8, <2>1, ZenonT(30)
  <2> QED
    BY <1>1, <1>3, <1>p, <2>1, <2>2, SMTT(20)
<1>14. WaitApart(N, waitlist)
  BY <1>1, <1>3, <1>p, SMTT(20) DEF WaitApart
<1> QED
  BY <1>t, <1>9, <1>10, <1>11, <1>12, <1>13, <1>14, Zenon DEF QueueInv, N

\* A peer that goes.
LEMMA DroppedKeeps ==
    ASSUME QueueInv(Queues, waitlist), NEW p \in Peers,
           NEW wl, \A h \in Hashes : wl[h] \subseteq waitlist[h]
    PROVE  QueueInv(Dropped(p), wl)
<1> DEFINE N == Dropped(p)
           open == UNION {Open(r) : r \in requests[p]}
           queued(h) == IF h \in open /\ alternates[h] \ {p} # {} THEN alternates[h] \ {p} ELSE announced[h]
<1>1. /\ N.announces = [announces EXCEPT ![p] = {}]
      /\ N.announced = [h \in Hashes |-> IF h \in announces[p] THEN queued(h) \ {p} ELSE queued(h)]
      /\ N.fetching = [h \in Hashes |-> IF h \in open THEN {} ELSE fetching[h]]
      /\ N.requests = [requests EXCEPT ![p] = {}]
      /\ N.alternates = [h \in Hashes |-> IF h \in open THEN {} ELSE alternates[h]]
  BY Zenon DEF Dropped
<1>p. /\ announces \in [Peers -> SUBSET Hashes] /\ announced \in [Hashes -> SUBSET Peers]
      /\ fetching \in [Hashes -> SUBSET Peers] /\ requests \in [Peers -> SUBSET Requests]
      /\ alternates \in [Hashes -> SUBSET Peers]
      /\ \A h \in Hashes : fetching[h] = {} <=> alternates[h] = {}
      /\ \A o \in Peers : \A h \in announces[o] : o \in announced[h] \/ o \in alternates[h]
      /\ \A h \in Hashes : waitlist[h] # {} => announced[h] = {} /\ fetching[h] = {}
  BY Plain, Zenon
<1>2. \A h \in open : h \in Hashes /\ fetching[h] = {p} /\ announced[h] = {}
  BY Plain, SMTT(20)
<1>3. \A h \in Hashes : h \notin open => p \notin fetching[h]
  BY Plain
<1>4. \A h \in Hashes : h \notin open => queued(h) = announced[h]
  OBVIOUS
<1>5. \A h \in open : \A o \in alternates[h] : o # p => o \in queued(h)
  OBVIOUS
<1>6. \A h \in Hashes : queued(h) \subseteq Peers
  BY <1>p, ZenonT(30)
<1> HIDE DEF N, open, queued
<1>t. QueueTypes(N)
  BY <1>1, <1>6, <1>p, SMTT(20) DEF QueueTypes
<1>9. OneRequest(N)
  BY <1>1, <1>p, Plain, SMTT(20) DEF OneRequest
<1>10. FetchRequested(N)
  <2> SUFFICES ASSUME NEW h \in Hashes, NEW o \in N.fetching[h]
               PROVE  o \in N.alternates[h] /\ \E r \in N.requests[o] : h \in Open(r)
    BY Zenon DEF FetchRequested
  <2>1. h \notin open /\ o \in fetching[h] /\ o \in Peers /\ o # p
    BY <1>1, <1>3, <1>p, SMTT(20)
  <2> QED
    BY <1>1, <1>p, <2>1, Plain, SMTT(20)
<1>11. OpenFetched(N)
  <2> SUFFICES ASSUME NEW o \in Peers, NEW r \in N.requests[o], NEW h \in Open(r)
               PROVE  N.fetching[h] = {o} /\ N.announced[h] = {}
    BY ZenonT(30) DEF OpenFetched
  <2>1. o # p /\ r \in requests[o]
    BY <1>1, <1>p
  <2>2. h \in Hashes /\ fetching[h] = {o} /\ announced[h] = {}
    BY <2>1, Plain, ZenonT(30)
  <2>3. h \notin open
    BY <1>2, <2>1, <2>2, ZenonT(30)
  <2> QED
    BY <1>1, <1>4, <2>2, <2>3, SMTT(20)
<1>12. AlternatesFetched(N)
  BY <1>1, <1>p, SMTT(20) DEF AlternatesFetched
<1>13. AnnouncesTraced(N)
  <2> SUFFICES ASSUME NEW o \in Peers, NEW h \in N.announces[o]
               PROVE  o \in N.announced[h] \/ o \in N.alternates[h]
    BY Zenon DEF AnnouncesTraced
  <2>1. o # p /\ h \in Hashes /\ h \in announces[o]
    BY <1>1, <1>p, SMTT(20)
  <2>2. CASE h \in open
    <3>1. o \in alternates[h]
      BY <1>2, <1>p, <2>1, <2>2, ZenonT(30)
    <3> QED
      BY <1>1, <1>5, <2>1, <2>2, <3>1
  <2>3. CASE h \notin open
    BY <1>1, <1>4, <1>p, <2>1, <2>3, SMTT(20)
  <2> QED
    BY <2>2, <2>3, Zenon
<1>14. WaitApart(N, wl)
  <2> SUFFICES ASSUME NEW h \in Hashes, wl[h] # {} PROVE N.announced[h] = {} /\ N.fetching[h] = {}
    BY DEF WaitApart
  <2>1. announced[h] = {} /\ fetching[h] = {}
    BY <1>p, Zenon
  <2>2. h \notin open
    BY <1>2, <2>1, SMTT(20)
  <2> QED
    BY <1>1, <1>4, <2>1, <2>2, SMTT(20)
<1> QED
  BY <1>t, <1>9, <1>10, <1>11, <1>12, <1>13, <1>14, Zenon DEF QueueInv, N

\* A broadcast, or an answer that nothing was asked for.
LEMMA ForgetKeeps ==
    ASSUME QueueInv(Queues, waitlist), NEW origin \in Peers, NEW hs \in SUBSET Hashes,
           NEW direct \in BOOLEAN, direct => requests[origin] = {},
           NEW wl, \A h \in Hashes : wl[h] \subseteq waitlist[h]
    PROVE  QueueInv(Forget(origin, hs, direct), wl)
<1> DEFINE N == Forget(origin, hs, direct)
           stolenFrom(h) == IF direct THEN fetching[h] \ {origin} ELSE fetching[h]
           taken(p) == {h \in hs : p \in stolenFrom(h)}
           noted(p, r) == [hashes |-> r.hashes, stolen |-> r.stolen \cup taken(p)]
<1>1. /\ N.announces = [p \in Peers |-> announces[p] \ hs]
      /\ N.announced = [h \in Hashes |-> IF h \in hs THEN {} ELSE announced[h]]
      /\ N.fetching = [h \in Hashes |-> IF h \in hs THEN {} ELSE fetching[h]]
      /\ N.requests = [p \in Peers |-> {noted(p, r) : r \in requests[p]}]
      /\ N.alternates = [h \in Hashes |-> IF h \in hs THEN {} ELSE alternates[h]]
  BY ZenonT(30) DEF Forget
<1>p. /\ announces \in [Peers -> SUBSET Hashes] /\ announced \in [Hashes -> SUBSET Peers]
      /\ fetching \in [Hashes -> SUBSET Peers] /\ requests \in [Peers -> SUBSET Requests]
      /\ alternates \in [Hashes -> SUBSET Peers]
      /\ \A h \in Hashes : fetching[h] = {} <=> alternates[h] = {}
      /\ \A o \in Peers : \A h \in announces[o] : o \in announced[h] \/ o \in alternates[h]
      /\ \A h \in Hashes : waitlist[h] # {} => announced[h] = {} /\ fetching[h] = {}
  BY Plain, Zenon
<1>2. \A h \in Hashes : direct => origin \notin fetching[h]
  BY Plain, Zenon
<1>3. \A p \in Peers, h \in Hashes : h \in taken(p) <=> h \in hs /\ p \in fetching[h]
  BY <1>2
<1>4. \A p \in Peers : \A r \in requests[p] : noted(p, r) \in Requests /\ Open(noted(p, r)) = Open(r) \ taken(p)
  <2> SUFFICES ASSUME NEW p \in Peers, NEW r \in requests[p]
               PROVE  noted(p, r) \in Requests /\ Open(noted(p, r)) = Open(r) \ taken(p)
    BY Zenon
  <2>1. r \in Requests /\ taken(p) \in SUBSET Hashes
    BY <1>p, ZenonT(30)
  <2> HIDE DEF taken
  <2> QED
    BY <2>1, OpenStolen, Zenon
<1> HIDE DEF N, stolenFrom, taken, noted
<1>5. \A h \in Hashes : /\ h \in hs => N.announced[h] = {} /\ N.fetching[h] = {} /\ N.alternates[h] = {}
                        /\ h \notin hs => /\ N.announced[h] = announced[h]
                                         /\ N.fetching[h] = fetching[h]
                                         /\ N.alternates[h] = alternates[h]
  BY <1>1, Zenon
<1>t. QueueTypes(N)
  <2>1. N.announces \in [Peers -> SUBSET Hashes]
    BY <1>1, <1>p, SMTT(20)
  <2>2. N.announced \in [Hashes -> SUBSET Peers]
    BY <1>1, <1>p, SMTT(20)
  <2>3. N.fetching \in [Hashes -> SUBSET Peers]
    BY <1>1, <1>p, SMTT(20)
  <2>4. N.requests \in [Peers -> SUBSET Requests]
    BY <1>1, <1>4, <1>p, SMTT(20)
  <2>5. N.alternates \in [Hashes -> SUBSET Peers]
    BY <1>1, <1>p, SMTT(20)
  <2> QED
    BY <2>1, <2>2, <2>3, <2>4, <2>5, Zenon DEF QueueTypes
<1>9. OneRequest(N)
  BY <1>1, Plain, SMTT(20) DEF OneRequest
<1>10. FetchRequested(N)
  <2> SUFFICES ASSUME NEW h \in Hashes, NEW o \in N.fetching[h]
               PROVE  o \in N.alternates[h] /\ \E r \in N.requests[o] : h \in Open(r)
    BY Zenon DEF FetchRequested
  <2>1. h \notin hs /\ o \in fetching[h] /\ o \in Peers
    BY <1>1, <1>p, SMTT(20)
  <2>2. PICK r \in requests[o] : h \in Open(r)
    BY <2>1, Plain, ZenonT(30)
  <2>3. o \in alternates[h]
    BY <2>1, Plain, SMTT(20)
  <2>4. h \in Open(noted(o, r)) /\ noted(o, r) \in N.requests[o]
    BY <1>1, <1>3, <1>4, <2>1, <2>2
  <2> QED
    BY <1>1, <2>1, <2>3, <2>4, ZenonT(30)
<1>11. OpenFetched(N)
  <2> SUFFICES ASSUME NEW o \in Peers, NEW r \in N.requests[o], NEW h \in Open(r)
               PROVE  N.fetching[h] = {o} /\ N.announced[h] = {}
    BY ZenonT(30) DEF OpenFetched
  <2>1. PICK s \in requests[o] : r = noted(o, s)
    BY <1>1
  <2>2. h \in Open(s) /\ h \notin taken(o)
    BY <1>4, <2>1, ZenonT(30)
  <2>3. h \in Hashes /\ fetching[h] = {o} /\ announced[h] = {}
    BY <2>2, Plain
  <2>4. h \notin hs
    BY <1>3, <2>2, <2>3, ZenonT(30)
  <2> QED
    BY <1>1, <2>3, <2>4, ZenonT(30)
<1>12. AlternatesFetched(N)
  <2> SUFFICES ASSUME NEW h \in Hashes, N.fetching[h] = {} PROVE N.alternates[h] = {}
    BY Zenon DEF AlternatesFetched
  <2>1. CASE h \in hs
    BY <1>5, <2>1, Zenon
  <2>2. CASE h \notin hs
    <3>1. N.fetching[h] = fetching[h] /\ N.alternates[h] = alternates[h]
      BY <1>5, <2>2, Zenon
    <3>2. fetching[h] = {} => alternates[h] = {}
      BY <1>p, Zenon
    <3> QED
      BY <3>1, <3>2, Zenon
  <2> QED
    BY <2>1, <2>2, Zenon
<1>13. AnnouncesTraced(N)
  <2> SUFFICES ASSUME NEW o \in Peers, NEW h \in N.announces[o]
               PROVE  o \in N.announced[h] \/ o \in N.alternates[h]
    BY Zenon DEF AnnouncesTraced
  <2>1. h \in announces[o] /\ h \notin hs
    <3>1. N.announces[o] = announces[o] \ hs
      BY <1>1, Zenon
    <3> QED
      BY <3>1, Zenon
  <2>2. h \in Hashes
    BY <2>1, <1>p, SMTT(20)
  <2> QED
    BY <1>5, <1>p, <2>1, <2>2, ZenonT(30)
<1>14. WaitApart(N, wl)
  <2> SUFFICES ASSUME NEW h \in Hashes, wl[h] # {} PROVE N.announced[h] = {} /\ N.fetching[h] = {}
    BY Zenon DEF WaitApart
  <2>1. waitlist[h] # {}
    OBVIOUS
  <2> QED
    BY <1>5, <1>p, <2>1, ZenonT(30)
<1> QED
  BY <1>t, <1>9, <1>10, <1>11, <1>12, <1>13, <1>14, Zenon DEF QueueInv, N

================================================================================
