----------------------------- MODULE TxFetcherProofs -----------------------------
(***************************************************************************)
(* Proofs about TxFetcher for any finite sets of transactions and peers    *)
(* and any limits: a transaction is in one stage only, the requests match  *)
(* what is being fetched, and nothing that can be asked for is forgotten.  *)
(***************************************************************************)
EXTENDS TxQueuesProofs

\* A direct answer to a request.
LEMMA RequeueKeeps ==
    ASSUME QueueInv(Queues, waitlist), NEW origin \in Peers, NEW hashes \in SUBSET Hashes,
           NEW hs, hs = hashes \ {h \in hashes : waitlist[h] # {}},
           NEW r \in Forget(origin, hs, TRUE).requests[origin],
           NEW wl, \A h \in Hashes : wl[h] \subseteq waitlist[h]
    PROVE  QueueInv(Requeue(Forget(origin, hs, TRUE), origin, r, hashes), wl)
<1> DEFINE F == Forget(origin, hs, TRUE)
           N == Requeue(F, origin, r, hashes)
           taken(p) == {h \in hs : p \in fetching[h] \ {origin}}
           noted(p, s) == [hashes |-> s.hashes, stolen |-> s.stolen \cup taken(p)]
           hits == {i \in DOMAIN r.hashes : r.hashes[i] \in hashes}
           cutoff == IF hits = {} THEN Len(r.hashes) + 1 ELSE Max(hits)
           passed == {h \in Open(r) \ hashes : \E i \in 1 .. cutoff - 1 : r.hashes[i] = h}
           rest(h) == IF h \in passed THEN F.alternates[h] \ {origin} ELSE F.alternates[h]
<1>1. /\ F.announces = [p \in Peers |-> announces[p] \ hs]
      /\ F.announced = [h \in Hashes |-> IF h \in hs THEN {} ELSE announced[h]]
      /\ F.fetching = [h \in Hashes |-> IF h \in hs THEN {} ELSE fetching[h]]
      /\ F.requests = [p \in Peers |-> {noted(p, s) : s \in requests[p]}]
      /\ F.alternates = [h \in Hashes |-> IF h \in hs THEN {} ELSE alternates[h]]
  BY ZenonT(30) DEF Forget
<1>2. /\ N.announces = [F.announces EXCEPT ![origin] = @ \ passed]
      /\ N.announced = [h \in Hashes |-> IF h \in Open(r) \ hashes /\ rest(h) # {} THEN rest(h)
                                          ELSE F.announced[h]]
      /\ N.fetching = [h \in Hashes |-> IF h \in Open(r) THEN {} ELSE F.fetching[h]]
      /\ N.requests = [F.requests EXCEPT ![origin] = {}]
      /\ N.alternates = [h \in Hashes |-> IF h \in Open(r) THEN {} ELSE F.alternates[h]]
  BY Zenon DEF Requeue
<1>p. /\ announces \in [Peers -> SUBSET Hashes] /\ announced \in [Hashes -> SUBSET Peers]
      /\ fetching \in [Hashes -> SUBSET Peers] /\ requests \in [Peers -> SUBSET Requests]
      /\ alternates \in [Hashes -> SUBSET Peers]
      /\ \A h \in Hashes : fetching[h] = {} <=> alternates[h] = {}
      /\ \A o \in Peers : \A h \in announces[o] : o \in announced[h] \/ o \in alternates[h]
      /\ \A h \in Hashes : waitlist[h] # {} => announced[h] = {} /\ fetching[h] = {}
  BY Plain
<1>3. \A p \in Peers, h \in Hashes : p # origin => (h \in taken(p) <=> h \in hs /\ p \in fetching[h])
  BY <1>p
<1>4. \A p \in Peers : \A s \in requests[p] : noted(p, s) \in Requests /\ Open(noted(p, s)) = Open(s) \ taken(p)
  <2> SUFFICES ASSUME NEW p \in Peers, NEW s \in requests[p]
               PROVE  noted(p, s) \in Requests /\ Open(noted(p, s)) = Open(s) \ taken(p)
    BY Zenon
  <2>1. s \in Requests /\ taken(p) \in SUBSET Hashes
    BY <1>p
  <2> HIDE DEF taken
  <2> QED
    BY <2>1, OpenStolen, ZenonT(30)
<1>5. \A h \in Hashes : rest(h) \subseteq F.alternates[h] /\ (\A o \in F.alternates[h] : o # origin => o \in rest(h))
                        /\ (h \notin passed => rest(h) = F.alternates[h])
  BY Zenon
<1>6. taken(origin) = {}
  OBVIOUS
<1>7. \A h \in Hashes : h \in hs <=> h \in hashes /\ waitlist[h] = {}
  OBVIOUS
<1>8. r \in F.requests[origin]
  BY Zenon
<1> HIDE DEF F, N, taken, noted, hits, cutoff, passed, rest
<1>a. \A o \in Peers : F.announces[o] = announces[o] \ hs /\ (o # origin => N.announces[o] = F.announces[o])
  BY <1>1, <1>2, SMTT(20)
<1>b. N.announces[origin] = F.announces[origin] \ passed
  BY <1>1, <1>2
<1>f. \A h \in Hashes :
        /\ h \in hs => F.announced[h] = {} /\ F.fetching[h] = {} /\ F.alternates[h] = {}
        /\ h \notin hs => /\ F.announced[h] = announced[h] /\ F.fetching[h] = fetching[h]
                         /\ F.alternates[h] = alternates[h]
  BY <1>1
<1>n. \A h \in Hashes :
        /\ h \in Open(r) => N.fetching[h] = {} /\ N.alternates[h] = {}
        /\ h \notin Open(r) => /\ N.announced[h] = F.announced[h] /\ N.fetching[h] = F.fetching[h]
                              /\ N.alternates[h] = F.alternates[h]
  BY <1>2
<1>9. PICK s \in requests[origin] : r = noted(origin, s)
  BY <1>1, <1>8
<1>10. Open(r) = Open(s)
  BY <1>4, <1>6, <1>9, ZenonT(30)
<1>11. \A h \in Open(r) : h \in Hashes /\ fetching[h] = {origin} /\ announced[h] = {}
  BY <1>10, Plain
<1>12. \A h \in Hashes : origin \in fetching[h] => h \in Open(r)
  BY <1>10, Plain, SMTT(20)
<1>t. QueueTypes(N)
  <2>1. QueueTypes(F)
    BY <1>1, <1>4, <1>p DEF QueueTypes
  <2>2. \A h \in Hashes : rest(h) \subseteq Peers
    BY <1>5, <2>1, Zenon DEF QueueTypes
  <2> QED
    BY <1>2, <2>1, <2>2, SMTT(20) DEF QueueTypes
<1>13. OneRequest(N)
  <2> SUFFICES ASSUME NEW p \in Peers, NEW a \in N.requests[p], NEW b \in N.requests[p] PROVE a = b
    BY DEF OneRequest
  <2>1. p # origin /\ a \in F.requests[p] /\ b \in F.requests[p]
    BY <1>1, <1>2, Zenon
  <2> QED
    BY <1>1, <2>1, Plain, SMTT(20)
<1>14. FetchRequested(N)
  <2> SUFFICES ASSUME NEW h \in Hashes, NEW o \in N.fetching[h]
               PROVE  o \in N.alternates[h] /\ \E c \in N.requests[o] : h \in Open(c)
    BY Zenon DEF FetchRequested
  <2>1. h \notin Open(r) /\ h \notin hs /\ o \in fetching[h] /\ o \in Peers
    BY <1>f, <1>n, <1>p
  <2>2. o # origin
    BY <1>12, <2>1, Zenon
  <2>3. PICK c \in requests[o] : h \in Open(c)
    BY <2>1, Plain
  <2>4. o \in alternates[h]
    BY <2>1, Plain, ZenonT(30)
  <2>5. h \in Open(noted(o, c)) /\ noted(o, c) \in F.requests[o]
    BY <1>1, <1>3, <1>4, <2>1, <2>2, <2>3, SMTT(20)
  <2>6. N.requests[o] = F.requests[o]
    BY <1>1, <1>2, <2>1, <2>2, ZenonT(30)
  <2>7. o \in N.alternates[h]
    BY <1>f, <1>n, <2>1, <2>4, ZenonT(30)
  <2> QED
    BY <2>5, <2>6, <2>7, Zenon
<1>15. OpenFetched(N)
  <2> SUFFICES ASSUME NEW o \in Peers, NEW c \in N.requests[o], NEW h \in Open(c)
               PROVE  N.fetching[h] = {o} /\ N.announced[h] = {}
    BY DEF OpenFetched
  <2>1. o # origin /\ c \in F.requests[o]
    BY <1>1, <1>2, Zenon
  <2>2. PICK d \in requests[o] : c = noted(o, d)
    BY <1>1, <2>1, SMTT(20)
  <2>3. h \in Open(d) /\ h \notin taken(o)
    BY <1>4, <2>2, Zenon
  <2>4. h \in Hashes /\ fetching[h] = {o} /\ announced[h] = {}
    BY <2>3, Plain
  <2>5. h \notin hs /\ h \notin Open(r)
    BY <1>3, <1>11, <2>1, <2>3, <2>4, ZenonT(30)
  <2> QED
    BY <1>f, <1>n, <2>4, <2>5, SMTT(20)
<1>16. AlternatesFetched(N)
  <2> SUFFICES ASSUME NEW h \in Hashes, N.fetching[h] = {} PROVE N.alternates[h] = {}
    BY DEF AlternatesFetched
  <2> QED
    BY <1>f, <1>n, <1>p, SMTT(20)
<1>17. AnnouncesTraced(N)
  <2> SUFFICES ASSUME NEW o \in Peers, NEW h \in N.announces[o]
               PROVE  o \in N.announced[h] \/ o \in N.alternates[h]
    BY Zenon DEF AnnouncesTraced
  <2>1. h \in announces[o] /\ h \notin hs /\ h \in Hashes /\ (o = origin => h \notin passed)
    BY <1>a, <1>b, <1>p, SMTT(20)
  <2>2. o \in announced[h] \/ o \in alternates[h]
    BY <1>p, <2>1, Zenon
  <2>3. CASE h \in Open(r)
    <3>1. o \in alternates[h] /\ waitlist[h] = {}
      BY <1>11, <1>p, <2>2, <2>3, Zenon
    <3>2. h \notin hashes /\ o \in F.alternates[h]
      BY <1>1, <1>7, <2>1, <3>1, Zenon
    <3>3. o \in rest(h)
      BY <1>5, <2>1, <3>2, Zenon
    <3> QED
      BY <1>2, <2>1, <2>3, <3>2, <3>3, Zenon
  <2>4. CASE h \notin Open(r)
    BY <1>f, <1>n, <2>1, <2>2, <2>4, SMTT(20)
  <2> QED
    BY <2>3, <2>4, Zenon
<1>18. WaitApart(N, wl)
  <2> SUFFICES ASSUME NEW h \in Hashes, wl[h] # {} PROVE N.announced[h] = {} /\ N.fetching[h] = {}
    BY DEF WaitApart
  <2>1. announced[h] = {} /\ fetching[h] = {}
    BY <1>p
  <2>2. h \notin Open(r)
    BY <1>11, <2>1, Zenon
  <2> QED
    BY <1>f, <1>n, <2>1, <2>2, ZenonT(30)
<1> QED
  BY <1>t, <1>13, <1>14, <1>15, <1>16, <1>17, <1>18, Zenon DEF QueueInv, N, F

-------------------------------------------------------------------------------
(* Nothing is forgotten *)

\* While a peer can be asked for a hash, some request is in flight.
Asked(q) == \A p \in Peers : \A h \in q.announces[p] : p \in q.announced[h] => Busy(q)

\* scheduleFetches ends no request.
LEMMA BusyKept ==
    ASSUME NEW q, NEW wl, QueueInv(q, wl), NEW actives \in SUBSET Peers,
           NEW g \in Grants(q, actives), Busy(q)
    PROVE  Busy(Granted(q, g))
<1>1. PICK p \in Peers : q.requests[p] # {}
  BY DEF Busy
<1>2. Granted(q, g).requests[p] # {}
  BY <1>1, Zenon DEF Granted
<1> QED
  BY <1>2 DEF Busy

\* When no request is in flight, scheduleFetches makes one if an active peer has
\* announced anything.
LEMMA GrantBusy ==
    ASSUME NEW q, NEW wl, QueueInv(q, wl), NEW actives \in SUBSET Peers,
           NEW g \in Grants(q, actives), ~Busy(q), NEW p \in actives, q.announces[p] # {}
    PROVE  Busy(Granted(q, g))
<1> DEFINE idle == {o \in actives : q.requests[o] = {} /\ q.announces[o] # {}}
           free(o) == {h \in q.announces[o] : q.fetching[h] = {}}
           left(order, i) == free(order[i]) \ UNION {Range(g[order[j]]) : j \in 1 .. i - 1}
<1>1. \A o \in Peers : q.requests[o] = {}
  BY DEF Busy
<1>t. QueueTypes(q)
  BY DEF QueueInv
<1>2. \A h \in Hashes : q.fetching[h] = {}
  BY <1>1, <1>t, Zenon DEF QueueInv, FetchRequested, QueueTypes
<1>3. \A o \in Peers : free(o) = q.announces[o]
  BY <1>2, <1>t, Zenon DEF QueueTypes
<1>4. p \in idle /\ IsFiniteSet(idle) /\ idle \subseteq Peers
  BY <1>1, FS_Subset, FiniteConstants
<1>5. g \in [idle -> RequestOrders]
  BY Zenon DEF Grants
<1>6. PICK order \in Orderings(idle) :
        \A i \in DOMAIN order :
            left(order, i) # {} => g[order[i]] # <<>>
  BY Zenon DEF Grants
<1>7. \A o \in idle : q.announces[o] # {}
  OBVIOUS
<1>8. left(order, 1) = free(order[1])
  OBVIOUS
<1> HIDE DEF idle, free, left
<1>9. /\ Cardinality(idle) \in Nat
      /\ order \in [1 .. Cardinality(idle) -> idle]
      /\ \A o \in idle : \E i \in 1 .. Cardinality(idle) : order[i] = o
  BY <1>4, OrderHasAll
<1>10. 1 \in 1 .. Cardinality(idle)
  BY <1>4, <1>9, SMTT(20)
<1> DEFINE o == order[1]
<1>11. o \in idle /\ o \in Peers
  BY <1>4, <1>9, <1>10, Zenon
<1>12. left(order, 1) # {}
  BY <1>3, <1>7, <1>8, <1>11, Zenon
<1>13. g[o] # <<>>
  BY <1>6, <1>9, <1>10, <1>12, Zenon
<1>14. Granted(q, g).requests[o] # {}
  BY <1>5, <1>11, <1>13, Zenon DEF Granted
<1> QED
  BY <1>11, <1>14 DEF Busy

\* Scheduling leaves no hash behind, if among the active peers is one to ask
\* whenever no request is in flight.
LEMMA GrantAsks ==
    ASSUME NEW q, NEW wl, QueueInv(q, wl), NEW actives \in SUBSET Peers,
           NEW g \in Grants(q, actives),
           ~Busy(q) => \A p \in Peers : \A h \in q.announces[p] :
                          p \in q.announced[h] => \E o \in actives : q.announces[o] # {}
    PROVE  Asked(Granted(q, g))
<1> SUFFICES ASSUME NEW p \in Peers, NEW h \in Granted(q, g).announces[p], p \in Granted(q, g).announced[h]
             PROVE  Busy(Granted(q, g))
  BY DEF Asked
<1>1. h \in q.announces[p] /\ h \in Hashes
  BY Zenon DEF Granted, QueueInv, QueueTypes
<1>2. p \in q.announced[h]
  BY <1>1, Zenon DEF Granted
<1>3. CASE Busy(q)
  BY <1>3, BusyKept
<1>4. CASE ~Busy(q)
  BY <1>1, <1>2, <1>4, GrantBusy, Zenon
<1> QED
  BY <1>3, <1>4, Zenon

\* The part of the inductive invariant about the queues and their timer.
QueuesKept ==
    /\ QueueInv(Queues, waitlist)
    /\ Asked(Queues)
    /\ Busy(Queues) => timeoutTimer

\* The queues become q.
LEMMA AfterBecome ==
    ASSUME NEW q, QueueInv(q, waitlist'), Become(q), Asked(q), Busy(q) => timeoutTimer'
    PROVE  QueuesKept'
<1> DEFINE Q == Queues'
<1>1. /\ Q.announces = q.announces /\ Q.announced = q.announced /\ Q.fetching = q.fetching
      /\ Q.requests = q.requests /\ Q.alternates = q.alternates
  BY ZenonT(30) DEF Queues, Become
<1> HIDE DEF Q
<1>2. QueueInv(Q, waitlist')
  BY <1>1, SMTT(30) DEF QueueInv, QueueTypes, OneRequest, FetchRequested, OpenFetched, AlternatesFetched,
              AnnouncesTraced, WaitApart
<1>3. Busy(Q) <=> Busy(q)
  BY <1>1 DEF Busy
<1>4. Asked(Q)
  BY <1>1, <1>3, Zenon DEF Asked
<1> QED
  BY <1>2, <1>3, <1>4 DEF QueuesKept, Q

\* The queues become q, and the loop schedules.
LEMMA AfterSchedule ==
    ASSUME NEW q, QueueInv(q, waitlist'), NEW actives \in SUBSET Peers, Schedule(q, actives),
           Busy(q) => timeoutTimer, timeoutTimer \in BOOLEAN,
           ~Busy(q) => \A p \in Peers : \A h \in q.announces[p] :
                          p \in q.announced[h] => \E o \in actives : q.announces[o] # {}
    PROVE  QueuesKept' /\ timeoutTimer' \in BOOLEAN
<1>1. PICK g \in Grants(q, actives) :
        /\ Become(Granted(q, g))
        /\ timeoutTimer' = (timeoutTimer \/ (~Busy(q) /\ Busy(Granted(q, g))))
  BY DEF Schedule
<1>2. QueueInv(Granted(q, g), waitlist')
  BY GrantKeeps, Zenon
<1>3. Asked(Granted(q, g))
  BY GrantAsks
<1>4. Busy(Granted(q, g)) => timeoutTimer'
  BY <1>1, Zenon
<1> QED
  BY <1>1, <1>2, <1>3, <1>4, AfterBecome, Zenon

\* The queues become q, the loop schedules for all peers and arms the timer.
LEMMA AfterReschedule ==
    ASSUME NEW q, QueueInv(q, waitlist'), timeoutTimer' = TRUE,
           \E g \in Grants(q, Announcers(q)) : Become(Granted(q, g))
    PROVE  QueuesKept'
<1>1. PICK g \in Grants(q, Announcers(q)) : Become(Granted(q, g))
  OBVIOUS
<1>2. Announcers(q) \in SUBSET Peers
  BY DEF Announcers
<1>3. QueueInv(Granted(q, g), waitlist')
  BY <1>2, GrantKeeps, ZenonT(30)
<1>4. \A p \in Peers : \A h \in q.announces[p] : \E o \in Announcers(q) : q.announces[o] # {}
  BY DEF Announcers
<1>5. Asked(Granted(q, g))
  BY <1>2, <1>4, GrantAsks, Zenon
<1> QED
  BY <1>1, <1>3, <1>5, AfterBecome, Zenon

-------------------------------------------------------------------------------
(* The steps of the loop *)

\* The waiting hashes, by hash and by peer, and their timer.
WaitKept ==
    /\ waitlist \in [Hashes -> SUBSET Peers] /\ waitslots \in [Peers -> SUBSET Hashes]
    /\ \A h \in Hashes, p \in Peers : p \in waitlist[h] <=> h \in waitslots[p]
    /\ waitTimer \in BOOLEAN
    /\ (\E h \in Hashes : waitlist[h] # {}) => waitTimer

\* The inductive invariant.
IInv == WaitKept /\ QueuesKept /\ timeoutTimer \in BOOLEAN

\* Without a request nothing is being fetched, so every announcement is queued.
LEMMA IdleQueues ==
    ASSUME QueuesKept, ~Busy(Queues)
    PROVE  /\ \A h \in Hashes : fetching[h] = {} /\ alternates[h] = {}
           /\ \A p \in Peers : requests[p] = {} /\ announces[p] = {}
<1>q. QueueInv(Queues, waitlist)
  BY Zenon DEF QueuesKept
<1>1. \A p \in Peers : requests[p] = {}
  BY DEF Busy, Queues
<1>2. \A h \in Hashes : fetching[h] = {} /\ alternates[h] = {}
  BY <1>1, <1>q, Plain, ZenonT(30)
<1>3. \A p \in Peers : announces[p] = {}
  <2> SUFFICES ASSUME NEW p \in Peers, NEW h \in announces[p] PROVE FALSE
    BY Zenon
  <2>1. h \in Hashes /\ p \in announced[h]
    BY <1>2, <1>q, Plain, Zenon
  <2>2. Busy(Queues)
    BY <2>1 DEF QueuesKept, Asked, Queues
  <2> QED
    BY <2>2
<1> QED
  BY <1>1, <1>2, <1>3, Zenon

\* The part of an announcement that is taken consists of hashes.
LEMMA RoomHashes ==
    ASSUME IInv, NEW p \in Peers, NEW batch \in Announcements,
           Cardinality(waitslots[p]) + Cardinality(announces[p]) < MaxTxAnnounces
    PROVE  Range(Room(p, batch)) \in SUBSET Hashes
<1> DEFINE want == Cardinality(waitslots[p]) + Cardinality(announces[p]) + Len(batch)
<1>1. PICK S \in SUBSET Hashes : batch \in Orderings(S)
  BY DEF Announcements, Orders
<1>2. IsFiniteSet(S)
  BY FS_Subset, FiniteConstants
<1>3. Cardinality(S) \in Nat /\ batch \in [1 .. Cardinality(S) -> S]
  BY <1>1, <1>2, OrderHasAll, Zenon
<1>4. batch \in Seq(Hashes) /\ Len(batch) \in Nat /\ DOMAIN batch = 1 .. Len(batch)
  BY <1>3, SMTT(20)
<1>5. waitslots[p] \subseteq Hashes /\ announces[p] \subseteq Hashes
  BY Plain, ZenonT(30) DEF IInv, WaitKept, QueuesKept
<1>6. Cardinality(waitslots[p]) \in Nat /\ Cardinality(announces[p]) \in Nat
  BY <1>5, FS_Subset, FS_CardinalityType, FiniteConstants, Zenon
<1>7. MaxTxAnnounces \in Nat
  BY FiniteConstants
<1>8. Room(p, batch) \in Seq(Hashes)
  <2>1. CASE want > MaxTxAnnounces
    <3> DEFINE n == want - MaxTxAnnounces
    <3>1. n \in 1 .. Len(batch)
      BY <1>4, <1>6, <1>7, <2>1
    <3>2. Room(p, batch) = SubSeq(batch, 1, n)
      BY <2>1, Zenon DEF Room
    <3> HIDE DEF n
    <3>3. SubSeq(batch, 1, n) \in Seq(Hashes)
      BY <1>4, <3>1, SMTT(20)
    <3> QED
      BY <3>2, <3>3, ZenonT(30)
  <2>2. CASE ~(want > MaxTxAnnounces)
    BY <1>4, <2>2, ZenonT(30) DEF Room
  <2> QED
    BY <2>1, <2>2, ZenonT(30)
<1> QED
  BY <1>8 DEF Range

\* An announcement is taken.
LEMMA NotifyKeeps ==
    ASSUME IInv, NEW p \in Peers, NEW batch \in Announcements, Notify(p, batch)
    PROVE  IInv'
<1> DEFINE new == Range(Room(p, batch))
           waits == {h \in new : StageOf(h) = "wait"}
           q == Noted(p, new)
<1>1. /\ Cardinality(waitslots[p]) + Cardinality(announces[p]) < MaxTxAnnounces
      /\ waitlist' = [h \in Hashes |-> waitlist[h] \cup (IF h \in waits THEN {p} ELSE {})]
      /\ waitslots' = [waitslots EXCEPT ![p] = @ \cup waits]
      /\ waitTimer' = (waitTimer \/ ((\A h \in Hashes : waitlist[h] = {}) /\ waits # {}))
  BY Zenon DEF Notify
<1>2. new \in SUBSET Hashes
  BY <1>1, RoomHashes, Zenon
<1>3. \A h \in Hashes : h \in waits <=> h \in new /\ StageOf(h) = "wait"
  OBVIOUS
<1>4. WaitKept'
  <2>1. waits \subseteq Hashes
    BY <1>2
  <2> HIDE DEF waits
  <2> QED
    BY <1>1, <2>1, ZenonT(30) DEF IInv, WaitKept
<1>5. QueueInv(Queues, waitlist) /\ QueuesKept
  BY DEF IInv, QueuesKept
<1>6. IF announces[p] = {} /\ q.announces[p] # {}
      THEN Schedule(q, {p})
      ELSE Become(q) /\ UNCHANGED timeoutTimer
  BY Zenon DEF Notify
<1>7. QueueInv(q, waitlist')
  <2> HIDE DEF new
  <2>1. \A h \in Hashes :
          waitlist'[h] = waitlist[h] \cup (IF h \in new /\ StageOf(h) = "wait" THEN {p} ELSE {})
    BY <1>1, <1>3
  <2> HIDE DEF waits
  <2> QED
    BY <1>2, <1>5, <2>1, NotedKeeps
<1>8. Busy(q) <=> Busy(Queues)
  BY DEF Busy, Noted, Queues
<1>9. \A o \in Peers : o # p => q.announces[o] = announces[o]
  <2>1. announces \in [Peers -> SUBSET Hashes]
    BY <1>5, Plain
  <2>2. q.announces = [announces EXCEPT ![p] = @ \cup {h \in new : StageOf(h) # "wait"}]
    BY Zenon DEF Noted
  <2> QED
    BY <2>1, <2>2
<1>10. CASE announces[p] = {} /\ q.announces[p] # {}
  <2>1. Schedule(q, {p}) /\ {p} \in SUBSET Peers
    BY <1>6, <1>10, Zenon
  <2> HIDE DEF q
  <2>2. QueuesKept' /\ timeoutTimer' \in BOOLEAN
    BY <1>5, <1>7, <1>8, <1>10, <2>1, AfterSchedule, ZenonT(30) DEF IInv, QueuesKept
  <2> QED
    BY <1>4, <2>2 DEF IInv
<1>11. CASE ~(announces[p] = {} /\ q.announces[p] # {})
  <2>1. Become(q) /\ timeoutTimer' = timeoutTimer
    BY <1>6, <1>11
  <2>2. Asked(q)
    <3> SUFFICES ASSUME ~Busy(q), NEW o \in Peers PROVE q.announces[o] = {}
      BY ZenonT(30) DEF Asked
    <3>1. announces[o] = {} /\ announces[p] = {}
      BY <1>5, <1>8, IdleQueues
    <3> HIDE DEF q
    <3> QED
      BY <1>9, <1>11, <3>1, Zenon
  <2> HIDE DEF q
  <2>3. QueuesKept'
    BY <1>5, <1>7, <1>8, <2>1, <2>2, AfterBecome, Zenon DEF QueuesKept
  <2> QED
    BY <1>4, <2>1, <2>3, Zenon DEF IInv
<1> QED
  BY <1>10, <1>11

\* Hashes have waited long enough.
LEMMA WaitTriggerKeeps ==
    ASSUME IInv, NEW old \in SUBSET Hashes, WaitTrigger(old)
    PROVE  IInv'
<1> DEFINE q == Joined(old)
           actives == UNION {waitlist[h] : h \in old}
<1>1. /\ \A h \in old : waitlist[h] # {}
      /\ waitlist' = [h \in Hashes |-> IF h \in old THEN {} ELSE waitlist[h]]
      /\ waitslots' = [p \in Peers |-> waitslots[p] \ old]
      /\ waitTimer' = \E h \in Hashes : waitlist'[h] # {}
  BY DEF WaitTrigger
<1>2. WaitKept'
  BY <1>1 DEF IInv, WaitKept
<1>3. QueueInv(Queues, waitlist) /\ QueuesKept
  BY DEF IInv, QueuesKept
<1>4. IF actives # {} THEN Schedule(q, actives) ELSE Become(q) /\ UNCHANGED timeoutTimer
  BY DEF WaitTrigger
<1>5. QueueInv(q, waitlist')
  <2>1. waitlist \in [Hashes -> SUBSET Peers]
        /\ \A h \in Hashes, p \in Peers : h \in waitslots[p] => p \in waitlist[h]
    BY DEF IInv, WaitKept
  <2>2. \A h \in Hashes : waitlist'[h] = IF h \in old THEN {} ELSE waitlist[h]
    BY <1>1, Zenon
  <2> QED
    BY <1>1, <1>3, <2>1, <2>2, JoinedKeeps, Zenon
<1>6. Busy(q) <=> Busy(Queues)
  BY DEF Busy, Joined, Queues
<1>7. actives \in SUBSET Peers
  BY DEF IInv, WaitKept
<1>8. CASE actives # {}
  <2>1. PICK h \in old : \E p \in Peers : p \in waitlist[h]
    BY <1>1, <1>8 DEF IInv, WaitKept
  <2>2. PICK p \in Peers : p \in waitlist[h]
    BY <2>1
  <2>3. h \in q.announces[p]
    BY <2>1, <2>2, Zenon DEF IInv, WaitKept, Joined
  <2>4. p \in actives
    BY <2>1, <2>2, Zenon
  <2> HIDE DEF q, actives
  <2>5. QueuesKept' /\ timeoutTimer' \in BOOLEAN
    BY <1>3, <1>4, <1>5, <1>6, <1>7, <1>8, <2>3, <2>4, AfterSchedule, ZenonT(30) DEF IInv, QueuesKept
  <2> QED
    BY <1>2, <2>5, ZenonT(30) DEF IInv
<1>9. CASE actives = {}
  <2>1. Become(q) /\ timeoutTimer' = timeoutTimer
    BY <1>4, <1>9
  <2>2. old = {}
    BY <1>1, <1>9, SMTT(20)
  <2>3. Asked(q)
    <3> SUFFICES ASSUME ~Busy(q), NEW o \in Peers PROVE q.announces[o] = {}
      BY Zenon DEF Asked
    <3>1. announces[o] = {}
      BY <1>3, <1>6, IdleQueues, Zenon
    <3> QED
      BY <2>2, <3>1, Zenon DEF Joined
  <2> HIDE DEF q
  <2>4. QueuesKept'
    BY <1>3, <1>5, <1>6, <2>1, <2>3, AfterBecome, Zenon DEF QueuesKept
  <2> QED
    BY <1>2, <2>1, <2>4, Zenon DEF IInv
<1> QED
  BY <1>8, <1>9, ZenonT(30)

\* Requests have timed out.
LEMMA TimeoutTriggerKeeps ==
    ASSUME IInv, NEW late \in SUBSET Peers, TimeoutTrigger(late)
    PROVE  IInv'
<1> DEFINE q == Expired(late)
<1>1. /\ \E g \in Grants(q, Announcers(q)) : Become(Granted(q, g))
      /\ timeoutTimer' = TRUE
      /\ waitlist' = waitlist /\ waitslots' = waitslots /\ waitTimer' = waitTimer
  BY DEF TimeoutTrigger
<1>2. WaitKept'
  BY <1>1, Zenon DEF IInv, WaitKept
<1>3. QueueInv(q, waitlist')
  BY <1>1, ExpiredKeeps, Zenon DEF IInv, QueuesKept
<1> HIDE DEF q
<1>4. QueuesKept'
  BY <1>1, <1>3, AfterReschedule, Zenon
<1> QED
  BY <1>1, <1>2, <1>4, Zenon DEF IInv

\* Transactions have arrived, by broadcast or as an answer.
LEMMA DeliveryKeeps ==
    ASSUME IInv, NEW origin \in Peers, NEW hashes \in SUBSET Hashes, NEW direct \in BOOLEAN,
           Delivery(origin, hashes, direct)
    PROVE  IInv'
<1> DEFINE waits == {h \in hashes : waitlist[h] # {}}
           hs == hashes \ waits
           q == Forget(origin, hs, direct)
<1>1. /\ waitlist' = [h \in Hashes |-> IF h \in waits THEN {} ELSE waitlist[h]]
      /\ waitslots' = [p \in Peers |-> waitslots[p] \ waits]
      /\ waitTimer' = waitTimer
      /\ IF direct /\ requests[origin] # {}
         THEN \E r \in q.requests[origin] :
                 Schedule(Requeue(q, origin, r, hashes), Announcers(Requeue(q, origin, r, hashes)))
         ELSE Become(q) /\ UNCHANGED timeoutTimer
  BY Zenon DEF Delivery
<1>2. WaitKept'
  BY <1>1, Zenon DEF IInv, WaitKept
<1>3. QueueInv(Queues, waitlist) /\ QueuesKept
  BY DEF IInv, QueuesKept
<1>4. \A h \in Hashes : waitlist'[h] \subseteq waitlist[h]
  BY <1>1, Zenon
<1>5. hs \in SUBSET Hashes
  BY Zenon
<1>6. CASE direct /\ requests[origin] # {}
  <2>1. direct = TRUE
    BY <1>6, Zenon
  <2>2. PICK r \in Forget(origin, hs, TRUE).requests[origin] :
           LET left == Requeue(Forget(origin, hs, TRUE), origin, r, hashes)
           IN Schedule(left, Announcers(left))
    BY <1>1, <1>6, <2>1, Zenon
  <2> DEFINE left == Requeue(Forget(origin, hs, TRUE), origin, r, hashes)
  <2>3. QueueInv(left, waitlist')
    BY <1>3, <1>4, RequeueKeeps, ZenonT(30)
  <2>4. Busy(left) => Busy(Queues)
    <3> SUFFICES ASSUME NEW p \in Peers, left.requests[p] # {} PROVE requests[p] # {}
      BY Zenon DEF Busy, Queues
    <3> DEFINE F == Forget(origin, hs, TRUE)
    <3>1. left.requests = [F.requests EXCEPT ![origin] = {}]
      BY Zenon DEF Requeue
    <3>2. F.requests \in [Peers -> {F.requests[o] : o \in Peers}] /\ (requests[p] = {} => F.requests[p] = {})
      BY Zenon DEF Forget
    <3> HIDE DEF F, left
    <3> QED
      BY <3>1, <3>2, ZenonT(30)
  <2>5. Announcers(left) \in SUBSET Peers
    BY Zenon DEF Announcers
  <2>6. \A p \in Peers : \A h \in left.announces[p] : \E o \in Announcers(left) : left.announces[o] # {}
    BY Zenon DEF Announcers
  <2>7. Schedule(left, Announcers(left))
    BY <2>2, Zenon
  <2> HIDE DEF left
  <2>8. QueuesKept' /\ timeoutTimer' \in BOOLEAN
    BY <1>3, <2>3, <2>4, <2>5, <2>6, <2>7, AfterSchedule, Zenon DEF IInv, QueuesKept
  <2> QED
    BY <1>2, <2>8, Zenon DEF IInv
<1>7. CASE ~(direct /\ requests[origin] # {})
  <2>1. Become(q) /\ timeoutTimer' = timeoutTimer
    BY <1>1, <1>7, Zenon
  <2>2. QueueInv(q, waitlist')
    <3> HIDE DEF hs
    <3> QED
      BY <1>3, <1>4, <1>5, <1>7, ForgetKeeps, Zenon
  <2>3. Busy(q) <=> Busy(Queues)
    <3>1. \A p \in Peers : q.requests[p] = {} <=> requests[p] = {}
      BY ZenonT(30) DEF Forget
    <3> QED
      BY <3>1, Zenon DEF Busy, Queues
  <2>4. Asked(q)
    <3> SUFFICES ASSUME ~Busy(q), NEW o \in Peers PROVE q.announces[o] = {}
      BY Zenon DEF Asked
    <3>1. announces[o] = {}
      BY <1>3, <2>3, IdleQueues
    <3> QED
      BY <3>1, Zenon DEF Forget
  <2> HIDE DEF q
  <2>5. QueuesKept'
    BY <1>3, <2>1, <2>2, <2>3, <2>4, AfterBecome DEF QueuesKept
  <2> QED
    BY <1>2, <2>1, <2>5 DEF IInv
<1> QED
  BY <1>6, <1>7, Zenon

\* A peer has gone.
LEMMA DropKeeps ==
    ASSUME IInv, NEW p \in Peers, Drop(p)
    PROVE  IInv'
<1> DEFINE q == Dropped(p)
<1>1. /\ waitslots' = [waitslots EXCEPT ![p] = {}]
      /\ waitlist' = [h \in Hashes |-> waitlist[h] \ {p}]
      /\ waitTimer' = (waitTimer \/ (waitslots[p] # {} /\ \E h \in Hashes : waitlist'[h] # {}))
      /\ IF requests[p] # {}
         THEN /\ \E g \in Grants(q, Announcers(q)) : Become(Granted(q, g))
              /\ timeoutTimer' = TRUE
         ELSE Become(q) /\ UNCHANGED timeoutTimer
  BY Zenon DEF Drop
<1>2. WaitKept'
  BY <1>1 DEF IInv, WaitKept
<1>3. QueueInv(Queues, waitlist) /\ QueuesKept
  BY DEF IInv, QueuesKept
<1>4. QueueInv(q, waitlist')
  <2>1. \A h \in Hashes : waitlist'[h] \subseteq waitlist[h]
    BY <1>1, Zenon
  <2> QED
    BY <1>3, <2>1, DroppedKeeps
<1>5. CASE requests[p] # {}
  <2> HIDE DEF q
  <2>1. QueuesKept' /\ timeoutTimer' = TRUE
    BY <1>1, <1>4, <1>5, AfterReschedule, Zenon
  <2> QED
    BY <1>2, <2>1 DEF IInv
<1>6. CASE requests[p] = {}
  <2>1. Become(q) /\ timeoutTimer' = timeoutTimer
    BY <1>1, <1>6, Zenon
  <2>2. q.requests = requests /\ q.announces = [announces EXCEPT ![p] = {}]
    <3>1. announces \in [Peers -> SUBSET Hashes] /\ requests \in [Peers -> SUBSET Requests]
      BY <1>3, Plain, Zenon
    <3>2. q.requests = [requests EXCEPT ![p] = {}] /\ q.announces = [announces EXCEPT ![p] = {}]
      BY Zenon DEF Dropped
    <3> QED
      BY <1>6, <3>1, <3>2, ZenonT(30)
  <2>3. Busy(q) <=> Busy(Queues)
    BY <2>2, Zenon DEF Busy, Queues
  <2>4. Asked(q)
    <3> SUFFICES ASSUME ~Busy(q), NEW o \in Peers PROVE q.announces[o] = {}
      BY DEF Asked
    <3>1. announces[o] = {}
      BY <1>3, <2>3, IdleQueues, Zenon
    <3> QED
      <4>1. announces \in [Peers -> SUBSET Hashes]
        BY <1>3, Plain, ZenonT(30)
      <4> QED
        BY <2>2, <3>1, <4>1, Zenon
  <2> HIDE DEF q
  <2>5. QueuesKept'
    BY <1>3, <1>4, <2>1, <2>3, <2>4, AfterBecome, Zenon DEF QueuesKept
  <2> QED
    BY <1>2, <2>1, <2>5 DEF IInv
<1> QED
  BY <1>5, <1>6

\* The invariant holds initially.
LEMMA InitHolds == Init => IInv
<1> SUFFICES ASSUME Init PROVE IInv
  OBVIOUS
<1>1. WaitKept /\ timeoutTimer \in BOOLEAN
  BY Zenon DEF Init, WaitKept
<1>2. QueueInv(Queues, waitlist)
  BY Zenon DEF Init, Queues, QueueInv, QueueTypes, OneRequest, FetchRequested, OpenFetched, AlternatesFetched,
         AnnouncesTraced, WaitApart
<1>3. Asked(Queues) /\ ~Busy(Queues)
  BY DEF Init, Queues, Asked, Busy
<1> QED
  BY <1>1, <1>2, <1>3, Zenon DEF IInv, QueuesKept

\* Every step of the loop keeps the invariant.
LEMMA NextKeeps == IInv /\ [Next]_vars => IInv'
<1> SUFFICES ASSUME IInv, [Next]_vars PROVE IInv'
  BY Zenon
<1>1. ASSUME NEW p \in Peers, NEW batch \in Announcements, Notify(p, batch) PROVE IInv'
  BY <1>1, NotifyKeeps, Zenon
<1>2. ASSUME NEW old \in SUBSET Hashes, WaitTrigger(old) PROVE IInv'
  BY <1>2, WaitTriggerKeeps, Zenon
<1>3. ASSUME NEW late \in SUBSET Peers, TimeoutTrigger(late) PROVE IInv'
  BY <1>3, TimeoutTriggerKeeps, ZenonT(30)
<1>4. ASSUME NEW p \in Peers, NEW hashes \in SUBSET Hashes, NEW direct \in BOOLEAN,
             Delivery(p, hashes, direct)
      PROVE  IInv'
  BY <1>4, DeliveryKeeps
<1>5. ASSUME NEW p \in Peers, Drop(p) PROVE IInv'
  BY <1>5, DropKeeps, ZenonT(30)
<1>6. CASE UNCHANGED vars
  BY <1>6 DEF vars, IInv, WaitKept, QueuesKept, Queues
<1> QED
  BY <1>1, <1>2, <1>3, <1>4, <1>5, <1>6, Zenon DEF Next

\* The invariant holds always.
LEMMA Invariance == Spec => []IInv
<1>1. Init => IInv
  BY InitHolds
<1>2. IInv /\ [Next]_vars => IInv'
  BY NextKeeps
<1> QED
  BY <1>1, <1>2, PTL DEF Spec

\* A hash waits, is queued or is being fetched, in one of these stages only; what
\* is being fetched is in the request of the peer it is fetched from, and what a
\* request waits for is being fetched from that peer and is not queued: for any
\* transactions, peers and limits.
THEOREM StagesAlwaysApart == Spec => []StagesApart
<1>1. IInv => StagesApart
  <2> SUFFICES ASSUME IInv PROVE OneStage /\ RequestsMatch
    BY DEF StagesApart
  <2>1. QueueInv(Queues, waitlist)
    BY ZenonT(30) DEF IInv, QueuesKept
  <2>2. OneStage
    BY <2>1, Plain, ZenonT(30) DEF OneStage
  <2>3. RequestsMatch
    BY <2>1, Plain, SMTT(20) DEF RequestsMatch
  <2> QED
    BY <2>2, <2>3, Zenon
<1>2. Spec => []IInv
  BY Invariance, Zenon
<1> QED
  BY <1>1, <1>2, PTL

\* As long as a peer can be asked for a queued hash, a request is in flight and its
\* timer runs; and a timer runs while hashes wait for a broadcast.
THEOREM AlwaysStillScheduled == Spec => []StillScheduled
<1>1. IInv => StillScheduled
  <2> SUFFICES ASSUME IInv PROVE StillScheduled
    OBVIOUS
  <2>1. ASSUME NEW h \in Hashes, NEW p \in announced[h], h \in announces[p]
        PROVE  timeoutTimer /\ \E o \in Peers : requests[o] # {}
    <3>1. p \in Peers
      BY Plain DEF IInv, QueuesKept
    <3>2. Busy(Queues)
      BY <2>1, <3>1, Zenon DEF IInv, QueuesKept, Asked, Queues
    <3>3. timeoutTimer
      BY <3>2 DEF IInv, QueuesKept
    <3> QED
      BY <3>2, <3>3, Zenon DEF Busy, Queues
  <2> QED
    BY <2>1 DEF StillScheduled, IInv, WaitKept
<1>2. Spec => []IInv
  BY Invariance
<1> QED
  BY <1>1, <1>2, PTL

================================================================================
