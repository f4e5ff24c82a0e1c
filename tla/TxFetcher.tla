------------------------------- MODULE TxFetcher -------------------------------
(***************************************************************************)
(* eth/fetcher/tx_fetcher.go: the loop that turns announcements of         *)
(* transactions into requests.  A hash waits for a broadcast, is queued    *)
(* for retrieval, or is being fetched from one peer with the other         *)
(* announcers as alternates.  Peers answer late, partly or never, deliver  *)
(* what others were asked for, and go.                                     *)
(*                                                                         *)
(* Each case of the loop's select is one action.  Whether a transaction    *)
(* has waited long enough and whether a request has timed out is any       *)
(* outcome.  The pool is left out: its filter in Notify is racy by its own *)
(* comment.  Of the metadata of announcements the sizes matter, as they    *)
(* may end a request before its number of hashes does: after which hash is *)
(* any outcome too.  That they may cost a peer its connection is Drop.     *)
(***************************************************************************)
EXTENDS Integers, Sequences, FiniteSets, FiniteSetsExt, Functions

CONSTANTS
    Hashes, Peers,
    MaxTxAnnounces,   \* 4096 in the code
    MaxTxRetrievals,  \* 256 in the code
    MaxBatch          \* bound: hashes in one announcement

ASSUME FiniteConstants ==
    /\ IsFiniteSet(Hashes) /\ IsFiniteSet(Peers)
    /\ MaxTxRetrievals \in Nat \ {0} /\ MaxTxAnnounces \in Nat /\ MaxBatch \in Nat

VARIABLES
    waitlist,     \* hash -> peers; empty when the hash is not waiting
    waitslots,    \* peer -> hashes
    announces,    \* peer -> hashes queued or being fetched
    announced,    \* hash -> peers, of queued hashes
    fetching,     \* hash -> the peer it is requested from, at most one
    requests,     \* peer -> the request in flight, at most one
    alternates,   \* hash -> peers, of hashes being fetched
    waitTimer, timeoutTimer

vars == <<waitlist, waitslots, announces, announced, fetching, requests, alternates, waitTimer, timeoutTimer>>

\* The ways to put a finite set in order.
Orderings(S) == Injection(1 .. Cardinality(S), S)

\* Hashes in the order of a request or of an announcement, without repetition.
Orders(n) == UNION {Orderings(S) : S \in {S \in SUBSET Hashes : Cardinality(S) <= n}}

Announcements == Orders(MaxBatch) \ {<<>>}
RequestOrders == Orders(MaxTxRetrievals)

\* What scheduleFetches reads and writes.
Queues == [announces |-> announces, announced |-> announced, fetching |-> fetching,
           requests |-> requests, alternates |-> alternates]
Become(q) ==
    /\ announces' = q.announces /\ announced' = q.announced /\ fetching' = q.fetching
    /\ requests' = q.requests /\ alternates' = q.alternates

-------------------------------------------------------------------------------
(* scheduleFetches *)

\* The ways to give hashes to idle peers: one peer after the other takes what is
\* not being fetched, at least one hash if there is any, and then more up to the
\* limit of their number or, at any of them, of their size.
Grants(q, actives) ==
    LET idle == {p \in actives : q.requests[p] = {} /\ q.announces[p] # {}}
        free(p) == {h \in q.announces[p] : q.fetching[h] = {}}
        offers == {o \in RequestOrders : \E p \in idle : Range(o) \subseteq free(p)}
    IN {g \in [idle -> offers] :
          \E order \in Orderings(idle) : \A i \in DOMAIN order :
             LET left == free(order[i]) \ UNION {Range(g[order[j]]) : j \in 1 .. i - 1}
             IN /\ Range(g[order[i]]) \subseteq left
                /\ left # {} => g[order[i]] # <<>>}

\* The queues once the hashes are given.
Granted(q, g) ==
    LET to == [h \in Hashes |-> {p \in DOMAIN g : h \in Range(g[p])}]
    IN [announces |-> q.announces,
        announced |-> [h \in Hashes |-> IF to[h] # {} THEN {} ELSE q.announced[h]],
        fetching |-> [h \in Hashes |-> q.fetching[h] \cup to[h]],
        requests |-> [p \in Peers |-> IF p \in DOMAIN g /\ g[p] # <<>>
                                       THEN {[hashes |-> g[p], stolen |-> {}]}
                                       ELSE q.requests[p]],
        alternates |-> [h \in Hashes |-> IF to[h] # {} THEN q.announced[h] ELSE q.alternates[h]]]

Busy(q) == \E p \in Peers : q.requests[p] # {}

\* Mutant: the timer is left to the expiry of earlier requests.
ScheduleUnarmed(q, actives) ==
    /\ \E g \in Grants(q, actives) : Become(Granted(q, g))
    /\ UNCHANGED timeoutTimer

\* The first request arms the timer.
Schedule(q, actives) ==
    \E g \in Grants(q, actives) :
        /\ Become(Granted(q, g))
        /\ timeoutTimer' = (timeoutTimer \/ (~Busy(q) /\ Busy(Granted(q, g))))

Announcers(q) == {p \in Peers : q.announces[p] # {}}

-------------------------------------------------------------------------------
(* case ann := <-f.notify *)

\* The part of an announcement that there is room for, as the code cuts it.
Room(p, batch) ==
    LET want == Cardinality(waitslots[p]) + Cardinality(announces[p]) + Len(batch)
    IN IF want > MaxTxAnnounces THEN SubSeq(batch, 1, want - MaxTxAnnounces) ELSE batch

\* Mutant: a hash that is being fetched is not looked for.
StageOfQueued(h) == IF announced[h] # {} THEN "announced" ELSE "wait"

\* Where an announced hash belongs.
StageOf(h) == CASE alternates[h] # {} -> "fetching"
                [] alternates[h] = {} /\ announced[h] # {} -> "announced"
                [] OTHER -> "wait"

\* The queues once p has announced the hashes of new.
Noted(p, new) ==
    LET by(h, stage) == IF h \in new /\ StageOf(h) = stage THEN {p} ELSE {}
        queued == {h \in new : StageOf(h) # "wait"}
    IN [announces |-> [announces EXCEPT ![p] = @ \cup queued],
        announced |-> [h \in Hashes |-> announced[h] \cup by(h, "announced")],
        fetching |-> fetching,
        requests |-> requests,
        alternates |-> [h \in Hashes |-> alternates[h] \cup by(h, "fetching")]]

Notify(p, batch) ==
    LET new == Range(Room(p, batch))
        waits == {h \in new : StageOf(h) = "wait"}
        q == Noted(p, new)
    IN
    /\ Cardinality(waitslots[p]) + Cardinality(announces[p]) < MaxTxAnnounces
    /\ waitlist' = [h \in Hashes |-> waitlist[h] \cup (IF h \in waits THEN {p} ELSE {})]
    /\ waitslots' = [waitslots EXCEPT ![p] = @ \cup waits]
    /\ waitTimer' = (waitTimer \/ ((\A h \in Hashes : waitlist[h] = {}) /\ waits # {}))
    /\ IF announces[p] = {} /\ q.announces[p] # {}
       THEN Schedule(q, {p})
       ELSE Become(q) /\ UNCHANGED timeoutTimer

-------------------------------------------------------------------------------
(* case <-waitTrigger *)

\* The queues once the hashes of old have joined them.
Joined(old) ==
    [announces |-> [p \in Peers |-> announces[p] \cup (waitslots[p] \cap old)],
     announced |-> [h \in Hashes |-> IF h \in old THEN waitlist[h] ELSE announced[h]],
     fetching |-> fetching,
     requests |-> requests,
     alternates |-> alternates]

\* The hashes of old have waited long enough.
WaitTrigger(old) ==
    LET q == Joined(old)
        actives == UNION {waitlist[h] : h \in old}
    IN
    /\ waitTimer
    /\ \A h \in old : waitlist[h] # {}
    /\ waitlist' = [h \in Hashes |-> IF h \in old THEN {} ELSE waitlist[h]]
    /\ waitslots' = [p \in Peers |-> waitslots[p] \ old]
    /\ waitTimer' = \E h \in Hashes : waitlist'[h] # {}
    /\ IF actives # {} THEN Schedule(q, actives) ELSE Become(q) /\ UNCHANGED timeoutTimer

-------------------------------------------------------------------------------
(* case <-timeoutTrigger *)

\* The hashes of a request that no one else has delivered.
Open(request) == Range(request.hashes) \ request.stolen

\* The queues once the requests of the peers in late have timed out.  The requests
\* stay as dangling ones without hashes until the peer answers or goes.
Expired(late) ==
    LET lost == [p \in Peers |-> IF p \in late THEN UNION {Open(r) : r \in requests[p]} ELSE {}]
        from == [h \in Hashes |-> {p \in late : h \in lost[p]}]
    IN [announces |-> [p \in Peers |-> announces[p] \ lost[p]],
        announced |-> [h \in Hashes |-> IF from[h] = {} THEN announced[h] ELSE alternates[h] \ from[h]],
        fetching |-> [h \in Hashes |-> IF from[h] = {} THEN fetching[h] ELSE {}],
        requests |-> [p \in Peers |-> IF p \in late
                                       THEN {[hashes |-> <<>>, stolen |-> r.stolen] : r \in requests[p]}
                                       ELSE requests[p]],
        alternates |-> [h \in Hashes |-> IF from[h] = {} THEN alternates[h] ELSE {}]]

TimeoutTrigger(late) ==
    LET q == Expired(late) IN
    /\ timeoutTimer
    /\ \A p \in late : requests[p] # {}
    /\ \E g \in Grants(q, Announcers(q)) : Become(Granted(q, g))
    /\ timeoutTimer' = TRUE
    /\ UNCHANGED <<waitlist, waitslots, waitTimer>>

-------------------------------------------------------------------------------
(* case delivery := <-f.cleanup *)

\* Mutant: the request that was overtaken does not note it.
ForgetUnnoted(origin, hashes, direct) ==
    [announces |-> [p \in Peers |-> announces[p] \ hashes],
     announced |-> [h \in Hashes |-> IF h \in hashes THEN {} ELSE announced[h]],
     fetching |-> [h \in Hashes |-> IF h \in hashes THEN {} ELSE fetching[h]],
     requests |-> requests,
     alternates |-> [h \in Hashes |-> IF h \in hashes THEN {} ELSE alternates[h]]]

\* All traces of the delivered hashes that do not wait go; a request to another
\* peer, or one that a broadcast has overtaken, notes them as stolen.
Forget(origin, hashes, direct) ==
    LET stolenFrom(h) == IF direct THEN fetching[h] \ {origin} ELSE fetching[h]
    IN [announces |-> [p \in Peers |-> announces[p] \ hashes],
        announced |-> [h \in Hashes |-> IF h \in hashes THEN {} ELSE announced[h]],
        fetching |-> [h \in Hashes |-> IF h \in hashes THEN {} ELSE fetching[h]],
        requests |-> [p \in Peers |-> {[hashes |-> r.hashes,
                                         stolen |-> r.stolen \cup {h \in hashes : p \in stolenFrom(h)}] :
                                        r \in requests[p]}],
        alternates |-> [h \in Hashes |-> IF h \in hashes THEN {} ELSE alternates[h]]]

\* What a direct answer leaves of its request goes back into the queue: without
\* the peer if it lies before the last delivered hash, or if nothing was delivered.
Requeue(q, origin, request, delivered) ==
    LET hits == {i \in DOMAIN request.hashes : request.hashes[i] \in delivered}
        cutoff == IF hits = {} THEN Len(request.hashes) + 1 ELSE Max(hits)
        passed == {h \in Open(request) \ delivered : \E i \in 1 .. cutoff - 1 : request.hashes[i] = h}
        rest(h) == IF h \in passed THEN q.alternates[h] \ {origin} ELSE q.alternates[h]
    IN [announces |-> [q.announces EXCEPT ![origin] = @ \ passed],
        announced |-> [h \in Hashes |-> IF h \in Open(request) \ delivered /\ rest(h) # {} THEN rest(h)
                                         ELSE q.announced[h]],
        fetching |-> [h \in Hashes |-> IF h \in Open(request) THEN {} ELSE q.fetching[h]],
        requests |-> [q.requests EXCEPT ![origin] = {}],
        alternates |-> [h \in Hashes |-> IF h \in Open(request) THEN {} ELSE q.alternates[h]]]

Delivery(origin, hashes, direct) ==
    LET waits == {h \in hashes : waitlist[h] # {}}
        q == Forget(origin, hashes \ waits, direct)
    IN
    /\ waitlist' = [h \in Hashes |-> IF h \in waits THEN {} ELSE waitlist[h]]
    /\ waitslots' = [p \in Peers |-> waitslots[p] \ waits]
    /\ IF direct /\ requests[origin] # {}
       THEN \E r \in q.requests[origin] :
              LET left == Requeue(q, origin, r, hashes) IN Schedule(left, Announcers(left))
       ELSE Become(q) /\ UNCHANGED timeoutTimer
    /\ UNCHANGED waitTimer

-------------------------------------------------------------------------------
(* case drop := <-f.drop *)

\* The queues without p.
Dropped(p) ==
    LET open == UNION {Open(r) : r \in requests[p]}
        queued(h) == IF h \in open /\ alternates[h] \ {p} # {} THEN alternates[h] \ {p} ELSE announced[h]
    IN [announces |-> [announces EXCEPT ![p] = {}],
        announced |-> [h \in Hashes |-> IF h \in announces[p] THEN queued(h) \ {p} ELSE queued(h)],
        fetching |-> [h \in Hashes |-> IF h \in open THEN {} ELSE fetching[h]],
        requests |-> [requests EXCEPT ![p] = {}],
        alternates |-> [h \in Hashes |-> IF h \in open THEN {} ELSE alternates[h]]]

Drop(p) ==
    LET q == Dropped(p) IN
    /\ waitslots' = [waitslots EXCEPT ![p] = {}]
    /\ waitlist' = [h \in Hashes |-> waitlist[h] \ {p}]
    /\ waitTimer' = (waitTimer \/ (waitslots[p] # {} /\ \E h \in Hashes : waitlist'[h] # {}))
    /\ IF requests[p] # {}
       THEN /\ \E g \in Grants(q, Announcers(q)) : Become(Granted(q, g))
            /\ timeoutTimer' = TRUE
       ELSE Become(q) /\ UNCHANGED timeoutTimer

-------------------------------------------------------------------------------

Init ==
    /\ waitlist = [h \in Hashes |-> {}] /\ waitslots = [p \in Peers |-> {}]
    /\ announces = [p \in Peers |-> {}] /\ announced = [h \in Hashes |-> {}]
    /\ fetching = [h \in Hashes |-> {}] /\ requests = [p \in Peers |-> {}]
    /\ alternates = [h \in Hashes |-> {}]
    /\ waitTimer = FALSE /\ timeoutTimer = FALSE

Next ==
    \/ \E p \in Peers : \E batch \in Announcements : Notify(p, batch)
    \/ \E old \in SUBSET Hashes : WaitTrigger(old)
    \/ \E late \in SUBSET Peers : TimeoutTrigger(late)
    \/ \E p \in Peers, hashes \in SUBSET Hashes, direct \in BOOLEAN : Delivery(p, hashes, direct)
    \/ \E p \in Peers : Drop(p)

Spec == Init /\ [][Next]_vars

-------------------------------------------------------------------------------
(* Properties *)

\* The first of "the invariants of the fetcher": a hash waits, is queued or is
\* being fetched, and is in one of these stages only.
OneStage ==
    \A h \in Hashes :
        /\ waitlist[h] # {} => announced[h] = {} /\ fetching[h] = {}
        /\ announced[h] # {} => fetching[h] = {}

\* What the fetcher's panics and its unchecked map accesses rely on: a hash that is
\* being fetched belongs to the request of the peer it is fetched from, a hash that
\* a request still waits for is not queued, and one that may be scheduled has no
\* alternates.
RequestsMatch ==
    /\ \A h \in Hashes : \A p \in fetching[h] : \E r \in requests[p] : h \in Open(r)
    /\ \A p \in Peers : \A r \in requests[p] : \A h \in Open(r) : fetching[h] = {p} /\ announced[h] = {}
    /\ \A h \in Hashes : fetching[h] = {} => alternates[h] = {}

\* Between them: a hash is in one stage, and the requests match what is being fetched.
StagesApart == OneStage /\ RequestsMatch

\* Nothing is forgotten: as long as a peer with an announced hash can be asked,
\* some request is in flight and the timer runs whose expiry asks on; and a timer
\* runs for the hashes that wait.
StillScheduled ==
    /\ \A h \in Hashes : \A p \in announced[h] :
          h \in announces[p] => timeoutTimer /\ \E o \in Peers : requests[o] # {}
    /\ (\E h \in Hashes : waitlist[h] # {}) => waitTimer

\* "A peer was dropped, remove all traces of it": a peer without an announcement
\* is nobody's alternate.  The code does not keep this (README, Observations).
NoTraces ==
    \A h \in Hashes : \A p \in announced[h] \cup alternates[h] : h \in announces[p]

\* maxTxAnnounces "is the maximum number of unique transaction a peer can
\* announce".  The code does not keep this (README, Observations).
AnnouncesBounded ==
    \A p \in Peers : Cardinality(waitslots[p]) + Cardinality(announces[p]) <= MaxTxAnnounces
===============================================================================
