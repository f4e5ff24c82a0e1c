------------------------------ MODULE BlockFetcher ------------------------------
(***************************************************************************)
(* eth/fetcher/block_fetcher.go of a full node: announcements of blocks    *)
(* become header and body requests, and delivered blocks a queue of        *)
(* imports by number.  The loop is one process; the requests and the       *)
(* imports are goroutines that come back to it through channels.           *)
(*                                                                         *)
(* Each turn of the loop first drops expired fetches and starts the        *)
(* imports that fit (Top), then serves one channel.  How long something    *)
(* took is any outcome.                                                    *)
(***************************************************************************)
EXTENDS Integers, Sequences, SequencesExt, FiniteSets, FiniteSetsExt, Functions

CONSTANTS
    Hashes, Peers,
    Parent, Number,  \* of a block; the parent of a first block is Genesis
    Genesis,
    Empty,           \* the blocks without transactions
    HashLimit,       \* 256 in the code
    BlockLimit,      \* 64 in the code
    MaxUncleDist,    \* 11 in the code
    MaxQueueDist,    \* 32 in the code
    FinalityLag,     \* blocks between the head and the finalized block
    MaxNotifies, MaxInjects  \* bounds: announcements and broadcast blocks

VARIABLES
    atTop,       \* the loop is at the beginning of a turn
    announces,   \* peer -> count
    announced,   \* hash -> sequence of announcements
    fetching,    \* hash -> announcement, at most one
    fetched,     \* hash -> announcement, at most one
    completing,  \* hash -> announcement, at most one
    queue,       \* the hashes to be imported
    queues,      \* peer -> count
    queued,      \* hash -> the peer that delivered it, at most one
    fetchTimer, completeTimer,
    headerReqs, bodyReqs,  \* requests in flight
    imports,     \* goroutines of importBlocks
    chain,       \* the imported blocks
    notifies, injects

tracking == <<announces, announced, fetching, fetched, completing>>
importing == <<queue, queues, queued>>
timers == <<fetchTimer, completeTimer>>
outside == <<headerReqs, bodyReqs, imports, chain>>
bounds == <<notifies, injects>>
vars == <<atTop, tracking, importing, timers, outside, bounds>>

chainHeight == Max({0} \cup {Number[h] : h \in chain})
chainFinalizedHeight == Max({0, chainHeight - FinalityLag})
TooFar(n) == n - chainHeight < -MaxUncleDist \/ n - chainHeight > MaxQueueDist

-------------------------------------------------------------------------------
(* forgetHash, forgetBlock, enqueue *)

Entries(h, p) ==
    Cardinality({i \in DOMAIN announced[h] : announced[h][i].origin = p})
    + Cardinality({a \in fetching[h] : a.origin = p})
    + Cardinality({a \in fetched[h] : a.origin = p})
    + Cardinality({a \in completing[h] : a.origin = p})

\* The tracking of the hashes in s goes.  Every entry takes one off its peer's
\* count, whether it was counted or not.
ForgetHashes(s) ==
    /\ announces' = [p \in Peers |-> Max({0, announces[p] - FoldSet(LAMBDA h, n : n + Entries(h, p), 0, s)})]
    /\ announced' = [h \in Hashes |-> IF h \in s THEN <<>> ELSE announced[h]]

Without(f, s) == [h \in Hashes |-> IF h \in s THEN {} ELSE f[h]]

ForgetAll(s) ==
    /\ ForgetHashes(s)
    /\ fetching' = Without(fetching, s)
    /\ fetched' = Without(fetched, s)
    /\ completing' = Without(completing, s)

\* Mutant: the delivering peer keeps its count.
ForgetBlocksUncounted(s) ==
    /\ queued' = Without(queued, s)
    /\ UNCHANGED queues

ForgetBlocks(s) ==
    /\ queued' = Without(queued, s)
    /\ queues' = [p \in Peers |-> queues[p] - Cardinality({h \in s : p \in queued[h]})]

Refused(p, h) ==
    \/ queues[p] + 1 > BlockLimit
    \/ TooFar(Number[h])
    \/ Number[h] <= chainFinalizedHeight

\* A block delivered by p.  A refused one is forgotten.
Enqueue(p, h) ==
    IF Refused(p, h)
    THEN ForgetAll({h}) /\ UNCHANGED importing
    ELSE /\ IF queued[h] = {}
            THEN /\ queue' = queue \cup {h}
                 /\ queued' = [queued EXCEPT ![h] = {p}]
                 /\ queues' = [queues EXCEPT ![p] = @ + 1]
            ELSE UNCHANGED importing
         /\ UNCHANGED tracking

-------------------------------------------------------------------------------
(* The beginning of a turn *)

\* Mutant: a block is forgotten when its import begins.
TopForgetting(expired) ==
    LET due == {h \in queue : Number[h] <= chainHeight + 1}
        stale == {h \in due : \/ Number[h] + MaxUncleDist < chainHeight
                              \/ Number[h] <= chainFinalizedHeight
                              \/ h \in chain}
    IN
    /\ atTop /\ atTop' = FALSE
    /\ \A h \in expired : fetching[h] # {}
    /\ ForgetAll(expired)
    /\ queue' = queue \ due
    /\ ForgetBlocks(due)
    /\ imports' = imports \cup {[hash |-> h, origin |-> CHOOSE p \in queued[h] : TRUE, phase |-> "run"] :
                                h \in due \ stale}
    /\ UNCHANGED <<timers, headerReqs, bodyReqs, chain, bounds>>

\* The fetches in expired are dropped, and the blocks up to the next number are
\* taken from the queue: forgotten if they are old or known, else imported by a
\* goroutine.  They stay in queued until it is done.
Top(expired) ==
    LET due == {h \in queue : Number[h] <= chainHeight + 1}
        stale == {h \in due : \/ Number[h] + MaxUncleDist < chainHeight
                              \/ Number[h] <= chainFinalizedHeight
                              \/ h \in chain}
    IN
    /\ atTop /\ atTop' = FALSE
    /\ \A h \in expired : fetching[h] # {}
    /\ ForgetAll(expired)
    /\ queue' = queue \ due
    /\ ForgetBlocks(stale)
    /\ imports' = imports \cup {[hash |-> h, origin |-> CHOOSE p \in queued[h] : TRUE, phase |-> "run"] :
                                h \in due \ stale}
    /\ UNCHANGED <<timers, headerReqs, bodyReqs, chain, bounds>>

Turn == ~atTop /\ atTop' = TRUE

-------------------------------------------------------------------------------
(* The channels of the loop *)

Tracked(h) == fetching[h] # {} \/ completing[h] # {}

\* Mutant: the timer is armed by the first announcement of the fetcher only.
ArmedByFirst(h) == notifies = 0

\* The announcement leaves one announced hash.
ArmedByOnly(h) == \A g \in Hashes \ {h} : announced[g] = <<>>

\* An announcement of number n for h.
Notify(p, h, n) ==
    /\ Turn /\ notifies < MaxNotifies /\ notifies' = notifies + 1
    /\ announces[p] + 1 <= HashLimit
    /\ n # 0 /\ ~TooFar(n) /\ n > chainFinalizedHeight
    /\ ~Tracked(h)
    /\ announces' = [announces EXCEPT ![p] = @ + 1]
    /\ announced' = [announced EXCEPT ![h] = Append(@, [origin |-> p, number |-> n])]
    /\ fetchTimer' = (fetchTimer \/ ArmedByOnly(h))
    /\ UNCHANGED <<fetching, fetched, completing, importing, completeTimer, outside, injects>>

\* An announcement that is refused, or a header that nobody asked for.
Ignored ==
    /\ Turn
    /\ UNCHANGED <<tracking, importing, timers, outside, bounds>>

\* A block that a peer broadcasts.
Inject(p, h) ==
    /\ Turn /\ injects < MaxInjects /\ injects' = injects + 1
    /\ Enqueue(p, h)
    /\ UNCHANGED <<timers, outside, notifies>>

\* The hashes in ready have been announced long enough ago: for each, one of its
\* announcers is asked for the header.
FetchTimer(ready) ==
    /\ Turn /\ fetchTimer
    /\ \A h \in ready : announced[h] # <<>>
    /\ \E pick \in [ready -> UNION {ToSet(announced[h]) : h \in ready}] :
        LET new == [h \in Hashes |-> IF h \in ready \ chain THEN {pick[h]} ELSE {}]
        IN
        /\ \A h \in ready : pick[h] \in ToSet(announced[h])
        /\ ForgetHashes(ready)
        /\ fetching' = [h \in Hashes |-> IF h \in ready THEN new[h] ELSE fetching[h]]
        /\ headerReqs' = headerReqs \cup {[peer |-> pick[h].origin, hash |-> h] : h \in ready \ chain}
    /\ fetched' = Without(fetched, ready) /\ completing' = Without(completing, ready)
    /\ fetchTimer' = \E h \in Hashes : announced'[h] # <<>>
    /\ UNCHANGED <<importing, completeTimer, bodyReqs, imports, chain, bounds>>

\* The bodies of all fetched headers are asked for.
CompleteTimer ==
    LET ready == {h \in Hashes : fetched[h] # {}}
    IN
    /\ Turn /\ completeTimer /\ completeTimer' = FALSE
    /\ ForgetHashes(ready)
    /\ fetching' = Without(fetching, ready) /\ fetched' = Without(fetched, ready)
    /\ completing' = [h \in Hashes |-> IF h \in ready THEN (IF h \in chain THEN {} ELSE fetched[h])
                                       ELSE completing[h]]
    /\ bodyReqs' = bodyReqs \cup UNION {{[peer |-> a.origin, hash |-> h] : a \in fetched[h]} : h \in ready \ chain}
    /\ UNCHANGED <<importing, fetchTimer, headerReqs, imports, chain, bounds>>

\* A header arrives: dropped if its number is not the announced one, imported if
\* the block is empty, kept for the request of its body otherwise.
HeaderFilter(r) ==
    LET h == r.hash
        wanted == \E a \in fetching[h] : a.origin = r.peer
                  /\ fetched[h] = {} /\ completing[h] = {} /\ queued[h] = {}
        right == \A a \in fetching[h] : a.number = Number[h]
    IN
    /\ Turn /\ r \in headerReqs /\ headerReqs' = headerReqs \ {r}
    /\ \/ /\ ~wanted
          /\ UNCHANGED <<tracking, importing, timers>>
       \/ /\ wanted /\ (~right \/ h \in chain)
          /\ ForgetAll({h})
          /\ UNCHANGED <<importing, timers>>
       \/ /\ wanted /\ right /\ h \notin chain /\ h \notin Empty
          /\ fetched' = [fetched EXCEPT ![h] = fetching[h]]
          /\ completeTimer' = (completeTimer \/ \A g \in Hashes : fetched[g] = {})
          /\ UNCHANGED <<announces, announced, fetching, completing, importing, fetchTimer>>
       \/ /\ wanted /\ right /\ h \notin chain /\ h \in Empty
          /\ IF Refused(r.peer, h)
             THEN \* counted off once for fetching and once for completing
                  /\ announces' = [announces EXCEPT ![r.peer] = Max({0, @ - 2 * Entries(h, r.peer)})]
                  /\ fetching' = Without(fetching, {h})
                  /\ UNCHANGED <<announced, fetched, completing, importing>>
             ELSE /\ completing' = [completing EXCEPT ![h] = fetching[h]]
                  /\ queue' = queue \cup {h}
                  /\ queued' = [queued EXCEPT ![h] = {r.peer}]
                  /\ queues' = [queues EXCEPT ![r.peer] = @ + 1]
                  /\ UNCHANGED <<announces, announced, fetching, fetched>>
          /\ UNCHANGED timers
    /\ UNCHANGED <<bodyReqs, imports, chain, bounds>>

\* A body arrives that completes a header asked for from the same peer.
BodyFilter(r) ==
    LET h == r.hash
        wanted == queued[h] = {} /\ \E a \in completing[h] : a.origin = r.peer
    IN
    /\ Turn /\ r \in bodyReqs /\ bodyReqs' = bodyReqs \ {r}
    /\ \/ ~wanted /\ UNCHANGED <<tracking, importing>>
       \/ wanted /\ h \in chain /\ ForgetAll({h}) /\ UNCHANGED importing
       \/ wanted /\ h \notin chain /\ Enqueue(r.peer, h)
    /\ UNCHANGED <<timers, headerReqs, imports, chain, bounds>>

\* A goroutine of importBlocks is done, or gives up for now.
Done(i) ==
    /\ Turn /\ i \in imports /\ i.phase \in {"done", "orphan"}
    /\ ForgetAll({i.hash}) /\ ForgetBlocks({i.hash})
    /\ imports' = (imports \ {i}) \cup (IF i.phase = "orphan" THEN {[i EXCEPT !.phase = "requeue"]} ELSE {})
    /\ UNCHANGED <<queue, timers, headerReqs, bodyReqs, chain, bounds>>

Requeue(i) ==
    /\ Turn /\ i \in imports /\ i.phase = "requeue"
    /\ Enqueue(i.origin, i.hash)
    /\ imports' = imports \ {i}
    /\ UNCHANGED <<timers, headerReqs, bodyReqs, chain, bounds>>

-------------------------------------------------------------------------------
(* The goroutines and the rest of the node *)

\* A request fails or is never answered.
NoAnswer(r) ==
    /\ \/ r \in headerReqs /\ headerReqs' = headerReqs \ {r} /\ UNCHANGED bodyReqs
       \/ r \in bodyReqs /\ bodyReqs' = bodyReqs \ {r} /\ UNCHANGED headerReqs
    /\ UNCHANGED <<atTop, tracking, importing, timers, imports, chain, bounds>>

\* importBlocks: without a parent the block is put back after a while.
ImportBlock(i) ==
    /\ i \in imports /\ i.phase = "run"
    /\ \/ /\ Parent[i.hash] \notin chain \cup {Genesis}
          /\ imports' = (imports \ {i}) \cup {[i EXCEPT !.phase = "orphan"]}
          /\ UNCHANGED chain
       \/ /\ Parent[i.hash] \in chain \cup {Genesis}
          /\ imports' = (imports \ {i}) \cup {[i EXCEPT !.phase = "done"]}
          /\ chain' \in {chain, chain \cup {i.hash}}
    /\ UNCHANGED <<atTop, tracking, importing, timers, headerReqs, bodyReqs, bounds>>

\* The downloader imports a block.
Downloaded(h) ==
    /\ h \notin chain /\ Parent[h] \in chain \cup {Genesis}
    /\ chain' = chain \cup {h}
    /\ UNCHANGED <<atTop, tracking, importing, timers, headerReqs, bodyReqs, imports, bounds>>

Init ==
    /\ atTop = TRUE
    /\ announces = [p \in Peers |-> 0] /\ announced = [h \in Hashes |-> <<>>]
    /\ fetching = [h \in Hashes |-> {}] /\ fetched = fetching /\ completing = fetching
    /\ queue = {} /\ queues = announces /\ queued = fetching
    /\ fetchTimer = FALSE /\ completeTimer = FALSE
    /\ headerReqs = {} /\ bodyReqs = {} /\ imports = {} /\ chain = {}
    /\ notifies = 0 /\ injects = 0

Next ==
    \/ \E s \in SUBSET Hashes : Top(s) \/ FetchTimer(s)
    \/ \E p \in Peers, h \in Hashes : Inject(p, h) \/ \E n \in {Number[h], Number[h] + 1} : Notify(p, h, n)
    \/ CompleteTimer \/ Ignored
    \/ \E r \in headerReqs : HeaderFilter(r)
    \/ \E r \in bodyReqs : BodyFilter(r)
    \/ \E r \in headerReqs \cup bodyReqs : NoAnswer(r)
    \/ \E i \in imports : Done(i) \/ Requeue(i) \/ ImportBlock(i)
    \/ \E h \in Hashes : Downloaded(h)

Spec == Init /\ [][Next]_vars

\* The loop goes on, with something to ignore now and then if there is nothing
\* else, fetches expire, what waits for the loop is served, requests and imports
\* end.  No peer needs to answer.
FairSpec ==
    /\ Spec
    /\ SF_vars(Top({h \in Hashes : fetching[h] # {}}))
    /\ WF_vars(Ignored)
    /\ SF_vars(CompleteTimer)
    /\ SF_vars(FetchTimer({g \in Hashes : announced[g] # <<>>}))
    /\ \A h \in Hashes : /\ SF_vars(\E i \in imports : i.hash = h /\ Done(i))
                          /\ SF_vars(\E i \in imports : i.hash = h /\ Requeue(i))
                          /\ WF_vars(\E i \in imports : i.hash = h /\ ImportBlock(i))
                          /\ WF_vars(\E r \in headerReqs \cup bodyReqs : r.hash = h /\ NoAnswer(r))

-------------------------------------------------------------------------------
(* Properties *)

\* A block is imported by one goroutine at a time, whoever delivers it again
\* while it is imported or put back.
ImportedOnce ==
    \A i, j \in imports : i.hash = j.hash /\ i # j => "requeue" \in {i.phase, j.phase}

\* The counts that limit the delivered blocks are those of the queued ones, and
\* what is in the queue or being imported is among them.
QueueCounted ==
    /\ \A p \in Peers : queues[p] = Cardinality({h \in Hashes : p \in queued[h]})
    /\ \A h \in queue : queued[h] # {}
    /\ \A i \in imports : i.phase # "requeue" => queued[i.hash] # {} /\ i.hash \notin queue

\* An announced hash has a timer that will ask for it, and so has a fetched
\* header whose body is still to be asked for.
TimersRun ==
    /\ (\E h \in Hashes : announced[h] # <<>>) => fetchTimer
    /\ (\E h \in Hashes : fetched[h] # {}) => completeTimer

\* hashLimit is the "maximum number of unique blocks or headers a peer may have
\* announced".  The code does not keep this (README, Observations).
HashLimitKept ==
    \A p \in Peers :
        Cardinality({h \in Hashes : \E i \in DOMAIN announced[h] : announced[h][i].origin = p}) <= HashLimit

\* "Clean up any expired block fetches": what is asked for does not stay tracked
\* for ever.  The code does not keep this (README, Observations).
FetchesEnd == \A h \in Hashes : completing[h] # {} ~> completing[h] = {}
===============================================================================
