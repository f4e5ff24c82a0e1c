------------------------------ MODULE DoubleSigns ------------------------------
(***************************************************************************)
(* The double sign monitor (core/monitor/double_sign_monitor.go): the      *)
(* first header of every number, a heap of the numbers, and a comparison   *)
(* with every later header of a number it holds.  It is fed with the heads *)
(* of the chain (core/blockchain.go startDoubleSignMonitor), so after a    *)
(* reorganisation with other headers of numbers it has seen.               *)
(***************************************************************************)
EXTENDS Naturals, FiniteSets, FiniteSetsExt

CONSTANTS
    Headers,         \* the headers that become heads: number, parent, coinbase, id
    MaxCacheHeader   \* 100 in the code

VARIABLES
    headers,        \* the header kept for a number
    headerNumbers,  \* the heap; a number is in it once
    reported        \* history: what Verify reported of

vars == <<headers, headerNumbers, reported>>

isDoubleSignHeaders(g, h) ==
    /\ g.number = h.number /\ g.parent = h.parent
    /\ g # h
    /\ g.coinbase = h.coinbase

\* Mutant: the header goes and its number stays in the heap.
KeepNumber(ns) == ns

\* headerNumbers.Pop: the lowest number.
PopOldest(ns) == ns \ {Min(ns)}

\* deleteOldHeader and what follows, for the first header of a number.
Keep(h) ==
    LET full == Cardinality(headerNumbers) > MaxCacheHeader
        left == IF full THEN PopOldest(headerNumbers) ELSE headerNumbers
        rest == IF full THEN DOMAIN headers \ {Min(headerNumbers)} ELSE DOMAIN headers
    IN
    /\ headers' = [n \in rest \cup {h.number} |-> IF n = h.number THEN h ELSE headers[n]]
    /\ headerNumbers' = left \cup {h.number}
    /\ UNCHANGED reported

\* Verify.
Verify(h) ==
    \/ /\ h.number \notin DOMAIN headers
       /\ Keep(h)
    \/ /\ h.number \in DOMAIN headers
       /\ reported' = IF isDoubleSignHeaders(h, headers[h.number]) THEN reported \cup {h} ELSE reported
       /\ UNCHANGED <<headers, headerNumbers>>

Init == headers = [n \in {} |-> n] /\ headerNumbers = {} /\ reported = {}

Next == \E h \in Headers : Verify(h)

Spec == Init /\ [][Next]_vars

-------------------------------------------------------------------------------
(* Properties *)

\* The heap and the map hold the same numbers, at most one more than
\* MaxCacheHeader, whatever the order of the heads is: deleteOldHeader deletes
\* from both, and never from an empty heap.
HeapAndMapInStep ==
    /\ headerNumbers = DOMAIN headers
    /\ Cardinality(headerNumbers) <= MaxCacheHeader + 1
===============================================================================
