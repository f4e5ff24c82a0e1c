----------------------------- MODULE VotePoolProofs -----------------------------
(***************************************************************************)
(* Proofs about VotePool for any chain, any votes and any limits: the maps,*)
(* the heaps and the set of received hashes stay in step, whatever the     *)
(* chain does between two steps of the pool's loop, and a head event takes *)
(* no valid vote out of the window.                                        *)
(***************************************************************************)
EXTENDS VotePool, FiniteSetTheorems, TLAPS

-------------------------------------------------------------------------------
(* The operators of the pool *)

\* A finite set in some order.
LEMMA InOrderFacts ==
    ASSUME NEW S, IsFiniteSet(S)
    PROVE  /\ Cardinality(S) \in Nat
           /\ InOrder(S) \in [1 .. Cardinality(S) -> S]
           /\ IsInjective(InOrder(S))
           /\ \A x \in S : \E i \in 1 .. Cardinality(S) : InOrder(S)[i] = x
<1> DEFINE s == InOrder(S)
           n == Cardinality(S)
<1>1. n \in Nat /\ ExistsBijection(1 .. n, S)
  BY FS_CardinalityType
<1>2. \E f \in [1 .. n -> S] : IsInjective(f)
  BY <1>1 DEF ExistsBijection, Bijection, Injection, IsInjective
<1>3. s \in [1 .. n -> S] /\ IsInjective(s)
  BY <1>2 DEF InOrder
<1> HIDE DEF s
<1>4. s \in Injection(1 .. n, S)
  BY <1>3 DEF Injection, IsInjective
<1>5. Cardinality(1 .. n) = n /\ IsFiniteSet(1 .. n)
  BY <1>1, FS_Interval
<1>6. s \in Surjection(1 .. n, S)
  BY <1>4, <1>5, FS_Injection
<1> QED
  BY <1>1, <1>3, <1>6 DEF Surjection, s

\* transfer keeps the valid votes of a box, each as often as before.
LEMMA ValidVotesKept ==
    ASSUME NEW box \in Boxes
    PROVE  /\ ValidVotes(box) \in Seq(Votes)
           /\ Range(ValidVotes(box)) = {v \in Range(box.votes) : VerifyVote(v)}
           /\ IsInjective(box.votes) => IsInjective(ValidVotes(box))
<1> DEFINE valid == {i \in DOMAIN box.votes : VerifyVote(box.votes[i])}
           n == Cardinality(valid)
           order == InOrder(valid)
<1>1. box.votes \in Seq(Votes) /\ DOMAIN box.votes = 1 .. Len(box.votes) /\ Len(box.votes) \in Nat
  BY DEF Boxes
<1>2. IsFiniteSet(valid)
  <2>1. IsFiniteSet(1 .. Len(box.votes))
    BY <1>1, FS_Interval
  <2>2. valid \subseteq 1 .. Len(box.votes)
    BY <1>1
  <2> QED
    BY <2>1, <2>2, FS_Subset
<1>3. \A i \in DOMAIN box.votes : i \in valid <=> VerifyVote(box.votes[i])
  OBVIOUS
<1>4. valid \subseteq DOMAIN box.votes
  OBVIOUS
<1>5. ValidVotes(box) = [i \in DOMAIN order |-> box.votes[order[i]]]
  BY DEF ValidVotes
<1> HIDE DEF valid
<1>6. /\ n \in Nat /\ order \in [1 .. n -> valid] /\ IsInjective(order)
      /\ \A x \in valid : \E i \in 1 .. n : order[i] = x
  BY <1>2, InOrderFacts
<1> HIDE DEF order, n
<1> DEFINE V == ValidVotes(box)
<1>7. V = [i \in 1 .. n |-> box.votes[order[i]]]
  BY <1>5, <1>6
<1>8. \A i \in 1 .. n : box.votes[order[i]] \in Votes
  BY <1>1, <1>4, <1>6, SMTT(20)
<1>9. V \in Seq(Votes)
  BY <1>6, <1>7, <1>8
<1>10. IsInjective(box.votes) => IsInjective(V)
  BY <1>4, <1>6, <1>7 DEF IsInjective
<1>11. Range(V) = {v \in Range(box.votes) : VerifyVote(v)}
  <2>1. \A i \in 1 .. n : V[i] \in Range(box.votes) /\ VerifyVote(V[i])
    BY <1>3, <1>4, <1>6, <1>7, SMTT(20) DEF Range
  <2>2. \A i \in DOMAIN box.votes : VerifyVote(box.votes[i]) => \E j \in 1 .. n : V[j] = box.votes[i]
    BY <1>3, <1>6, <1>7, SMTT(20)
  <2>3. DOMAIN V = 1 .. n
    BY <1>7
  <2> HIDE DEF V
  <2> QED
    BY <2>1, <2>2, <2>3 DEF Range
<1> QED
  BY <1>9, <1>10, <1>11

\* A map of boxes as the pool keeps them.
Maps == UNION {[D -> Boxes] : D \in SUBSET Blocks}

\* p has the vote in the box of its block, and an entry for each box.
Adds(boxes, v, p) ==
    /\ p.boxes \in Maps
    /\ DOMAIN p.boxes = DOMAIN boxes \cup {v.hash}
    /\ \A b \in DOMAIN boxes : b # v.hash => p.boxes[b] = boxes[b]
    /\ p.boxes[v.hash].votes = Append(IF v.hash \in DOMAIN boxes THEN boxes[v.hash].votes ELSE <<>>, v)
    /\ p.pq = HeapOf(Entries(p.boxes))

\* putVote adds the vote to the box of its block, and an entry for a new box.
LEMMA PutVoteAdds ==
    ASSUME NEW boxes \in Maps, NEW v \in Votes,
           NEW pq, pq = HeapOf(Entries(boxes)),
           NEW p, p = PutVote(boxes, pq, v)
    PROVE  Adds(boxes, v, p)
<1> DEFINE b == v.hash
           new == b \notin DOMAIN boxes
           box == IF new THEN [number |-> v.number, votes |-> <<>>] ELSE boxes[b]
           added == [number |-> box.number, votes |-> Append(box.votes, v)]
<1>1. b \in Blocks /\ v.number \in Nat
  BY PoolConstants
<1>2. box \in Boxes /\ DOMAIN boxes \subseteq Blocks /\ \A c \in DOMAIN boxes : boxes[c] \in Boxes
  BY <1>1, SMTT(20) DEF Maps, Boxes
<1>3. /\ added \in Boxes /\ added.number = box.number
      /\ added.votes = Append(IF new THEN <<>> ELSE boxes[b].votes, v)
  <2>1. box.number \in Nat /\ box.votes \in Seq(Votes)
    BY <1>2 DEF Boxes
  <2>2. box.votes = IF new THEN <<>> ELSE boxes[b].votes
    OBVIOUS
  <2> HIDE DEF box
  <2>3. Append(box.votes, v) \in Seq(Votes)
    BY <2>1, SMTT(20)
  <2> QED
    BY <2>1, <2>2, <2>3, Zenon DEF Boxes
<1>4. p.boxes = With(boxes, b, added)
  BY Zenon DEF PutVote
<1>5. p.pq = IF new THEN Pushed(pq, {VoteData(v)}) ELSE pq
  BY DEF PutVote
<1> HIDE DEF added
<1>6. p.boxes = [c \in DOMAIN boxes \cup {b} |-> IF c = b THEN added ELSE boxes[c]]
  BY <1>4 DEF With
<1>7. p.boxes \in Maps
  <2>1. p.boxes \in [DOMAIN boxes \cup {b} -> Boxes] /\ DOMAIN boxes \cup {b} \in SUBSET Blocks
    BY <1>1, <1>2, <1>3, <1>6, Zenon
  <2> QED
    BY <2>1, Zenon DEF Maps
<1>8. p.pq = HeapOf(Entries(p.boxes))
  <2>1. CASE new
    <3> DEFINE e == [number |-> v.number, hash |-> b]
    <3>1. Entries(p.boxes) = Entries(boxes) \cup {e}
      <4>1. \A c \in DOMAIN boxes : c # b /\ p.boxes[c].number = boxes[c].number
        BY <1>6, <2>1
      <4>2. p.boxes[b].number = v.number /\ DOMAIN p.boxes = DOMAIN boxes \cup {b}
        BY <1>3, <1>6, <2>1
      <4>3. ASSUME NEW x PROVE x \in Entries(p.boxes) <=> x \in Entries(boxes) \/ x = e
        <5>1. x \in Entries(p.boxes) => x \in Entries(boxes) \/ x = e
          BY <4>1, <4>2, SMTT(20) DEF Entries
        <5>2. x \in Entries(boxes) => x \in Entries(p.boxes)
          BY <4>1, <4>2, SMTT(20) DEF Entries
        <5>3. e \in Entries(p.boxes)
          BY <4>2, Zenon DEF Entries
        <5> QED
          BY <5>1, <5>2, <5>3, Zenon
      <4> QED
        BY <4>3
    <3>2. e \notin Entries(boxes)
      BY <2>1, Zenon DEF Entries
    <3>3. VoteData(v) = e
      BY DEF VoteData
    <3> HIDE DEF e
    <3>4. p.pq = [x \in Entries(boxes) \cup {e} |-> 1]
      BY <1>5, <2>1, <3>2, <3>3 DEF HeapOf, Pushed
    <3> QED
      BY <3>1, <3>4 DEF HeapOf
  <2>2. CASE ~new
    <3>1. Entries(p.boxes) = Entries(boxes)
      <4>1. \A c \in DOMAIN boxes : p.boxes[c].number = boxes[c].number
        BY <1>3, <1>6, <2>2, Zenon
      <4>2. DOMAIN p.boxes = DOMAIN boxes
        BY <1>6, <2>2
      <4> QED
        BY <4>1, <4>2, ZenonT(30) DEF Entries
    <3> QED
      BY <1>5, <2>2, <3>1
  <2> QED
    BY <2>1, <2>2
<1>9. /\ DOMAIN p.boxes = DOMAIN boxes \cup {b}
      /\ \A c \in DOMAIN boxes : c # b => p.boxes[c] = boxes[c]
      /\ p.boxes[b] = added
  BY <1>6, Zenon
<1>10. p.boxes[b].votes = Append(IF b \in DOMAIN boxes THEN boxes[b].votes ELSE <<>>, v)
  BY <1>3, <1>9
<1> QED
  BY <1>7, <1>8, <1>9, <1>10, Zenon DEF Adds

\* A vote that is appended.
LEMMA AppendRange ==
    ASSUME NEW s \in Seq(Votes), NEW v \in Votes
    PROVE  /\ Append(s, v) \in Seq(Votes) /\ Len(Append(s, v)) = Len(s) + 1
           /\ Range(Append(s, v)) = Range(s) \cup {v}
           /\ IsInjective(s) /\ v \notin Range(s) => IsInjective(Append(s, v))
<1> DEFINE t == Append(s, v)
           n == Len(s)
<1>1. n \in Nat /\ DOMAIN s = 1 .. n /\ t \in Seq(Votes) /\ Len(t) = n + 1 /\ DOMAIN t = 1 .. n + 1
  OBVIOUS
<1>2. (\A i \in 1 .. n : t[i] = s[i]) /\ t[n + 1] = v
  OBVIOUS
<1> HIDE DEF t, n
<1>3. Range(t) = Range(s) \cup {v}
  <2>1. \A x \in Range(t) : x \in Range(s) \cup {v}
    BY <1>1, <1>2, SMTT(20) DEF Range
  <2>2. \A x \in Range(s) : x \in Range(t)
    BY <1>1, <1>2, SMTT(20) DEF Range
  <2>3. v \in Range(t)
    BY <1>1, <1>2, SMTT(20) DEF Range
  <2> QED
    BY <2>1, <2>2, <2>3
<1>4. IsInjective(s) /\ v \notin Range(s) => IsInjective(t)
  BY <1>1, <1>2 DEF IsInjective, Range
<1> QED
  BY <1>1, <1>3, <1>4 DEF t, n

\* Votes that are appended to others.
LEMMA ConcatRange ==
    ASSUME NEW s \in Seq(Votes), NEW u \in Seq(Votes)
    PROVE  /\ s \o u \in Seq(Votes)
           /\ Range(s \o u) = Range(s) \cup Range(u)
           /\ IsInjective(s) /\ IsInjective(u) /\ Range(s) \cap Range(u) = {} => IsInjective(s \o u)
<1> DEFINE t == s \o u
           n == Len(s)
           k == Len(u)
<1>1. /\ n \in Nat /\ k \in Nat /\ DOMAIN s = 1 .. n /\ DOMAIN u = 1 .. k
      /\ t \in Seq(Votes) /\ DOMAIN t = 1 .. n + k
  OBVIOUS
<1>2. (\A i \in 1 .. n : t[i] = s[i]) /\ (\A i \in 1 .. k : t[n + i] = u[i])
  OBVIOUS
<1> HIDE DEF t, n, k
<1>3. \A i \in 1 .. n + k : (i \in 1 .. n /\ t[i] = s[i]) \/ (i - n \in 1 .. k /\ t[i] = u[i - n] /\ i \notin 1 .. n)
  <2> SUFFICES ASSUME NEW i \in 1 .. n + k, i \notin 1 .. n PROVE i - n \in 1 .. k /\ t[i] = u[i - n]
    BY <1>2
  <2>1. i - n \in 1 .. k /\ n + (i - n) = i
    BY <1>1
  <2> QED
    BY <1>2, <2>1
<1>4. Range(t) = Range(s) \cup Range(u)
  <2>1. \A x \in Range(t) : x \in Range(s) \cup Range(u)
    BY <1>1, <1>3, Zenon DEF Range
  <2>2. (\A i \in 1 .. n : i \in 1 .. n + k) /\ (\A i \in 1 .. k : n + i \in 1 .. n + k)
    BY <1>1
  <2>3. \A x \in Range(s) : x \in Range(t)
    BY <1>1, <1>2, <2>2, Zenon DEF Range
  <2>4. \A x \in Range(u) : x \in Range(t)
    BY <1>1, <1>2, <2>2, Zenon DEF Range
  <2> QED
    BY <2>1, <2>3, <2>4, Zenon
<1>5. IsInjective(s) /\ IsInjective(u) /\ Range(s) \cap Range(u) = {} => IsInjective(t)
  <2> SUFFICES ASSUME IsInjective(s), IsInjective(u), Range(s) \cap Range(u) = {},
                      NEW i \in 1 .. n + k, NEW j \in 1 .. n + k, t[i] = t[j]
               PROVE  i = j
    BY <1>1 DEF IsInjective
  <2>1. \A a \in 1 .. n, b \in 1 .. k : s[a] # u[b]
    <3>1. (\A a \in 1 .. n : s[a] \in Range(s)) /\ (\A b \in 1 .. k : u[b] \in Range(u))
      BY <1>1, Zenon DEF Range
    <3> QED
      BY <3>1, Zenon
  <2>2. CASE i \in 1 .. n /\ j \in 1 .. n
    BY <1>1, <1>2, <2>2, Zenon DEF IsInjective
  <2>3. CASE i \in 1 .. n /\ j \notin 1 .. n
    BY <1>2, <1>3, <2>1, <2>3
  <2>4. CASE i \notin 1 .. n /\ j \in 1 .. n
    BY <1>2, <1>3, <2>1, <2>4
  <2>5. CASE i \notin 1 .. n /\ j \notin 1 .. n
    <3>1. i - n \in 1 .. k /\ j - n \in 1 .. k /\ u[i - n] = u[j - n]
      BY <1>3, <2>5
    <3>2. i - n = j - n
      BY <1>1, <3>1, Zenon DEF IsInjective
    <3> QED
      BY <1>1, <3>2
  <2> QED
    BY <2>2, <2>3, <2>4, <2>5
<1> QED
  BY <1>1, <1>4, <1>5 DEF t

-------------------------------------------------------------------------------
(* The inductive invariant *)

\* The votes of a map are in the boxes of their blocks, each once.
InBoxes(m) ==
    \A b \in DOMAIN m : IsInjective(m[b].votes) /\ \A v \in Range(m[b].votes) : v.hash = b

\* The pool, in step with itself.
PoolKept ==
    /\ curVotes \in Maps /\ futureVotes \in Maps
    /\ \A b \in DOMAIN futureVotes : Len(futureVotes[b].votes) <= MaxFuture
    /\ HeapsInStep
    /\ received = VotesIn(curVotes) \cup VotesIn(futureVotes)
    /\ VotesIn(curVotes) \cap VotesIn(futureVotes) = {}
    /\ InBoxes(curVotes) /\ InBoxes(futureVotes)
    /\ CurVotesVerified

\* The chain.
ChainKept ==
    /\ headers \subseteq Blocks /\ highest \in Blocks \cup {NoBlock}
    /\ writing \in BOOLEAN /\ (writing => highest \in Blocks)
    /\ head \in Nat /\ fails \in 0 .. MaxFails
    /\ events \in Seq(Nat)

\* The vote in hand is new to the pool, and fits the map it goes to.
TakenFits ==
    /\ taken \in {NoTask} \cup (Votes \X {"cur", "future"})
    /\ taken # NoTask =>
          /\ taken[1] \notin received
          /\ taken[2] = "cur" => taken[1].good /\ taken[1].number = NumberOf[taken[1].hash]
          /\ taken[2] = "future" /\ taken[1].hash \in DOMAIN futureVotes
                => Len(futureVotes[taken[1].hash].votes) < MaxFuture

IInv == PoolKept /\ ChainKept /\ TakenFits

\* A vote is in a map if it is in the box of its block.
LEMMA VotesInBox ==
    ASSUME NEW m, InBoxes(m), NEW v
    PROVE  v \in VotesIn(m) <=> v.hash \in DOMAIN m /\ v \in Range(m[v.hash].votes)
  BY DEF InBoxes, VotesIn

\* The votes of a map of boxes.
LEMMA MapVotes ==
    ASSUME NEW m \in Maps
    PROVE  /\ DOMAIN m \subseteq Blocks
           /\ \A b \in DOMAIN m : /\ m[b] \in Boxes /\ m[b].number \in Nat /\ m[b].votes \in Seq(Votes)
                                  /\ Range(m[b].votes) \subseteq Votes
<1>1. DOMAIN m \subseteq Blocks /\ \A b \in DOMAIN m : m[b] \in Boxes
  BY DEF Maps
<1>2. \A b \in DOMAIN m : m[b].number \in Nat /\ m[b].votes \in Seq(Votes)
  BY <1>1 DEF Boxes
<1>3. \A t \in Seq(Votes) : Range(t) \subseteq Votes
  BY DEF Range
<1> QED
  BY <1>1, <1>2, <1>3

\* putVote adds exactly the vote to the votes of the map.
LEMMA PutVoteVotes ==
    ASSUME NEW m \in Maps, InBoxes(m), NEW v \in Votes, v \notin VotesIn(m),
           NEW pq, pq = HeapOf(Entries(m)), NEW p, p = PutVote(m, pq, v)
    PROVE  InBoxes(p.boxes) /\ VotesIn(p.boxes) = VotesIn(m) \cup {v}
<1> DEFINE M == p.boxes
           h == v.hash
           old == IF h \in DOMAIN m THEN m[h].votes ELSE <<>>
<1>1. /\ M \in Maps /\ DOMAIN M = DOMAIN m \cup {h}
      /\ \A b \in DOMAIN m : b # h => M[b] = m[b]
      /\ M[h].votes = Append(old, v)
  <2>1. Adds(m, v, p)
    BY PutVoteAdds, Zenon
  <2> QED
    BY <2>1, Zenon DEF Adds
<1>2. old \in Seq(Votes) /\ IsInjective(old) /\ (\A w \in Range(old) : w.hash = h /\ w \in VotesIn(m))
  <2>1. CASE h \in DOMAIN m
    <3>1. old = m[h].votes /\ old \in Seq(Votes)
      BY <2>1, MapVotes
    <3>2. IsInjective(old) /\ \A w \in Range(old) : w.hash = h
      BY <2>1, <3>1 DEF InBoxes
    <3> QED
      BY <2>1, <3>1, <3>2, VotesInBox
  <2>2. CASE h \notin DOMAIN m
    <3>1. old = <<>> /\ old \in Seq(Votes)
      BY <2>2
    <3>2. DOMAIN old = {}
      BY <3>1
    <3> HIDE DEF old
    <3>3. IsInjective(old) /\ Range(old) = {}
      BY <3>2 DEF IsInjective, Range
    <3> QED
      BY <3>1, <3>3
  <2> QED
    BY <2>1, <2>2, Zenon
<1> HIDE DEF old
<1>3. v \notin Range(old)
  BY <1>2, Zenon
<1>4. IsInjective(M[h].votes) /\ Range(M[h].votes) = Range(old) \cup {v}
  BY <1>1, <1>2, <1>3, AppendRange, SMTT(20)
<1>5. InBoxes(M)
  <2> SUFFICES ASSUME NEW b \in DOMAIN M
               PROVE  IsInjective(M[b].votes) /\ \A w \in Range(M[b].votes) : w.hash = b
    BY Zenon DEF InBoxes
  <2>1. CASE b = h
    BY <1>2, <1>4, <2>1, Zenon
  <2>2. CASE b # h
    BY <1>1, <2>2 DEF InBoxes
  <2> QED
    BY <2>1, <2>2
<1>6. ASSUME NEW w PROVE w \in VotesIn(M) <=> w \in VotesIn(m) \/ w = v
  <2>1. w \in VotesIn(M) <=> w.hash \in DOMAIN M /\ w \in Range(M[w.hash].votes)
    BY <1>5, VotesInBox
  <2>2. w \in VotesIn(m) <=> w.hash \in DOMAIN m /\ w \in Range(m[w.hash].votes)
    BY VotesInBox
  <2>3. CASE w.hash = h
    <3>1. w \in Range(old) <=> w \in VotesIn(m)
      <4>1. CASE h \in DOMAIN m
        BY <2>2, <2>3, <4>1 DEF old
      <4>2. CASE h \notin DOMAIN m
        BY <1>2, <2>2, <2>3, <4>2, Zenon
      <4> QED
        BY <4>1, <4>2, Zenon
    <3> QED
      BY <1>1, <1>4, <2>1, <2>3, <3>1, Zenon
  <2>4. CASE w.hash # h
    BY <1>1, <2>1, <2>2, <2>4, Zenon
  <2> QED
    BY <2>3, <2>4, Zenon
<1> QED
  BY <1>5, <1>6, ZenonT(30)

\* putVote keeps the pool in step.
LEMMA StoreKeeps == ASSUME IInv, StoreVote PROVE IInv'
<1> DEFINE v == taken[1]
           p == PutVote(curVotes, curVotesPq, v)
           f == PutVote(futureVotes, futureVotesPq, v)
<1>1. /\ taken # NoTask /\ taken \in Votes \X {"cur", "future"} /\ v \in Votes /\ v \notin received
      /\ received' = received \cup {v} /\ taken' = NoTask
      /\ UNCHANGED <<headers, highest, writing, head, fails, events>>
  BY DEF StoreVote, IInv, TakenFits, chain
<1>2. ChainKept' /\ TakenFits'
  BY <1>1 DEF IInv, ChainKept, TakenFits
<1>3. /\ curVotes \in Maps /\ futureVotes \in Maps /\ InBoxes(curVotes) /\ InBoxes(futureVotes)
      /\ curVotesPq = HeapOf(Entries(curVotes)) /\ futureVotesPq = HeapOf(Entries(futureVotes))
      /\ received = VotesIn(curVotes) \cup VotesIn(futureVotes)
      /\ VotesIn(curVotes) \cap VotesIn(futureVotes) = {}
      /\ CurVotesVerified
      /\ \A b \in DOMAIN futureVotes : Len(futureVotes[b].votes) <= MaxFuture
  BY DEF IInv, PoolKept, HeapsInStep
<1>4. CASE taken[2] = "cur"
  <2>1. curVotes' = p.boxes /\ curVotesPq' = p.pq /\ futureVotes' = futureVotes /\ futureVotesPq' = futureVotesPq
    BY <1>4 DEF StoreVote
  <2>2. v \notin VotesIn(curVotes) /\ v \notin VotesIn(futureVotes)
    BY <1>1, <1>3
  <2>3. v.good /\ v.number = NumberOf[v.hash]
    BY <1>1, <1>4, ZenonT(30) DEF IInv, TakenFits
  <2> HIDE DEF v
  <2>4. p.boxes \in Maps /\ p.pq = HeapOf(Entries(p.boxes))
    <3>1. curVotes \in Maps /\ v \in Votes /\ curVotesPq = HeapOf(Entries(curVotes))
      BY <1>1, <1>3, Zenon
    <3>2. Adds(curVotes, v, p)
      BY <3>1, PutVoteAdds, Zenon
    <3> QED
      BY <3>2, Zenon DEF Adds
  <2>5. InBoxes(p.boxes) /\ VotesIn(p.boxes) = VotesIn(curVotes) \cup {v}
    BY <1>1, <1>3, <2>2, PutVoteVotes, Zenon
  <2> HIDE DEF p
  <2>6. VotesIn(curVotes)' = VotesIn(curVotes) \cup {v} /\ VotesIn(futureVotes)' = VotesIn(futureVotes)
    BY <2>1, <2>5 DEF VotesIn
  <2>7. CurVotesVerified'
    BY <1>3, <2>3, <2>6, Zenon DEF CurVotesVerified
  <2>8. PoolKept'
    BY <1>1, <1>3, <2>1, <2>2, <2>4, <2>5, <2>6, <2>7, Zenon DEF PoolKept, HeapsInStep, InBoxes
  <2> QED
    BY <1>2, <2>8, Zenon DEF IInv
<1>5. CASE taken[2] = "future"
  <2>1. futureVotes' = f.boxes /\ futureVotesPq' = f.pq /\ curVotes' = curVotes /\ curVotesPq' = curVotesPq
    BY <1>5, ZenonT(30) DEF StoreVote
  <2>2. v \notin VotesIn(curVotes) /\ v \notin VotesIn(futureVotes)
    BY <1>1, <1>3
  <2>3. v.hash \in DOMAIN futureVotes => Len(futureVotes[v.hash].votes) < MaxFuture
    BY <1>1, <1>5, ZenonT(30) DEF IInv, TakenFits
  <2> HIDE DEF v
  <2>4. /\ f.boxes \in Maps /\ f.pq = HeapOf(Entries(f.boxes))
        /\ DOMAIN f.boxes = DOMAIN futureVotes \cup {v.hash}
        /\ \A b \in DOMAIN futureVotes : b # v.hash => f.boxes[b] = futureVotes[b]
        /\ f.boxes[v.hash].votes =
              Append(IF v.hash \in DOMAIN futureVotes THEN futureVotes[v.hash].votes ELSE <<>>, v)
    <3>1. futureVotes \in Maps /\ v \in Votes /\ futureVotesPq = HeapOf(Entries(futureVotes))
      BY <1>1, <1>3, Zenon
    <3>2. Adds(futureVotes, v, f)
      BY <3>1, PutVoteAdds, Zenon
    <3> QED
      BY <3>2, Zenon DEF Adds
  <2>5. InBoxes(f.boxes) /\ VotesIn(f.boxes) = VotesIn(futureVotes) \cup {v}
    BY <1>1, <1>3, <2>2, PutVoteVotes, Zenon
  <2> HIDE DEF f
  <2>6. \A b \in DOMAIN f.boxes : Len(f.boxes[b].votes) <= MaxFuture
    <3> DEFINE old == IF v.hash \in DOMAIN futureVotes THEN futureVotes[v.hash].votes ELSE <<>>
    <3>1. old \in Seq(Votes) /\ Len(old) < MaxFuture /\ MaxFuture \in Nat
      <4>1. CASE v.hash \in DOMAIN futureVotes
        BY <1>3, <2>3, <4>1, MapVotes, PoolConstants, Zenon
      <4>2. CASE v.hash \notin DOMAIN futureVotes
        BY <4>2, PoolConstants, SMTT(20)
      <4> QED
        BY <4>1, <4>2, Zenon
    <3>2. f.boxes[v.hash].votes = Append(old, v)
      BY <2>4, Zenon
    <3> HIDE DEF old
    <3>3. Len(f.boxes[v.hash].votes) <= MaxFuture
      BY <1>1, <3>1, <3>2, AppendRange, SMTT(20)
    <3> QED
      BY <1>3, <2>4, <3>3, Zenon
  <2>7. CurVotesVerified'
    BY <1>3, <2>1, SMTT(20) DEF CurVotesVerified, VotesIn
  <2>8. VotesIn(futureVotes)' = VotesIn(futureVotes) \cup {v} /\ VotesIn(curVotes)' = VotesIn(curVotes)
    BY <2>1, <2>5 DEF VotesIn
  <2>9. PoolKept'
    BY <1>1, <1>3, <2>1, <2>2, <2>4, <2>5, <2>6, <2>7, <2>8, Zenon DEF PoolKept, HeapsInStep, InBoxes
  <2> QED
    BY <1>2, <2>9 DEF IInv
<1> QED
  BY <1>1, <1>4, <1>5, Zenon

-------------------------------------------------------------------------------
(* A head event *)

\* The boxes that prune takes out, and those that transferVotesFromFutureToCur moves.
Pruned(n) == {b \in DOMAIN curVotes : curVotes[b].number + Lower - 1 < n}
Moved(n) ==
    {b \in DOMAIN futureVotes : \/ futureVotes[b].number + Upper < n
                                \/ futureVotes[b].number <= n /\ Verified(b)}

\* With one entry per box in each heap, the entries that are popped are those of
\* these boxes.
LEMMA PoppedBoxes ==
    ASSUME IInv, NEW n
    PROVE  /\ {e.hash : e \in Outdated(n)} \cap DOMAIN curVotes = Pruned(n)
           /\ {e.hash : e \in Ripe(n)} \cap DOMAIN futureVotes = Moved(n)
           /\ Outdated(n) = {[number |-> curVotes[b].number, hash |-> b] : b \in Pruned(n)}
           /\ Ripe(n) = {[number |-> futureVotes[b].number, hash |-> b] : b \in Moved(n)}
<1>1. DOMAIN curVotesPq = Entries(curVotes) /\ DOMAIN futureVotesPq = Entries(futureVotes)
  BY DEF IInv, PoolKept, HeapsInStep, HeapOf
<1>2. ASSUME NEW e PROVE e \in Outdated(n) <=> \E b \in Pruned(n) : e = [number |-> curVotes[b].number, hash |-> b]
  BY <1>1 DEF Outdated, Entries, Pruned
<1>3. ASSUME NEW e PROVE e \in Ripe(n) <=> \E b \in Moved(n) : e = [number |-> futureVotes[b].number, hash |-> b]
  BY <1>1 DEF Ripe, Entries, Moved
<1>4. Pruned(n) \subseteq DOMAIN curVotes /\ Moved(n) \subseteq DOMAIN futureVotes
  BY DEF Pruned, Moved
<1>5. ASSUME NEW b PROVE b \in {e.hash : e \in Outdated(n)} <=> b \in Pruned(n)
  <2>1. ASSUME NEW e \in Outdated(n) PROVE e.hash \in Pruned(n)
    BY <1>2
  <2>2. ASSUME b \in Pruned(n) PROVE \E e \in Outdated(n) : e.hash = b
    <3>1. [number |-> curVotes[b].number, hash |-> b] \in Outdated(n)
      BY <1>2, <2>2, Zenon
    <3> QED
      BY <3>1
  <2> QED
    BY <2>1, <2>2
<1>6. ASSUME NEW b PROVE b \in {e.hash : e \in Ripe(n)} <=> b \in Moved(n)
  <2>1. ASSUME NEW e \in Ripe(n) PROVE e.hash \in Moved(n)
    BY <1>3
  <2>2. ASSUME b \in Moved(n) PROVE \E e \in Ripe(n) : e.hash = b
    <3>1. [number |-> futureVotes[b].number, hash |-> b] \in Ripe(n)
      BY <1>3, <2>2
    <3> QED
      BY <3>1
  <2> QED
    BY <2>1, <2>2
<1> QED
  BY <1>2, <1>3, <1>4, <1>5, <1>6, Zenon

\* What a head event does, box by box and vote by vote.
LEMMA HeadEffect ==
    ASSUME IInv, HandleHead
    PROVE  LET n == Head(events)
               rest == DOMAIN curVotes \ Pruned(n)
               added == Moved(n) \ rest
           IN /\ DOMAIN curVotes' = rest \cup Moved(n)
              /\ \A b \in DOMAIN curVotes' :
                    curVotes'[b] =
                      IF b \in added
                      THEN [number |-> futureVotes[b].number, votes |-> ValidVotes(futureVotes[b])]
                      ELSE IF b \in Moved(n)
                      THEN [number |-> curVotes[b].number, votes |-> curVotes[b].votes \o ValidVotes(futureVotes[b])]
                      ELSE curVotes[b]
              /\ futureVotes' = [b \in DOMAIN futureVotes \ Moved(n) |-> futureVotes[b]]
              /\ curVotesPq' = Pushed([e \in DOMAIN curVotesPq \ Outdated(n) |-> curVotesPq[e]],
                              {e \in Ripe(n) : e.hash \in added})
              /\ futureVotesPq' = [e \in DOMAIN futureVotesPq \ Ripe(n) |-> futureVotesPq[e]]
              /\ received' = (received \ UNION {Range(curVotes[b].votes) : b \in Pruned(n)})
                             \ UNION {Range(futureVotes[b].votes) \ Range(ValidVotes(futureVotes[b])) : b \in Moved(n)}
              /\ curVotes' \in [DOMAIN curVotes' -> {curVotes'[b] : b \in DOMAIN curVotes'}]
<1> DEFINE n == Head(events)
           cur == Without(curVotes, Pruned(n))
           rest == DOMAIN curVotes \ Pruned(n)
           added == Moved(n) \ rest
<1>1. /\ {e.hash : e \in Outdated(n)} \cap DOMAIN curVotes = Pruned(n)
      /\ {e.hash : e \in Ripe(n)} \cap DOMAIN futureVotes = Moved(n)
  BY PoppedBoxes
<1>2. DOMAIN cur = rest /\ \A b \in rest : cur[b] = curVotes[b]
  BY DEF Without
<1>3. /\ curVotes' =
           [b \in DOMAIN cur \cup Moved(n) |->
             IF b \in Moved(n) \ DOMAIN cur
             THEN [number |-> futureVotes[b].number, votes |-> ValidVotes(futureVotes[b])]
             ELSE IF b \in Moved(n)
             THEN [number |-> cur[b].number, votes |-> cur[b].votes \o ValidVotes(futureVotes[b])]
             ELSE cur[b]]
      /\ futureVotes' = Without(futureVotes, Moved(n))
      /\ curVotesPq' = Pushed([e \in DOMAIN curVotesPq \ Outdated(n) |-> curVotesPq[e]],
                              {e \in Ripe(n) : e.hash \in Moved(n) \ DOMAIN cur})
      /\ futureVotesPq' = [e \in DOMAIN futureVotesPq \ Ripe(n) |-> futureVotesPq[e]]
      /\ received' = (received \ UNION {Range(curVotes[b].votes) : b \in Pruned(n)})
                     \ UNION {Range(futureVotes[b].votes) \ Range(ValidVotes(futureVotes[b])) : b \in Moved(n)}
  BY <1>1, ZenonT(30) DEF HandleHead
<1> HIDE DEF cur, n
<1>4. futureVotes' = [b \in DOMAIN futureVotes \ Moved(n) |-> futureVotes[b]]
  BY <1>3, Zenon DEF Without
<1>5. DOMAIN curVotes' = rest \cup Moved(n)
  BY <1>2, <1>3
<1>6. \A b \in DOMAIN curVotes' :
        curVotes'[b] =
          IF b \in added
          THEN [number |-> futureVotes[b].number, votes |-> ValidVotes(futureVotes[b])]
          ELSE IF b \in Moved(n)
          THEN [number |-> curVotes[b].number, votes |-> curVotes[b].votes \o ValidVotes(futureVotes[b])]
          ELSE curVotes[b]
  BY <1>2, <1>3, Zenon
<1>7. curVotes' \in [DOMAIN curVotes' -> {curVotes'[b] : b \in DOMAIN curVotes'}]
  BY <1>3, Zenon
<1> QED
  BY <1>2, <1>3, <1>4, <1>5, <1>6, <1>7, Zenon DEF n

\* A head event keeps the pool in step.
LEMMA HeadKeeps == ASSUME IInv, HandleHead PROVE IInv'
<1> DEFINE n == Head(events)
           moved == Moved(n)
           pruned == Pruned(n)
           rest == DOMAIN curVotes \ pruned
           added == moved \ rest
           valid(b) == ValidVotes(futureVotes[b])
           entry(m, b) == [number |-> m[b].number, hash |-> b]
<1>1. /\ DOMAIN curVotes' = rest \cup moved
      /\ \A b \in DOMAIN curVotes' :
            curVotes'[b] =
              IF b \in added THEN [number |-> futureVotes[b].number, votes |-> valid(b)]
              ELSE IF b \in moved THEN [number |-> curVotes[b].number, votes |-> curVotes[b].votes \o valid(b)]
              ELSE curVotes[b]
      /\ futureVotes' = [b \in DOMAIN futureVotes \ moved |-> futureVotes[b]]
      /\ curVotes' \in [DOMAIN curVotes' -> {curVotes'[b] : b \in DOMAIN curVotes'}]
  BY HeadEffect, Zenon
<1>2. /\ curVotesPq' = Pushed([e \in DOMAIN curVotesPq \ Outdated(n) |-> curVotesPq[e]],
                              {e \in Ripe(n) : e.hash \in added})
      /\ futureVotesPq' = [e \in DOMAIN futureVotesPq \ Ripe(n) |-> futureVotesPq[e]]
      /\ received' = (received \ UNION {Range(curVotes[b].votes) : b \in pruned})
                     \ UNION {Range(futureVotes[b].votes) \ Range(valid(b)) : b \in moved}
  BY HeadEffect
<1>3. /\ curVotes \in Maps /\ futureVotes \in Maps /\ InBoxes(curVotes) /\ InBoxes(futureVotes)
      /\ curVotesPq = HeapOf(Entries(curVotes)) /\ futureVotesPq = HeapOf(Entries(futureVotes))
      /\ received = VotesIn(curVotes) \cup VotesIn(futureVotes)
      /\ VotesIn(curVotes) \cap VotesIn(futureVotes) = {}
      /\ CurVotesVerified
      /\ \A b \in DOMAIN futureVotes : Len(futureVotes[b].votes) <= MaxFuture
  BY DEF IInv, PoolKept, HeapsInStep
<1>4. pruned \subseteq DOMAIN curVotes /\ moved \subseteq DOMAIN futureVotes
  BY Zenon DEF Pruned, Moved
<1>5. /\ Outdated(n) = {entry(curVotes, b) : b \in pruned}
      /\ Ripe(n) = {entry(futureVotes, b) : b \in moved}
  BY PoppedBoxes, SMTT(20)
<1>6. events' = Tail(events) /\ events # <<>> /\ taken = NoTask /\ taken' = NoTask
      /\ UNCHANGED <<headers, highest, writing, head, fails>>
  BY Zenon DEF HandleHead, chain
<1>7. ChainKept' /\ TakenFits'
  <2>1. events \in Seq(Nat)
    BY DEF IInv, ChainKept
  <2>2. Tail(events) \in Seq(Nat)
    BY <1>6, <2>1
  <2> QED
    BY <1>6, <2>2 DEF IInv, ChainKept, TakenFits
<1>8. \A b \in moved : /\ futureVotes[b] \in Boxes /\ valid(b) \in Seq(Votes) /\ IsInjective(valid(b))
                       /\ Range(valid(b)) = {v \in Range(futureVotes[b].votes) : VerifyVote(v)}
                       /\ \A v \in Range(valid(b)) : v.hash = b /\ v \in VotesIn(futureVotes)
  <2> SUFFICES ASSUME NEW b \in moved
               PROVE  /\ futureVotes[b] \in Boxes /\ valid(b) \in Seq(Votes) /\ IsInjective(valid(b))
                      /\ Range(valid(b)) = {v \in Range(futureVotes[b].votes) : VerifyVote(v)}
                      /\ \A v \in Range(valid(b)) : v.hash = b /\ v \in VotesIn(futureVotes)
    OBVIOUS
  <2>1. b \in DOMAIN futureVotes /\ futureVotes[b] \in Boxes
    BY <1>3, <1>4, MapVotes, Zenon
  <2>2. IsInjective(futureVotes[b].votes) /\ \A v \in Range(futureVotes[b].votes) : v.hash = b
    BY <1>3, <2>1, Zenon DEF InBoxes
  <2>3. /\ valid(b) \in Seq(Votes) /\ IsInjective(valid(b))
        /\ Range(valid(b)) = {v \in Range(futureVotes[b].votes) : VerifyVote(v)}
    BY <2>1, <2>2, ValidVotesKept, Zenon
  <2>4. \A v \in Range(futureVotes[b].votes) : v \in VotesIn(futureVotes)
    BY <2>1 DEF VotesIn
  <2> HIDE DEF valid
  <2> QED
    BY <2>1, <2>2, <2>3, <2>4, Zenon
<1> HIDE DEF n, moved, pruned, valid, entry
<1>9. \A b \in DOMAIN curVotes' :
        /\ b \in Blocks
        /\ curVotes'[b] \in Boxes
        /\ IsInjective(curVotes'[b].votes)
        /\ curVotes'[b].number = IF b \in added THEN futureVotes[b].number ELSE curVotes[b].number
        /\ \A v : v \in Range(curVotes'[b].votes) <=>
                     \/ b \in rest /\ v \in Range(curVotes[b].votes)
                     \/ b \in moved /\ v \in Range(valid(b))
  <2> SUFFICES ASSUME NEW b \in DOMAIN curVotes'
               PROVE  /\ b \in Blocks
                      /\ curVotes'[b] \in Boxes
                      /\ IsInjective(curVotes'[b].votes)
                      /\ curVotes'[b].number = IF b \in added THEN futureVotes[b].number ELSE curVotes[b].number
                      /\ \A v : v \in Range(curVotes'[b].votes) <=>
                                   \/ b \in rest /\ v \in Range(curVotes[b].votes)
                                   \/ b \in moved /\ v \in Range(valid(b))
    BY Zenon
  <2>1. b \in rest => /\ curVotes[b] \in Boxes /\ curVotes[b].number \in Nat /\ curVotes[b].votes \in Seq(Votes)
                      /\ IsInjective(curVotes[b].votes) /\ b \in Blocks
    BY <1>3, MapVotes, ZenonT(30) DEF InBoxes
  <2>2. b \in moved => futureVotes[b].number \in Nat /\ b \in Blocks
    BY <1>3, <1>4, MapVotes, Zenon
  <2>3. CASE b \in added
    <3>1. curVotes'[b] = [number |-> futureVotes[b].number, votes |-> valid(b)]
      BY <1>1, <2>3, Zenon
    <3>2. valid(b) \in Seq(Votes) /\ IsInjective(valid(b)) /\ b \in moved /\ b \notin rest
      BY <1>8, <2>3, Zenon
    <3>3. curVotes'[b] \in Boxes
      BY <2>2, <3>1, <3>2, SMTT(20) DEF Boxes
    <3>4. curVotes'[b].votes = valid(b) /\ curVotes'[b].number = futureVotes[b].number
      BY <3>1, SMTT(20)
    <3> QED
      BY <2>2, <2>3, <3>2, <3>3, <3>4, Zenon
  <2>4. CASE b \in rest /\ b \in moved
    <3>1. curVotes'[b] = [number |-> curVotes[b].number, votes |-> curVotes[b].votes \o valid(b)]
      BY <1>1, <2>4, Zenon
    <3>2. Range(curVotes[b].votes) \cap Range(valid(b)) = {}
      <4>1. \A v \in Range(curVotes[b].votes) : v \in VotesIn(curVotes)
        BY <2>4, Zenon DEF VotesIn
      <4> QED
        BY <1>3, <1>8, <2>4, <4>1, Zenon
    <3>3. /\ curVotes[b].votes \o valid(b) \in Seq(Votes)
          /\ Range(curVotes[b].votes \o valid(b)) = Range(curVotes[b].votes) \cup Range(valid(b))
          /\ IsInjective(curVotes[b].votes \o valid(b))
      BY <1>8, <2>1, <2>4, <3>2, ConcatRange, Zenon
    <3> QED
      BY <2>1, <2>4, <3>1, <3>3 DEF Boxes
  <2>5. CASE b \in rest /\ b \notin moved
    BY <1>1, <2>1, <2>5, Zenon
  <2> QED
    BY <1>1, <2>3, <2>4, <2>5, Zenon
<1>10. curVotes' \in Maps /\ futureVotes' \in Maps
  <2>1. curVotes' \in [DOMAIN curVotes' -> Boxes] /\ DOMAIN curVotes' \in SUBSET Blocks
    BY <1>1, <1>9, ZenonT(30)
  <2>2. futureVotes' \in [DOMAIN futureVotes \ moved -> Boxes] /\ DOMAIN futureVotes \ moved \in SUBSET Blocks
    BY <1>1, <1>3, MapVotes
  <2> QED
    BY <2>1, <2>2, Zenon DEF Maps
<1>11. InBoxes(curVotes') /\ InBoxes(futureVotes')
  <2>1. InBoxes(curVotes')
    <3> SUFFICES ASSUME NEW b \in DOMAIN curVotes' PROVE \A v \in Range(curVotes'[b].votes) : v.hash = b
      BY <1>9, Zenon DEF InBoxes
    <3> QED
      BY <1>3, <1>8, <1>9, SMTT(20) DEF InBoxes
  <2>2. InBoxes(futureVotes')
    BY <1>1, <1>3 DEF InBoxes
  <2> QED
    BY <2>1, <2>2, ZenonT(30)
<1>12. \A v : v \in VotesIn(curVotes') <=>
                 \/ v.hash \in rest /\ v \in Range(curVotes[v.hash].votes)
                 \/ v.hash \in moved /\ v \in Range(valid(v.hash))
  <2> SUFFICES ASSUME NEW v
               PROVE  v \in VotesIn(curVotes') <=>
                         \/ v.hash \in rest /\ v \in Range(curVotes[v.hash].votes)
                         \/ v.hash \in moved /\ v \in Range(valid(v.hash))
    OBVIOUS
  <2>1. v \in VotesIn(curVotes') <=> v.hash \in DOMAIN curVotes' /\ v \in Range(curVotes'[v.hash].votes)
    BY <1>11, VotesInBox, Zenon
  <2> QED
    BY <1>1, <1>9, <2>1, Zenon
<1>13. \A v : v \in VotesIn(futureVotes') <=>
                 v.hash \in DOMAIN futureVotes \ moved /\ v \in Range(futureVotes[v.hash].votes)
  <2> SUFFICES ASSUME NEW v
               PROVE  v \in VotesIn(futureVotes') <=>
                         v.hash \in DOMAIN futureVotes \ moved /\ v \in Range(futureVotes[v.hash].votes)
    OBVIOUS
  <2>1. v \in VotesIn(futureVotes') <=> v.hash \in DOMAIN futureVotes' /\ v \in Range(futureVotes'[v.hash].votes)
    BY <1>11, VotesInBox, Zenon
  <2> QED
    BY <1>1, <2>1
<1>14. \A v : /\ v \in VotesIn(curVotes) <=> v.hash \in DOMAIN curVotes /\ v \in Range(curVotes[v.hash].votes)
              /\ v \in VotesIn(futureVotes) <=> v.hash \in DOMAIN futureVotes /\ v \in Range(futureVotes[v.hash].votes)
  BY <1>3, VotesInBox, Zenon
<1>15. \A v : v \in received' <=>
                 /\ v \in received
                 /\ ~(v.hash \in pruned /\ v \in VotesIn(curVotes))
                 /\ ~(v.hash \in moved /\ v \in VotesIn(futureVotes) /\ v \notin Range(valid(v.hash)))
  <2> SUFFICES ASSUME NEW v
               PROVE  v \in received' <=>
                        /\ v \in received
                        /\ ~(v.hash \in pruned /\ v \in VotesIn(curVotes))
                        /\ ~(v.hash \in moved /\ v \in VotesIn(futureVotes) /\ v \notin Range(valid(v.hash)))
    OBVIOUS
  <2>1. (\E b \in pruned : v \in Range(curVotes[b].votes)) <=> v.hash \in pruned /\ v \in VotesIn(curVotes)
    BY <1>3, <1>4, <1>14, ZenonT(30) DEF InBoxes
  <2>2. (\E b \in moved : v \in Range(futureVotes[b].votes) \ Range(valid(b)))
           <=> v.hash \in moved /\ v \in VotesIn(futureVotes) /\ v \notin Range(valid(v.hash))
    BY <1>3, <1>4, <1>14, ZenonT(30) DEF InBoxes
  <2>3. v \in received' <=> /\ v \in received
                            /\ ~\E b \in pruned : v \in Range(curVotes[b].votes)
                            /\ ~\E b \in moved : v \in Range(futureVotes[b].votes) \ Range(valid(b))
    BY <1>2
  <2> QED
    BY <2>1, <2>2, <2>3, Zenon
<1>16. received' = VotesIn(curVotes') \cup VotesIn(futureVotes')
  <2>1. ASSUME NEW v PROVE v \in received' <=> v \in VotesIn(curVotes') \/ v \in VotesIn(futureVotes')
    <3>1. v \in received <=> v \in VotesIn(curVotes) \/ v \in VotesIn(futureVotes)
      BY <1>3
    <3>2. ~(v \in VotesIn(curVotes) /\ v \in VotesIn(futureVotes))
      BY <1>3
    <3>3. v.hash \in moved /\ v \in Range(valid(v.hash)) => v \in VotesIn(futureVotes)
      BY <1>8
    <3> QED
      BY <1>12, <1>13, <1>14, <1>15, <3>1, <3>2, <3>3, SMTT(20)
  <2> QED
    BY <2>1, Zenon
<1>17. VotesIn(curVotes') \cap VotesIn(futureVotes') = {}
  <2> SUFFICES ASSUME NEW v, v \in VotesIn(curVotes'), v \in VotesIn(futureVotes') PROVE FALSE
    OBVIOUS
  <2>1. v \in VotesIn(curVotes) /\ v \in VotesIn(futureVotes)
    BY <1>12, <1>13, <1>14, ZenonT(30)
  <2> QED
    BY <1>3, <2>1
<1>18. CurVotesVerified'
  <2> SUFFICES ASSUME NEW v \in VotesIn(curVotes') PROVE v.good /\ v.number = NumberOf[v.hash]
    BY Zenon DEF CurVotesVerified, VotesIn
  <2>1. v \in VotesIn(curVotes) \/ VerifyVote(v)
    BY <1>8, <1>12, <1>14
  <2> QED
    BY <1>3, <2>1, Zenon DEF CurVotesVerified, VerifyVote
<1>19. curVotesPq' = HeapOf(Entries(curVotes'))
  <2> DEFINE kept == {entry(curVotes, b) : b \in rest}
             come == {entry(futureVotes, b) : b \in added}
  <2>1. DOMAIN curVotesPq = {entry(curVotes, b) : b \in DOMAIN curVotes} /\ \A e \in DOMAIN curVotesPq : curVotesPq[e] = 1
    BY <1>3 DEF HeapOf, Entries, entry
  <2>2. DOMAIN curVotesPq \ Outdated(n) = kept
    <3>1. \A b, c \in DOMAIN curVotes : entry(curVotes, b) = entry(curVotes, c) => b = c
      BY DEF entry
    <3> QED
      BY <1>4, <1>5, <2>1, <3>1, SMTT(20)
  <2>3. {e \in Ripe(n) : e.hash \in added} = come
    <3>1. \A b \in moved : entry(futureVotes, b).hash = b
      BY DEF entry
    <3> QED
      BY <1>5, <3>1
  <2>4. kept \cap come = {}
    <3>1. \A b \in rest, c \in added : entry(curVotes, b) # entry(futureVotes, c)
      BY DEF entry
    <3> QED
      BY <3>1
  <2>5. Entries(curVotes') = kept \cup come
    <3>1. \A b \in rest : b \in DOMAIN curVotes' /\ curVotes'[b].number = curVotes[b].number
      BY <1>1, <1>9, Zenon
    <3>2. \A b \in added : b \in DOMAIN curVotes' /\ curVotes'[b].number = futureVotes[b].number
      BY <1>1, <1>9, Zenon
    <3>3. DOMAIN curVotes' = rest \cup added
      BY <1>1, Zenon
    <3>4. ASSUME NEW e PROVE e \in Entries(curVotes') <=> e \in kept \/ e \in come
      <4>1. e \in Entries(curVotes') => e \in kept \/ e \in come
        BY <3>1, <3>2, <3>3, Zenon DEF Entries, entry
      <4>2. e \in kept => e \in Entries(curVotes')
        BY <3>1 DEF Entries, entry
      <4>3. e \in come => e \in Entries(curVotes')
        BY <3>2 DEF Entries, entry
      <4> QED
        BY <4>1, <4>2, <4>3, Zenon
    <3> QED
      BY <3>4, Zenon
  <2>6. curVotesPq' = Pushed([e \in kept |-> curVotesPq[e]], come)
    BY <1>2, <2>2, <2>3, Zenon
  <2>7. \A e \in kept : curVotesPq[e] = 1
    BY <2>1, <2>2
  <2> HIDE DEF kept, come
  <2>8. curVotesPq' = [e \in kept \cup come |-> 1]
    BY <2>4, <2>6, <2>7 DEF HeapOf, Pushed
  <2> QED
    BY <2>5, <2>8, Zenon DEF HeapOf
<1>20. futureVotesPq' = HeapOf(Entries(futureVotes'))
  <2>1. DOMAIN futureVotesPq = {entry(futureVotes, b) : b \in DOMAIN futureVotes}
        /\ \A e \in DOMAIN futureVotesPq : futureVotesPq[e] = 1
    BY <1>3 DEF HeapOf, Entries, entry
  <2>2. DOMAIN futureVotesPq \ Ripe(n) = {entry(futureVotes, b) : b \in DOMAIN futureVotes \ moved}
    <3>1. \A b, c \in DOMAIN futureVotes : entry(futureVotes, b) = entry(futureVotes, c) => b = c
      BY DEF entry
    <3> QED
      BY <1>4, <1>5, <2>1, <3>1, SMTT(20)
  <2>3. Entries(futureVotes') = {entry(futureVotes, b) : b \in DOMAIN futureVotes \ moved}
    <3>1. DOMAIN futureVotes' = DOMAIN futureVotes \ moved /\ \A b \in DOMAIN futureVotes' : futureVotes'[b] = futureVotes[b]
      BY <1>1
    <3> QED
      BY <3>1, SMTT(20) DEF Entries, entry
  <2>4. futureVotesPq' = [e \in Entries(futureVotes') |-> 1]
    BY <1>2, <2>1, <2>2, <2>3, Zenon
  <2> QED
    BY <2>4, Zenon DEF HeapOf
<1>21. \A b \in DOMAIN futureVotes' : Len(futureVotes'[b].votes) <= MaxFuture
  BY <1>1, <1>3
<1>22. PoolKept'
  <2>1. VotesIn(curVotes)' = VotesIn(curVotes') /\ VotesIn(futureVotes)' = VotesIn(futureVotes')
    BY Zenon DEF VotesIn
  <2>2. HeapsInStep'
    BY <1>19, <1>20, Zenon DEF HeapsInStep, Entries
  <2>3. InBoxes(curVotes)' /\ InBoxes(futureVotes)'
    BY <1>11 DEF InBoxes
  <2> QED
    BY <1>10, <1>16, <1>17, <1>18, <1>21, <2>1, <2>2, <2>3, Zenon DEF PoolKept
<1> QED
  BY <1>7, <1>22 DEF IInv

-------------------------------------------------------------------------------
(* The theorems *)

\* The chain goes on without the pool.
LEMMA ChainSteps ==
    ASSUME IInv, (\E b \in Blocks : AnnounceBlock(b) \/ WriteSide(b)) \/ WriteBlock
    PROVE  IInv'
<1>1. PoolKept' /\ TakenFits'
  <2>1. UNCHANGED <<pool, taken>>
    BY DEF AnnounceBlock, WriteSide, WriteBlock, pool
  <2>2. /\ VotesIn(curVotes)' = VotesIn(curVotes) /\ VotesIn(futureVotes)' = VotesIn(futureVotes)
        /\ Entries(curVotes)' = Entries(curVotes) /\ Entries(futureVotes)' = Entries(futureVotes)
        /\ InBoxes(curVotes)' = InBoxes(curVotes) /\ InBoxes(futureVotes)' = InBoxes(futureVotes)
    BY <2>1, Zenon DEF pool, VotesIn, Entries, InBoxes
  <2>3. HeapsInStep' /\ CurVotesVerified'
    BY <2>1, <2>2, Zenon DEF IInv, PoolKept, pool, HeapsInStep, CurVotesVerified
  <2>4. PoolKept'
    BY <2>1, <2>2, <2>3, Zenon DEF IInv, PoolKept, pool
  <2>5. TakenFits'
    BY <2>1, Zenon DEF IInv, TakenFits, pool
  <2> QED
    BY <2>4, <2>5, Zenon
<1>2. ASSUME NEW b \in Blocks, AnnounceBlock(b) PROVE ChainKept'
  <2>1. events \in Seq(Nat) /\ NumberOf[b] \in Nat
    BY PoolConstants DEF IInv, ChainKept
  <2>2. Append(events, NumberOf[b]) \in Seq(Nat)
    BY <2>1
  <2> QED
    BY <1>2, <2>2, ZenonT(30) DEF AnnounceBlock, IInv, ChainKept
<1>3. ASSUME NEW b \in Blocks, WriteSide(b) PROVE ChainKept'
  BY <1>3 DEF WriteSide, IInv, ChainKept
<1>4. ASSUME WriteBlock PROVE ChainKept'
  <2>1. highest \in Blocks /\ NumberOf[highest] \in Nat /\ MaxFails \in Nat
    BY <1>4, PoolConstants DEF WriteBlock, IInv, ChainKept
  <2>2. fails' \in 0 .. MaxFails /\ head' \in Nat /\ headers' \subseteq Blocks
    BY <1>4, <2>1 DEF WriteBlock, IInv, ChainKept
  <2>3. writing' = FALSE /\ highest' = highest /\ events' = events
    BY <1>4 DEF WriteBlock
  <2> QED
    BY <2>2, <2>3, Zenon DEF IInv, ChainKept
<1> QED
  BY <1>1, <1>2, <1>3, <1>4, ZenonT(30) DEF IInv

\* A vote is taken in hand.
LEMMA TakeKeeps == ASSUME IInv, NEW v \in Votes, TakeVote(v) PROVE IInv'
<1>1. UNCHANGED <<chain, events, pool>>
  BY ZenonT(30) DEF TakeVote
<1>2. PoolKept' /\ ChainKept'
  BY <1>1, SMTT(20) DEF IInv, PoolKept, ChainKept, pool, chain, HeapsInStep, CurVotesVerified, VotesIn, InBoxes, Entries
<1>3. TakenFits'
  <2>1. CASE Verified(v.hash)
    <3>1. taken' = <<v, "cur">> /\ v \notin received /\ v.good /\ v.number = NumberOf[v.hash]
      BY <2>1 DEF TakeVote, BasicVerify, VerifyVote
    <3> QED
      BY <1>1, <3>1 DEF TakenFits, pool
  <2>2. CASE ~Verified(v.hash)
    <3>1. /\ taken' = <<v, "future">> /\ v \notin received
          /\ v.hash \in DOMAIN futureVotes => Len(futureVotes[v.hash].votes) < MaxFuture
      BY <2>2 DEF TakeVote, BasicVerify
    <3> QED
      BY <1>1, <3>1, Zenon DEF TakenFits, pool
  <2> QED
    BY <2>1, <2>2
<1> QED
  BY <1>2, <1>3 DEF IInv

\* The pool starts empty.
LEMMA InitHolds == Init => IInv
<1> SUFFICES ASSUME Init PROVE IInv
  OBVIOUS
<1>1. ChainKept
  <2>1. <<>> \in Seq(Nat) /\ 0 \in 0 .. MaxFails
    BY PoolConstants
  <2> QED
    BY <2>1, Zenon DEF Init, ChainKept
<1>t. TakenFits
  BY DEF Init, TakenFits
<1>2. DOMAIN None = {}
  BY Zenon DEF None
<1>3. curVotes = None /\ futureVotes = None /\ curVotesPq = HeapOf({}) /\ futureVotesPq = HeapOf({}) /\ received = {}
  BY Zenon DEF Init
<1>4. VotesIn(None) = {} /\ Entries(None) = {} /\ InBoxes(None)
  BY <1>2, Zenon DEF VotesIn, Entries, InBoxes
<1>6. None \in Maps
  <2>1. None \in [{} -> Boxes] /\ {} \in SUBSET Blocks
    BY Zenon DEF None
  <2> QED
    BY <2>1, Zenon DEF Maps
<1>7. PoolKept
  BY <1>2, <1>3, <1>4, <1>6 DEF PoolKept, HeapsInStep, CurVotesVerified
<1> QED
  BY <1>1, <1>t, <1>7 DEF IInv

\* Every step keeps the invariant.
LEMMA NextKeeps == IInv /\ [Next]_vars => IInv'
<1> SUFFICES ASSUME IInv, [Next]_vars PROVE IInv'
  OBVIOUS
<1>1. CASE (\E b \in Blocks : AnnounceBlock(b) \/ WriteSide(b)) \/ WriteBlock
  BY <1>1, ChainSteps
<1>2. ASSUME NEW v \in Votes, TakeVote(v) PROVE IInv'
  BY <1>2, TakeKeeps
<1>3. CASE StoreVote
  BY <1>3, StoreKeeps
<1>4. CASE HandleHead
  BY <1>4, HeadKeeps, Zenon
<1>5. CASE UNCHANGED vars
  <2>1. /\ UNCHANGED <<headers, highest, writing, head, fails, events, taken>>
        /\ UNCHANGED <<received, curVotes, futureVotes, curVotesPq, futureVotesPq>>
    BY <1>5 DEF vars, chain, pool
  <2>2. ChainKept'
    BY <2>1, Zenon DEF IInv, ChainKept
  <2>3. TakenFits'
    BY <2>1 DEF IInv, TakenFits
  <2>4. VotesIn(curVotes)' = VotesIn(curVotes) /\ VotesIn(futureVotes)' = VotesIn(futureVotes)
    BY <2>1, Zenon DEF VotesIn
  <2>5. HeapsInStep' /\ CurVotesVerified'
    BY <2>1, ZenonT(30) DEF IInv, PoolKept, HeapsInStep, CurVotesVerified, Entries
  <2>6. PoolKept'
    BY <2>1, <2>4, <2>5, Zenon DEF IInv, PoolKept, InBoxes
  <2> QED
    BY <2>2, <2>3, <2>6, Zenon DEF IInv
<1> QED
  BY <1>1, <1>2, <1>3, <1>4, <1>5 DEF Next

\* The invariant holds always.
LEMMA Invariance == Spec => []IInv
<1>1. Init => IInv
  BY InitHolds
<1>2. IInv /\ [Next]_vars => IInv'
  BY NextKeeps
<1> QED
  BY <1>1, <1>2, PTL DEF Spec

\* Every box has exactly one entry in the heap of its map and keeps its limit,
\* receivedVotes has the votes of the boxes and no other, and what FetchVoteByBlockHash
\* hands out are votes that VerifyVote accepted: for any chain, votes and limits.
THEOREM PoolAlwaysInStep == Spec => []PoolInStep
<1>1. IInv => PoolInStep
  <2> SUFFICES ASSUME IInv PROVE PoolInStep
    OBVIOUS
  <2>1. \A pq \in {curVotesPq, futureVotesPq} : pq \in [DOMAIN pq -> Nat \ {0}]
    BY SMTT(20) DEF IInv, PoolKept, HeapsInStep, HeapOf
  <2>2. received \subseteq Votes
    <3>1. \A m \in Maps : VotesIn(m) \subseteq Votes
      BY MapVotes DEF VotesIn
    <3> QED
      BY <3>1, Zenon DEF IInv, PoolKept
  <2>3. \A m \in {curVotes, futureVotes} : DOMAIN m \subseteq Blocks /\ \A b \in DOMAIN m : m[b] \in Boxes
    BY MapVotes, Zenon DEF IInv, PoolKept
  <2>4. TypeOK
    BY <2>1, <2>2, <2>3, Zenon DEF TypeOK, IInv, PoolKept, ChainKept, TakenFits
  <2>5. ReceivedInStep
    BY DEF ReceivedInStep, IInv, PoolKept, InBoxes
  <2> QED
    BY <2>4, <2>5 DEF PoolInStep, IInv, PoolKept
<1>2. Spec => []IInv
  BY Invariance
<1> QED
  BY <1>1, <1>2, PTL

\* What a head event takes out of the pool is invalid, or its box is below the
\* window: for any chain, votes and limits.
THEOREM WindowAlwaysKept == Spec => WindowKept
<1> DEFINE Kept ==
        \A v \in received :
            Len(events') < Len(events) /\ v \notin received'
                => \/ ~VerifyVote(v)
                   \/ \E m \in {curVotes, futureVotes} :
                        /\ v \in VotesIn(m)
                        /\ m[v.hash].number + Lower <= Head(events)
<1>1. IInv /\ [Next]_vars => [Kept]_vars
  <2> SUFFICES ASSUME IInv, Next, NEW v \in received, Len(events') < Len(events), v \notin received'
               PROVE  \/ ~VerifyVote(v)
                      \/ \E m \in {curVotes, futureVotes} :
                           /\ v \in VotesIn(m)
                           /\ m[v.hash].number + Lower <= Head(events)
    OBVIOUS
  <2>1. HandleHead
    <3>1. events \in Seq(Nat)
      BY Zenon DEF IInv, ChainKept
    <3>2. \A b \in Blocks : ~AnnounceBlock(b) /\ ~WriteSide(b)
      BY DEF AnnounceBlock, WriteSide, pool
    <3>3. ~WriteBlock /\ (\A w \in Votes : ~TakeVote(w)) /\ ~StoreVote
      BY Zenon DEF WriteBlock, TakeVote, StoreVote, pool
    <3> QED
      BY <3>2, <3>3, Zenon DEF Next
  <2> DEFINE n == Head(events)
  <2>2. received' = (received \ UNION {Range(curVotes[b].votes) : b \in Pruned(n)})
                    \ UNION {Range(futureVotes[b].votes) \ Range(ValidVotes(futureVotes[b])) : b \in Moved(n)}
    BY <2>1, HeadEffect
  <2> HIDE DEF n
  <2>3. CASE \E b \in Pruned(n) : v \in Range(curVotes[b].votes)
    <3>1. PICK b \in Pruned(n) : v \in Range(curVotes[b].votes)
      BY <2>3
    <3>2. b \in DOMAIN curVotes /\ curVotes[b].number + Lower - 1 < n
      BY <3>1, Zenon DEF Pruned
    <3>3. v.hash = b /\ v \in VotesIn(curVotes)
      BY <3>1, <3>2, ZenonT(30) DEF IInv, PoolKept, InBoxes, VotesIn
    <3>4. curVotes[b].number \in Nat /\ Lower \in Nat
      BY <3>2, MapVotes, PoolConstants, Zenon DEF IInv, PoolKept
    <3>5. n \in Nat
      <4>1. events # <<>> /\ events \in Seq(Nat)
        BY <2>1, ZenonT(30) DEF IInv, ChainKept, HandleHead
      <4> QED
        BY <4>1 DEF n
    <3>6. curVotes[v.hash].number + Lower <= n
      BY <3>2, <3>3, <3>4, <3>5, SMTT(20)
    <3> QED
      BY <3>3, <3>6, Zenon DEF n
  <2>4. CASE \E b \in Moved(n) : v \in Range(futureVotes[b].votes) \ Range(ValidVotes(futureVotes[b]))
    <3>1. PICK b \in Moved(n) : v \in Range(futureVotes[b].votes) \ Range(ValidVotes(futureVotes[b]))
      BY <2>4
    <3>2. b \in DOMAIN futureVotes
      BY Zenon DEF Moved
    <3>3. futureVotes[b] \in Boxes
      BY <3>2, MapVotes, Zenon DEF IInv, PoolKept
    <3>4. Range(ValidVotes(futureVotes[b])) = {w \in Range(futureVotes[b].votes) : VerifyVote(w)}
      BY <3>3, ValidVotesKept
    <3> QED
      BY <3>1, <3>4, Zenon
  <2> QED
    BY <2>2, <2>3, <2>4, ZenonT(30)
<1>2. Spec => []IInv
  BY Invariance
<1> QED
  BY <1>1, <1>2, PTL DEF Spec, WindowKept

===============================================================================
