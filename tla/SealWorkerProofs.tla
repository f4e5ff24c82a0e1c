---------------------------- MODULE SealWorkerProofs -----------------------------
(***************************************************************************)
(* The worker publishes no two blocks on one parent, for any number of     *)
(* blocks, attempts, faults, stops and restarts, as long as the guard      *)
(* forgets no number for which a task is open.                             *)
(***************************************************************************)
EXTENDS SealWorker, Integers, TLAPS

\* What the proofs need of the constants.
ConstantsFit ==
    /\ MaxNumber \in Nat /\ MaxWork \in Nat /\ MaxOther \in Nat
    /\ CacheLimit \in Nat \ {0}

Labels == [by : {"me", "other"}, work : Nat, att : {0, 1}]
Blocks == Seq(Labels)
OwnBlocks == {b \in Blocks : b # <<>> /\ b[Len(b)].by = "me"}

\* The tasks that may still become blocks.
Tasks == pendingTasks \cup ({building} \ {Nothing})

TypeOK ==
    /\ known \subseteq Blocks /\ head \in known
    /\ pendingTasks \subseteq OwnBlocks /\ building \in OwnBlocks \cup {Nothing}
    /\ \A s \in sealers : s \in [block : OwnBlocks, backOff : BOOLEAN, stopped : BOOLEAN]
    /\ resultCh \in Seq(OwnBlocks)
    /\ published \subseteq OwnBlocks
    /\ recentMinedBlocks \in Seq([number : Nat, parents : SUBSET Blocks])

\* A number has one entry in the guard.
OneEntry ==
    \A i, j \in DOMAIN recentMinedBlocks :
        recentMinedBlocks[i].number = recentMinedBlocks[j].number => i = j

\* What is being imported is not in the database, and another validator sealed it.
ImportNew ==
    importing # Nothing =>
        importing \in Blocks \ known /\ importing[Len(importing)].by = "other"

\* The parents of tasks and of published blocks are in the database.  The head has left
\* the parent of a published block for good.
ParentsKnown ==
    /\ \A t \in Tasks \cup published : Front(t) \in known
    /\ \A b \in published : Front(b) # head

\* While a task on the parent of a published block is open, the guard knows of it.
Guarded ==
    \A b \in published, t \in Tasks : Front(t) = Front(b) => Front(b) \in ParentsAt(Len(b))

\* The inductive invariant.
Inv == TypeOK /\ OneEntry /\ ImportNew /\ ParentsKnown /\ Guarded /\ NoDoubleSign

\* The numbers that the guard knows, and that it forgets a number only if no task for
\* it is open, or with all else in a restart.
Numbers == {recentMinedBlocks[i].number : i \in DOMAIN recentMinedBlocks}
ForgetsStale ==
    recentMinedBlocks' = <<>> \/ \A n \in Numbers \ Numbers' : \A t \in Tasks : Len(t) # n

-------------------------------------------------------------------------------
(* Blocks *)

\* The parent of a block that is put on another one, and its number.
LEMMA Child ==
    ASSUME NEW p \in Blocks, NEW x \in Labels
    PROVE  /\ Append(p, x) \in Blocks /\ Append(p, x) # <<>>
           /\ Len(Append(p, x)) = Len(p) + 1 /\ Append(p, x)[Len(p) + 1] = x
           /\ Front(Append(p, x)) = p
<1>1. /\ Append(p, x) \in Blocks /\ Len(Append(p, x)) = Len(p) + 1
      /\ Append(p, x)[Len(p) + 1] = x
      /\ \A i \in 1 .. Len(p) : Append(p, x)[i] = p[i]
  BY DEF Blocks
<1>2. Len(p) \in Nat /\ p = [i \in 1 .. Len(p) |-> p[i]]
  BY DEF Blocks
<1>3. Front(Append(p, x)) = [i \in 1 .. Len(p) |-> p[i]]
  BY <1>1, <1>2 DEF Front
<1>4. Append(p, x) # <<>>
  <2> SUFFICES ASSUME Append(p, x) = <<>> PROVE FALSE
    OBVIOUS
  <2>1. Len(Append(p, x)) = 0
    OBVIOUS
  <2> QED
    BY <1>1, <1>2, <2>1
<1> QED
  BY <1>1, <1>2, <1>3, <1>4

\* A block is longer than its parent, and blocks on one parent have one number.
LEMMA FrontLength ==
    ASSUME NEW b \in Blocks, b # <<>>
    PROVE  Len(b) \in Nat \ {0} /\ Front(b) \in Blocks /\ Len(Front(b)) = Len(b) - 1 /\ Front(b) # b
<1>1. Len(b) \in Nat \ {0} /\ b \in [1 .. Len(b) -> Labels]
  BY DEF Blocks
<1>2. Len(b) - 1 \in Nat /\ \A i \in 1 .. Len(b) - 1 : b[i] \in Labels
  BY <1>1
<1>3. Front(b) \in [1 .. Len(b) - 1 -> Labels]
  BY <1>2 DEF Front
<1>4. Front(b) \in Blocks /\ Len(Front(b)) = Len(b) - 1
  BY <1>2, <1>3 DEF Blocks
<1> QED
  BY <1>1, <1>4

\* The attestation changes neither the parent nor the sealer.
LEMMA AttestedBlock ==
    ASSUME NEW b \in OwnBlocks, NEW a \in {0, 1}
    PROVE  /\ Attested(b, a) \in OwnBlocks /\ Len(Attested(b, a)) = Len(b)
           /\ Front(Attested(b, a)) = Front(b)
<1> DEFINE x == [b[Len(b)] EXCEPT !.att = a]
<1>1. Len(b) \in Nat \ {0} /\ b \in [1 .. Len(b) -> Labels] /\ b[Len(b)] \in Labels /\ b[Len(b)].by = "me"
  BY DEF OwnBlocks, Blocks
<1>2. x \in Labels /\ x.by = "me"
  <2>1. x = [by |-> b[Len(b)].by, work |-> b[Len(b)].work, att |-> a]
    BY <1>1 DEF Labels
  <2> QED
    BY <1>1, <2>1 DEF Labels
<1>3. Attested(b, a) = [b EXCEPT ![Len(b)] = x]
  BY DEF Attested
<1> HIDE DEF x
<1>a. Len(b) \in 1 .. Len(b) /\ \A i \in 1 .. Len(b) - 1 : i \in 1 .. Len(b) /\ i # Len(b)
  <2>1. \A n \in Nat \ {0} : n \in 1 .. n /\ \A i \in 1 .. n - 1 : i \in 1 .. n /\ i # n
    OBVIOUS
  <2> QED
    BY <1>1, <2>1, Zenon
<1>4. /\ Attested(b, a) \in [1 .. Len(b) -> Labels] /\ Attested(b, a)[Len(b)] = x
      /\ \A i \in 1 .. Len(b) - 1 : Attested(b, a)[i] = b[i]
  BY <1>1, <1>2, <1>3, <1>a, Zenon
<1>5. Attested(b, a) \in Blocks /\ Len(Attested(b, a)) = Len(b)
  BY <1>1, <1>4 DEF Blocks
<1>6. Attested(b, a) # <<>>
  BY <1>1, <1>5
<1>7. Front(Attested(b, a)) = Front(b)
  BY <1>1, <1>4, <1>5 DEF Front
<1> QED
  BY <1>2, <1>4, <1>5, <1>6, <1>7 DEF OwnBlocks

-------------------------------------------------------------------------------
(* The guard *)

Entries == [number : Nat, parents : SUBSET Blocks]

\* The guard without a number: all other entries, each once.
LEMMA WithoutFacts ==
    ASSUME TypeOK, OneEntry, NEW n \in Nat
    PROVE  /\ Without(n) \in Seq(Entries)
           /\ \A i \in DOMAIN Without(n) :
                 Without(n)[i].number # n /\ \E j \in DOMAIN recentMinedBlocks : Without(n)[i] = recentMinedBlocks[j]
           /\ \A j \in DOMAIN recentMinedBlocks :
                 recentMinedBlocks[j].number # n => \E i \in DOMAIN Without(n) : Without(n)[i] = recentMinedBlocks[j]
           /\ \A i, j \in DOMAIN Without(n) : Without(n)[i].number = Without(n)[j].number => i = j
<1> DEFINE r == recentMinedBlocks
           found == {i \in DOMAIN r : r[i].number = n}
<1>1. /\ r \in Seq(Entries) /\ Len(r) \in Nat /\ DOMAIN r = 1 .. Len(r)
      /\ \A i \in 1 .. Len(r) : r[i] \in Entries
      /\ \A i, j \in 1 .. Len(r) : r[i].number = r[j].number => i = j
  <2>1. r \in Seq(Entries) /\ \A i, j \in DOMAIN r : r[i].number = r[j].number => i = j
    BY Zenon DEF TypeOK, OneEntry, Entries
  <2> HIDE DEF r
  <2>2. Len(r) \in Nat /\ DOMAIN r = 1 .. Len(r) /\ \A i \in 1 .. Len(r) : r[i] \in Entries
    BY <2>1
  <2> QED
    BY <2>1, <2>2, Zenon
<1>2. CASE found = {}
  <2>1. Without(n) = r
    BY <1>2, Zenon DEF Without
  <2> QED
    BY <1>1, <1>2, <2>1, Zenon
<1>3. CASE found # {}
  <2> DEFINE at == CHOOSE i \in found : TRUE
             w == [i \in 1 .. Len(r) - 1 |-> r[IF i < at THEN i ELSE i + 1]]
  <2>1. Without(n) = w
    BY <1>3, Zenon DEF Without
  <2>2. at \in found
    BY <1>3, Zenon
  <2>3. at \in 1 .. Len(r) /\ r[at].number = n
    BY <1>1, <2>2, Zenon
  <2> HIDE DEF at, found, r
  <2>4. Len(r) - 1 \in Nat /\ \A i \in 1 .. Len(r) - 1 : (IF i < at THEN i ELSE i + 1) \in 1 .. Len(r) \ {at}
    BY <1>1, <2>3
  <2>5. w \in [1 .. Len(r) - 1 -> Entries] /\ DOMAIN w = 1 .. Len(r) - 1
    BY <1>1, <2>4
  <2>6. w \in Seq(Entries)
    BY <2>4, <2>5
  <2>7. \A i \in DOMAIN w : w[i].number # n /\ \E j \in DOMAIN r : w[i] = r[j]
    BY <1>1, <2>3, <2>4, Zenon
  <2>8. ASSUME NEW j \in DOMAIN r, r[j].number # n PROVE \E i \in DOMAIN w : w[i] = r[j]
    <3>1. j \in 1 .. Len(r) /\ j # at
      BY <1>1, <2>3, <2>8
    <3>2. CASE j < at
      <4>1. j \in 1 .. Len(r) - 1 /\ w[j] = r[j]
        BY <1>1, <2>3, <3>1, <3>2
      <4> QED
        BY <2>5, <4>1
    <3>3. CASE j > at
      <4>1. j - 1 \in 1 .. Len(r) - 1 /\ w[j - 1] = r[j]
        BY <1>1, <2>3, <3>1, <3>3
      <4> QED
        BY <2>5, <4>1
    <3> QED
      BY <1>1, <2>3, <3>1, <3>2, <3>3
  <2>9. \A i, j \in DOMAIN w : w[i].number = w[j].number => i = j
    BY <1>1, <2>3, <2>4, SMTT(20)
  <2> QED
    BY <2>1, <2>6, <2>7, <2>8, <2>9 DEF r
<1> QED
  BY <1>2, <1>3

\* A parent in the guard.
LEMMA InGuard ==
    ASSUME NEW n, NEW p
    PROVE  p \in ParentsAt(n) <=>
               \E i \in DOMAIN recentMinedBlocks :
                   recentMinedBlocks[i].number = n /\ p \in recentMinedBlocks[i].parents
BY Zenon DEF ParentsAt, Range

\* The same after a step.
LEMMA InGuardNext ==
    ASSUME NEW n, NEW p
    PROVE  p \in ParentsAt(n)' <=>
               \E i \in DOMAIN recentMinedBlocks' :
                   recentMinedBlocks'[i].number = n /\ p \in recentMinedBlocks'[i].parents
BY Zenon DEF ParentsAt, Range

\* The guard with a result, before it forgets a number.
Noted(b) ==
    Append(Without(Len(b)), [number |-> Len(b), parents |-> ParentsAt(Len(b)) \cup {Front(b)}])

\* The last entry has the parent of the result, and no entry is lost.
LEMMA NotedFacts ==
    ASSUME TypeOK, OneEntry, NEW b \in OwnBlocks
    PROVE  /\ Noted(b) \in Seq(Entries) /\ Len(Noted(b)) \in Nat \ {0}
           /\ DOMAIN Noted(b) = 1 .. Len(Noted(b))
           /\ Noted(b)[Len(Noted(b))].number = Len(b)
           /\ Front(b) \in Noted(b)[Len(Noted(b))].parents
           /\ \A i, j \in DOMAIN Noted(b) : Noted(b)[i].number = Noted(b)[j].number => i = j
           /\ \A i \in DOMAIN Noted(b) : Noted(b)[i].number \in Numbers \cup {Len(b)}
           /\ \A i \in DOMAIN recentMinedBlocks : \E j \in DOMAIN Noted(b) :
                 /\ Noted(b)[j].number = recentMinedBlocks[i].number
                 /\ recentMinedBlocks[i].parents \subseteq Noted(b)[j].parents
<1> DEFINE e == [number |-> Len(b), parents |-> ParentsAt(Len(b)) \cup {Front(b)}]
           w == Without(Len(b))
           s == Append(w, e)
<1>1. Len(b) \in Nat /\ Front(b) \in Blocks
  BY FrontLength DEF OwnBlocks
<1>2. ParentsAt(Len(b)) \subseteq Blocks
  <2>1. \A i \in DOMAIN recentMinedBlocks : recentMinedBlocks[i].parents \subseteq Blocks
    <3>1. recentMinedBlocks \in Seq(Entries)
      BY Zenon DEF TypeOK, Entries
    <3>2. \A i \in DOMAIN recentMinedBlocks : recentMinedBlocks[i] \in Entries
      BY <3>1
    <3> QED
      BY <3>2 DEF Entries
  <2> QED
    BY <2>1, InGuard, Zenon
<1>3. e \in Entries /\ e.number = Len(b) /\ e.parents = ParentsAt(Len(b)) \cup {Front(b)}
  BY <1>1, <1>2 DEF Entries
<1>4. Noted(b) = s
  BY Zenon DEF Noted
<1>5. /\ w \in Seq(Entries)
      /\ \A i \in DOMAIN w :
            w[i].number # Len(b) /\ \E j \in DOMAIN recentMinedBlocks : w[i] = recentMinedBlocks[j]
      /\ \A j \in DOMAIN recentMinedBlocks :
            recentMinedBlocks[j].number # Len(b) => \E i \in DOMAIN w : w[i] = recentMinedBlocks[j]
      /\ \A i, j \in DOMAIN w : w[i].number = w[j].number => i = j
  BY <1>1, WithoutFacts, Zenon
<1> HIDE DEF w, e
<1>6. /\ s \in Seq(Entries) /\ Len(w) \in Nat /\ Len(s) = Len(w) + 1 /\ s[Len(w) + 1] = e
      /\ DOMAIN w = 1 .. Len(w) /\ DOMAIN s = 1 .. Len(w) + 1 /\ \A i \in 1 .. Len(w) : s[i] = w[i]
  BY <1>3, <1>5
<1>7. \A i, j \in DOMAIN s : s[i].number = s[j].number => i = j
  BY <1>3, <1>5, <1>6, SMTT(20)
<1>8. \A i \in DOMAIN recentMinedBlocks : \E j \in DOMAIN s :
          /\ s[j].number = recentMinedBlocks[i].number
          /\ recentMinedBlocks[i].parents \subseteq s[j].parents
  <2> TAKE i \in DOMAIN recentMinedBlocks
  <2>1. CASE recentMinedBlocks[i].number = Len(b)
    <3>1. recentMinedBlocks[i].parents \subseteq ParentsAt(Len(b))
      BY <2>1, InGuard, Zenon
    <3>2. Len(w) + 1 \in DOMAIN s
      BY <1>6
    <3> QED
      BY <1>3, <1>6, <2>1, <3>1, <3>2, Zenon
  <2>2. CASE recentMinedBlocks[i].number # Len(b)
    <3>1. PICK j \in DOMAIN w : w[j] = recentMinedBlocks[i]
      BY <1>5, <2>2
    <3>2. j \in DOMAIN s /\ s[j] = recentMinedBlocks[i]
      BY <1>6, <3>1
    <3> QED
      BY <3>2, Zenon
  <2> QED
    BY <2>1, <2>2
<1>9. \A i \in DOMAIN s : s[i].number \in Numbers \cup {Len(b)}
  <2> TAKE i \in DOMAIN s
  <2>1. (i \in DOMAIN w /\ s[i] = w[i]) \/ s[i] = e
    BY <1>6
  <2>2. \A j \in DOMAIN recentMinedBlocks : recentMinedBlocks[j].number \in Numbers
    BY DEF Numbers
  <2>3. i \in DOMAIN w => s[i].number \in Numbers \cup {Len(b)}
    BY <1>3, <1>5, <2>1, <2>2
  <2> QED
    BY <1>3, <2>1, <2>3
<1> HIDE DEF s
<1>10. Len(s) \in Nat \ {0} /\ DOMAIN s = 1 .. Len(s) /\ s[Len(s)] = e
  BY <1>6
<1>11. s[Len(s)].number = Len(b) /\ Front(b) \in s[Len(s)].parents
  BY <1>3, <1>10, Zenon
<1> QED
  BY <1>4, <1>6, <1>7, <1>8, <1>9, <1>10, <1>11, Zenon

\* recentMinedBlocks.Add: the parent is noted, and what was noted for a number stays
\* noted unless the whole number is forgotten.
LEMMA RememberFacts ==
    ASSUME ConstantsFit, TypeOK, OneEntry, NEW b \in OwnBlocks, recentMinedBlocks' = Remember(b)
    PROVE  /\ recentMinedBlocks' \in Seq(Entries) /\ OneEntry' /\ recentMinedBlocks' # <<>>
           /\ Front(b) \in ParentsAt(Len(b))'
           /\ \A n \in Numbers' : \A p \in ParentsAt(n) : p \in ParentsAt(n)'
<1> DEFINE s == Noted(b)
           t == recentMinedBlocks'
           k == IF Len(s) > CacheLimit THEN 1 ELSE 0
<1>1. t = IF Len(s) > CacheLimit THEN Tail(s) ELSE s
  BY Zenon DEF Remember, Noted
<1>2. /\ s \in Seq(Entries) /\ Len(s) \in Nat \ {0} /\ DOMAIN s = 1 .. Len(s)
      /\ s[Len(s)].number = Len(b) /\ Front(b) \in s[Len(s)].parents
      /\ \A i, j \in DOMAIN s : s[i].number = s[j].number => i = j
      /\ \A i \in DOMAIN recentMinedBlocks : \E j \in DOMAIN s :
            /\ s[j].number = recentMinedBlocks[i].number
            /\ recentMinedBlocks[i].parents \subseteq s[j].parents
  BY NotedFacts, Zenon
<1> HIDE DEF s
<1>3. /\ t \in Seq(Entries) /\ Len(t) = Len(s) - k /\ Len(t) \in Nat \ {0} /\ k \in {0, 1}
      /\ \A i \in 1 .. Len(t) : i + k \in DOMAIN s /\ t[i] = s[i + k]
  BY <1>1, <1>2 DEF ConstantsFit
<1> HIDE DEF t, k
<1>4. DOMAIN t = 1 .. Len(t)
  BY <1>3
<1>5. ASSUME NEW i \in DOMAIN t, NEW j \in DOMAIN t, t[i].number = t[j].number PROVE i = j
  <2>1. i \in 1 .. Len(t) /\ j \in 1 .. Len(t)
    BY <1>4
  <2>2. i + k \in DOMAIN s /\ t[i] = s[i + k] /\ j + k \in DOMAIN s /\ t[j] = s[j + k]
    BY <1>3, <2>1, Zenon
  <2>3. s[i + k].number = s[j + k].number
    BY <1>5, <2>2, Zenon
  <2>4. i + k = j + k
    BY <1>2, <2>2, <2>3, Zenon
  <2> QED
    BY <1>3, <2>1, <2>4, SMTT(20)
<1>6. Len(t) \in DOMAIN t /\ t[Len(t)] = s[Len(s)]
  <2>1. Len(t) \in 1 .. Len(t)
    BY <1>3
  <2>2. t[Len(t)] = s[Len(t) + k]
    BY <1>3, <2>1, Zenon
  <2>3. Len(t) = Len(s) - k /\ Len(s) \in Nat /\ k \in {0, 1}
    BY <1>2, <1>3, Zenon
  <2>4. Len(t) + k = Len(s)
    <3>1. \A x \in Nat, y \in {0, 1} : (x - y) + y = x
      OBVIOUS
    <3> QED
      BY <2>3, <3>1, Zenon
  <2> QED
    BY <1>4, <2>1, <2>2, <2>4, Zenon
<1>7. t # <<>>
  BY <1>6
<1>8. Front(b) \in ParentsAt(Len(b))'
  <2>1. t[Len(t)].number = Len(b) /\ Front(b) \in t[Len(t)].parents
    BY <1>2, <1>6, Zenon
  <2> QED
    BY <1>6, <2>1, InGuardNext, Zenon DEF t
<1>9. ASSUME NEW n \in Numbers', NEW p \in ParentsAt(n) PROVE p \in ParentsAt(n)'
  <2>1. PICK i \in DOMAIN recentMinedBlocks :
            recentMinedBlocks[i].number = n /\ p \in recentMinedBlocks[i].parents
    BY InGuard, Zenon
  <2>2. PICK j \in DOMAIN s : s[j].number = n /\ p \in s[j].parents
    BY <1>2, <2>1, Zenon
  <2>3. PICK l \in DOMAIN t : t[l].number = n
    BY DEF Numbers, t
  <2>4. l + k \in DOMAIN s /\ t[l] = s[l + k]
    BY <1>3, <1>4, Zenon
  <2>5. t[l] = s[j]
    BY <1>2, <2>2, <2>3, <2>4, Zenon
  <2> QED
    BY <2>2, <2>3, <2>5, InGuardNext, ZenonT(30) DEF t
<1> QED
  BY <1>3, <1>5, <1>7, <1>8, <1>9 DEF t, OneEntry

-------------------------------------------------------------------------------
(* The steps that change neither the chain nor the guard *)

\* Such a step opens no task.
LEMMA QuietKeeps ==
    ASSUME Inv, TypeOK', Tasks' \subseteq Tasks,
           UNCHANGED <<known, head, importing, published, recentMinedBlocks>>
    PROVE  Inv'
<1>1. OneEntry' /\ ImportNew' /\ NoDoubleSign' /\ \A n : ParentsAt(n)' = ParentsAt(n)
  BY Zenon DEF Inv, OneEntry, ImportNew, NoDoubleSign, ParentsAt
<1>2. ParentsKnown' /\ Guarded'
  BY <1>1, Zenon DEF Inv, ParentsKnown, Guarded
<1> QED
  BY <1>1, <1>2, Zenon DEF Inv

\* The loops that ask for work, and the ones that give it up.
LEMMA LoopsKeep ==
    ASSUME Inv, OnHead \/ OnTimer \/ StartMining \/ StopMining \/ PrepareNothing \/ Abandon
    PROVE  Inv'
<1>1. /\ UNCHANGED <<known, head, importing, published, recentMinedBlocks, sealers, resultCh>>
      /\ building' \in {building, Nothing}
  BY Zenon DEF OnHead, OnTimer, StartMining, StopMining, PrepareNothing, Abandon, chainVars
<1>2. pendingTasks' \subseteq pendingTasks
  BY Zenon DEF OnHead, OnTimer, StartMining, StopMining, PrepareNothing, Abandon, Fresh
<1>3. Tasks' \subseteq Tasks
  BY <1>1, <1>2, Zenon DEF Tasks
<1>4. TypeOK'
  BY <1>1, <1>2, Zenon DEF Inv, TypeOK
<1> QED
  BY <1>1, <1>3, <1>4, QuietKeeps

\* The goroutines that are told to stop keep their blocks.
LEMMA StoppedSealers ==
    ASSUME TypeOK
    PROVE  \A s \in Stopped(sealers) : s \in [block : OwnBlocks, backOff : BOOLEAN, stopped : BOOLEAN]
<1> DEFINE S == [block : OwnBlocks, backOff : BOOLEAN, stopped : BOOLEAN]
<1>1. \A s \in S : [s EXCEPT !.stopped = TRUE] \in S
  BY Zenon
<1>2. \A s \in sealers : s \in S
  BY DEF TypeOK
<1> HIDE DEF S
<1>3. \A s \in Stopped(sealers) : s \in S
  BY <1>1, <1>2, Zenon DEF Stopped
<1> QED
  BY <1>3 DEF S

\* commit and taskLoop: the task under construction becomes a pending one, or is lost.
LEMMA CommitKeeps ==
    ASSUME Inv, Commit
    PROVE  Inv'
<1> DEFINE S == [block : OwnBlocks, backOff : BOOLEAN, stopped : BOOLEAN]
<1>1. /\ UNCHANGED <<known, head, importing, published, recentMinedBlocks, resultCh>>
      /\ building # Nothing /\ building' = Nothing
  BY DEF Commit, chainVars
<1>2. building \in OwnBlocks
  BY <1>1 DEF Inv, TypeOK
<1>3. pendingTasks' \subseteq pendingTasks \cup {building}
  BY Zenon DEF Commit
<1>4. \A s \in sealers' : s \in sealers \/ s \in Stopped(sealers)
                             \/ s = [block |-> building, backOff |-> FALSE, stopped |-> FALSE]
  BY Zenon DEF Commit
<1>5. [block |-> building, backOff |-> FALSE, stopped |-> FALSE] \in S
  BY <1>2
<1>6. \A s \in sealers' : s \in S
  BY <1>4, <1>5, StoppedSealers, Zenon DEF Inv, TypeOK
<1>7. Tasks' \subseteq Tasks
  BY <1>1, <1>3, Zenon DEF Tasks
<1>8. TypeOK'
  BY <1>1, <1>2, <1>3, <1>6, Zenon DEF Inv, TypeOK
<1> QED
  BY <1>1, <1>7, <1>8, QuietKeeps

\* The goroutines of Seal: a result has the parent and the sealer of its task.
LEMMA SealKeeps ==
    ASSUME Inv, SealStopped \/ SealSigned \/ SealBackOff
    PROVE  Inv'
<1> DEFINE S == [block : OwnBlocks, backOff : BOOLEAN, stopped : BOOLEAN]
<1>1. UNCHANGED <<known, head, importing, published, recentMinedBlocks, building, pendingTasks>>
  BY Zenon DEF SealStopped, SealSigned, SealBackOff, chainVars
<1>t. (\A s \in sealers : s \in S) /\ resultCh \in Seq(OwnBlocks)
  BY DEF Inv, TypeOK
<1>2. ASSUME NEW b \in OwnBlocks, Send(b) PROVE resultCh' \in Seq(OwnBlocks)
  BY <1>t, <1>2 DEF Send
<1>3. CASE SealStopped
  <2>1. sealers' \subseteq sealers /\ resultCh' = resultCh
    BY <1>3, Zenon DEF SealStopped
  <2> QED
    BY <1>1, <2>1, QuietKeeps, Zenon DEF Inv, TypeOK, Tasks
<1>4. CASE SealBackOff
  <2>1. PICK s \in sealers : /\ sealers' = sealers \ {s}
                             /\ resultCh' = resultCh \/ Send(s.block)
    BY <1>4, Zenon DEF SealBackOff
  <2>2. s.block \in OwnBlocks
    BY <1>t, <2>1
  <2>3. resultCh' \in Seq(OwnBlocks)
    BY <1>t, <1>2, <2>1, <2>2, Zenon
  <2> QED
    BY <1>1, <2>1, <2>3, QuietKeeps, Zenon DEF Inv, TypeOK, Tasks
<1>5. CASE SealSigned
  <2>1. PICK s \in sealers :
            \/ sealers' = sealers \ {s} /\ resultCh' = resultCh
            \/ \E a \in {0, 1} :
                  \/ sealers' = sealers \ {s} /\ Send(Attested(s.block, a))
                  \/ /\ sealers' = (sealers \ {s}) \cup
                                     {[s EXCEPT !.backOff = TRUE, !.block = Attested(s.block, a)]}
                     /\ resultCh' = resultCh
    BY <1>5, Zenon DEF SealSigned
  <2>2. s \in S /\ s.block \in OwnBlocks
    BY <1>t, <2>1
  <2>3. \A a \in {0, 1} : Attested(s.block, a) \in OwnBlocks
    BY <2>2, AttestedBlock
  <2>4. \A b \in OwnBlocks : [s EXCEPT !.backOff = TRUE, !.block = b] \in S
    BY <2>2, Zenon
  <2> HIDE DEF S
  <2>5. \A r \in sealers' : r \in S
    BY <1>t, <2>1, <2>3, <2>4, Zenon
  <2>6. resultCh' \in Seq(OwnBlocks)
    BY <1>t, <1>2, <2>1, <2>3, Zenon
  <2>7. TypeOK'
    BY <1>1, <2>5, <2>6, Zenon DEF Inv, TypeOK, S
  <2> QED
    BY <1>1, <2>7, QuietKeeps, Zenon DEF Tasks
<1> QED
  BY <1>3, <1>4, <1>5

-------------------------------------------------------------------------------
(* The chain, new tasks and results *)

\* A block of another validator is announced, fails or becomes the head.
LEMMA ImportKeeps ==
    ASSUME ConstantsFit, Inv, ImportFailed \/ ImportWritten \/ \E k \in 1 .. MaxOther : ImportVerified(k)
    PROVE  Inv'
<1>1. UNCHANGED <<published, recentMinedBlocks, sealers, resultCh, building, pendingTasks>>
  BY DEF ImportFailed, ImportWritten, ImportVerified
<1>2. OneEntry' /\ NoDoubleSign' /\ Tasks' = Tasks /\ \A n : ParentsAt(n)' = ParentsAt(n)
  BY <1>1, Zenon DEF Inv, OneEntry, NoDoubleSign, ParentsAt, Tasks
<1>3. Guarded'
  BY <1>1, <1>2, Zenon DEF Inv, Guarded
<1>4. CASE ImportFailed \/ \E k \in 1 .. MaxOther : ImportVerified(k)
  <2>1. UNCHANGED <<known, head>>
    BY <1>4 DEF ImportFailed, ImportVerified
  <2>2. TypeOK' /\ ParentsKnown'
    BY <1>1, <1>2, <2>1, Zenon DEF Inv, TypeOK, ParentsKnown
  <2>3. importing' = Nothing \/ \E p \in known, k \in 1 .. MaxOther :
            importing' = Append(p, Other(k)) /\ importing' \notin known
    BY <1>4, Zenon DEF ImportFailed, ImportVerified
  <2>4. \A p \in known, k \in 1 .. MaxOther :
            Append(p, Other(k)) \in Blocks /\ Append(p, Other(k))[Len(Append(p, Other(k)))].by = "other"
    <3> TAKE p \in known, k \in 1 .. MaxOther
    <3>1. p \in Blocks
      BY DEF Inv, TypeOK
    <3>2. Other(k) \in Labels /\ Other(k).by = "other"
      BY DEF Other, Labels, ConstantsFit
    <3> QED
      BY <3>1, <3>2, Child
  <2>5. ImportNew'
    BY <2>1, <2>3, <2>4, Zenon DEF ImportNew
  <2> QED
    BY <1>2, <1>3, <2>2, <2>5, Zenon DEF Inv
<1>5. CASE ImportWritten
  <2>1. /\ importing # Nothing /\ known' = known \cup {importing} /\ head' = importing
        /\ importing' = Nothing
    BY <1>5 DEF ImportWritten
  <2>2. importing \in Blocks \ known
    BY <2>1, Zenon DEF Inv, ImportNew
  <2>3. TypeOK'
    BY <1>1, <2>1, <2>2, Zenon DEF Inv, TypeOK
  <2>4. ParentsKnown'
    BY <1>1, <1>2, <2>1, <2>2, Zenon DEF Inv, ParentsKnown
  <2>5. ImportNew'
    BY <2>1 DEF ImportNew
  <2> QED
    BY <1>2, <1>3, <2>3, <2>4, <2>5, Zenon DEF Inv
<1> QED
  BY <1>4, <1>5

\* A new task is on the head, which no published block has as its parent.
LEMMA PrepareKeeps ==
    ASSUME ConstantsFit, Inv, NEW w \in 1 .. MaxWork, Prepare(w)
    PROVE  Inv'
<1> DEFINE t == Append(head, Own(w, 0))
<1>1. /\ building' = t
      /\ UNCHANGED <<known, head, importing, published, recentMinedBlocks, sealers, resultCh, pendingTasks>>
  BY DEF Prepare, chainVars
<1>2. head \in Blocks /\ head \in known
  BY DEF Inv, TypeOK
<1>3. Own(w, 0) \in Labels /\ Own(w, 0).by = "me"
  BY DEF Own, Labels, ConstantsFit
<1>4. t \in OwnBlocks /\ Front(t) = head
  BY <1>2, <1>3, Child, Zenon DEF OwnBlocks
<1> HIDE DEF t
<1>5. TypeOK'
  BY <1>1, <1>4, Zenon DEF Inv, TypeOK
<1>6. OneEntry' /\ ImportNew' /\ NoDoubleSign' /\ \A n : ParentsAt(n)' = ParentsAt(n)
  BY <1>1, Zenon DEF Inv, OneEntry, ImportNew, NoDoubleSign, ParentsAt
<1>7. Tasks' \subseteq Tasks \cup {t}
  BY <1>1, Zenon DEF Tasks
<1>8. ParentsKnown'
  BY <1>1, <1>2, <1>4, <1>7, Zenon DEF Inv, ParentsKnown
<1>9. Guarded'
  BY <1>1, <1>4, <1>6, <1>7, Zenon DEF Inv, Guarded, ParentsKnown
<1> QED
  BY <1>5, <1>6, <1>8, <1>9, Zenon DEF Inv

\* A result for which there is a task: its parent is known.
LEMMA ResultFacts ==
    ASSUME Inv, resultCh # <<>>
    PROVE  /\ Head(resultCh) \in OwnBlocks /\ Tail(resultCh) \in Seq(OwnBlocks)
           /\ SealHash(Head(resultCh)) \in pendingTasks =>
                 /\ SealHash(Head(resultCh)) \in Tasks
                 /\ Front(SealHash(Head(resultCh))) = Front(Head(resultCh))
                 /\ Front(Head(resultCh)) \in known
<1>1. Head(resultCh) \in OwnBlocks /\ Tail(resultCh) \in Seq(OwnBlocks)
  <2>1. resultCh \in Seq(OwnBlocks)
    BY DEF Inv, TypeOK
  <2> QED
    BY <2>1
<1>2. Front(SealHash(Head(resultCh))) = Front(Head(resultCh))
  BY <1>1, AttestedBlock DEF SealHash
<1> QED
  BY <1>1, <1>2, Zenon DEF Inv, ParentsKnown, Tasks

\* The guard takes note of a result: it still knows of all published blocks on whose
\* parents tasks are open.
LEMMA RememberKeeps ==
    ASSUME ConstantsFit, Inv, ForgetsStale, NEW b \in OwnBlocks, recentMinedBlocks' = Remember(b),
           NEW c \in published, NEW t \in Tasks, Front(t) = Front(c)
    PROVE  Front(c) \in ParentsAt(Len(c))'
<1>1. /\ recentMinedBlocks' # <<>>
      /\ \A n \in Numbers' : \A p \in ParentsAt(n) : p \in ParentsAt(n)'
  BY RememberFacts DEF Inv
<1>2. Front(c) \in ParentsAt(Len(c))
  BY DEF Inv, Guarded
<1>3. Len(c) \in Numbers
  BY <1>2, InGuard, Zenon DEF Numbers
<1>4. c \in Blocks /\ c # <<>> /\ t \in Blocks /\ t # <<>>
  BY Zenon DEF Inv, TypeOK, OwnBlocks, Tasks
<1>5. Len(t) = Len(c)
  BY <1>4, FrontLength
<1>6. Len(c) \in Numbers'
  BY <1>1, <1>3, <1>5, Zenon DEF ForgetsStale
<1> QED
  BY <1>1, <1>2, <1>6, Zenon

\* A result that is dropped, the guard having taken note of it or not.
LEMMA DroppedKeeps ==
    ASSUME ConstantsFit, Inv, ForgetsStale, ResultDropped
    PROVE  Inv'
<1> DEFINE b == Head(resultCh)
<1>1. /\ resultCh # <<>> /\ resultCh' = Tail(resultCh)
      /\ UNCHANGED <<head, importing, building, pendingTasks, sealers, published>>
  BY DEF ResultDropped
<1>2. b \in OwnBlocks /\ Tail(resultCh) \in Seq(OwnBlocks)
  BY <1>1, ResultFacts
<1>3. /\ known' = known \/ known' = known \cup {b}
      /\ recentMinedBlocks' = recentMinedBlocks \/ recentMinedBlocks' = Remember(b)
  BY DEF ResultDropped
<1> HIDE DEF b
<1>4. /\ recentMinedBlocks' \in Seq(Entries) /\ OneEntry'
      /\ \A c \in published, t \in Tasks : Front(t) = Front(c) => Front(c) \in ParentsAt(Len(c))'
  <2>1. CASE recentMinedBlocks' = recentMinedBlocks
    BY <2>1, Zenon DEF Inv, TypeOK, OneEntry, Guarded, ParentsAt, Entries
  <2>2. CASE recentMinedBlocks' = Remember(b)
    <3>1. recentMinedBlocks' \in Seq(Entries) /\ OneEntry'
      BY <1>2, <2>2, RememberFacts DEF Inv
    <3> QED
      BY <1>2, <2>2, <3>1, RememberKeeps, ZenonT(30)
  <2> QED
    BY <1>3, <2>1, <2>2
<1>5. b \in Blocks /\ b[Len(b)].by # "other"
  BY <1>2 DEF OwnBlocks
<1>6. TypeOK'
  BY <1>1, <1>2, <1>3, <1>4, <1>5, Zenon DEF Inv, TypeOK, Entries
<1>7. ImportNew'
  BY <1>1, <1>3, <1>5, Zenon DEF Inv, ImportNew
<1>8. Tasks' = Tasks
  BY <1>1 DEF Tasks
<1>9. ParentsKnown' /\ NoDoubleSign'
  BY <1>1, <1>3, <1>8, Zenon DEF Inv, ParentsKnown, NoDoubleSign
<1>10. Guarded'
  BY <1>1, <1>4, <1>8, Zenon DEF Guarded
<1> QED
  BY <1>4, <1>6, <1>7, <1>9, <1>10, Zenon DEF Inv

\* A result that is written, and published when it becomes the head.
LEMMA WrittenKeeps ==
    ASSUME ConstantsFit, Inv, ForgetsStale, ResultWritten
    PROVE  Inv'
<1>0. PICK b : b = Head(resultCh)
  OBVIOUS
<1>1. /\ resultCh # <<>> /\ resultCh' = Tail(resultCh) /\ importing = Nothing
      /\ b \notin known /\ SealHash(b) \in pendingTasks /\ Front(b) \notin ParentsAt(Len(b))
      /\ recentMinedBlocks' = Remember(b) /\ known' = known \cup {b}
      /\ UNCHANGED <<importing, building, pendingTasks, sealers>>
  BY <1>0, Zenon DEF ResultWritten
<1>2. \/ head' = b /\ published' = published \cup {b}
      \/ head' = head /\ published' = published
  BY <1>0 DEF ResultWritten
<1>3. /\ b \in OwnBlocks /\ Tail(resultCh) \in Seq(OwnBlocks) /\ Front(b) \in known
      /\ SealHash(b) \in Tasks /\ Front(SealHash(b)) = Front(b)
  BY <1>0, <1>1, ResultFacts
<1>4. b \in Blocks /\ b # <<>> /\ Front(b) # b
  BY <1>3, FrontLength DEF OwnBlocks
<1>r. recentMinedBlocks' = Remember(b) /\ b \in OwnBlocks
  BY <1>1, <1>3, Zenon
<1>5. recentMinedBlocks' \in Seq(Entries) /\ OneEntry' /\ Front(b) \in ParentsAt(Len(b))'
  BY <1>r, RememberFacts DEF Inv
<1>6. \A c \in published : Front(c) # Front(b)
  <2> SUFFICES ASSUME NEW c \in published, Front(c) = Front(b) PROVE FALSE
    BY Zenon
  <2>1. Front(c) \in ParentsAt(Len(c))
    BY <1>3, Zenon DEF Inv, Guarded
  <2>2. c \in Blocks /\ c # <<>>
    BY DEF Inv, TypeOK, OwnBlocks
  <2>3. Len(c) = Len(b)
    BY <1>4, <2>2, FrontLength, SMTT(20)
  <2> QED
    BY <1>1, <2>1, <2>3, Zenon
<1>7. TypeOK'
  BY <1>1, <1>2, <1>3, <1>4, <1>5, Zenon DEF Inv, TypeOK, Entries
<1>8. Tasks' = Tasks
  BY <1>1 DEF Tasks
<1>9. ParentsKnown'
  BY <1>1, <1>2, <1>3, <1>4, <1>8, Zenon DEF Inv, ParentsKnown
<1>10. NoDoubleSign'
  BY <1>2, <1>6, Zenon DEF Inv, NoDoubleSign
<1>11. \A c \in published, t \in Tasks : Front(t) = Front(c) => Front(c) \in ParentsAt(Len(c))'
  <2> TAKE c \in published, t \in Tasks
  <2> HAVE Front(t) = Front(c)
  <2> QED
    BY <1>r, RememberKeeps
<1>12. Guarded'
  <2> SUFFICES ASSUME NEW c \in published', NEW t \in Tasks', Front(t) = Front(c)
               PROVE  Front(c) \in ParentsAt(Len(c))'
    BY Zenon DEF Guarded
  <2>1. c \in published \/ c = b
    BY <1>2
  <2> QED
    BY <1>5, <1>8, <1>11, <2>1, Zenon
<1>13. ImportNew'
  BY <1>1, Zenon DEF ImportNew
<1> QED
  BY <1>5, <1>7, <1>9, <1>10, <1>12, <1>13, Zenon DEF Inv

\* The guard without entries.
LEMMA EmptyGuard == (\A S : <<>> \in Seq(S)) /\ DOMAIN <<>> = {}
OBVIOUS

\* A restart: the worker forgets its tasks with the guard.
LEMMA RestartKeeps ==
    ASSUME Inv, Restart
    PROVE  Inv'
<1>1. /\ UNCHANGED <<known, head, importing, published>>
      /\ building' = Nothing /\ pendingTasks' = {} /\ sealers' = {} /\ resultCh' = <<>>
      /\ recentMinedBlocks' = <<>>
  BY DEF Restart
<1>2. Tasks' = {}
  BY <1>1 DEF Tasks
<1>3. resultCh' \in Seq(OwnBlocks) /\ recentMinedBlocks' \in Seq(Entries) /\ DOMAIN recentMinedBlocks' = {}
  BY <1>1, EmptyGuard
<1>4. TypeOK'
  BY <1>1, <1>3, Zenon DEF Inv, TypeOK, Entries
<1>5. OneEntry' /\ Guarded'
  BY <1>2, <1>3, Zenon DEF OneEntry, Guarded
<1>6. ImportNew' /\ NoDoubleSign' /\ ParentsKnown'
  BY <1>1, <1>2, Zenon DEF Inv, ImportNew, NoDoubleSign, ParentsKnown
<1> QED
  BY <1>4, <1>5, <1>6 DEF Inv

-------------------------------------------------------------------------------
(* The theorems *)

\* The invariant holds at the start.
LEMMA InvInit == Init => Inv
<1> SUFFICES ASSUME Init PROVE Inv
  OBVIOUS
<1>1. <<>> \in Blocks /\ resultCh \in Seq(OwnBlocks) /\ recentMinedBlocks \in Seq(Entries)
  BY EmptyGuard DEF Init, Blocks
<1>2. DOMAIN recentMinedBlocks = {} /\ Tasks = {}
  BY EmptyGuard DEF Init, Tasks
<1>3. TypeOK
  BY <1>1, Zenon DEF Init, TypeOK, Entries
<1>4. OneEntry /\ ImportNew /\ ParentsKnown /\ Guarded /\ NoDoubleSign
  BY <1>2, Zenon DEF Init, OneEntry, ImportNew, ParentsKnown, Guarded, NoDoubleSign
<1> QED
  BY <1>3, <1>4 DEF Inv

\* Every step keeps it that forgets only stale numbers.
LEMMA InvStep ==
    ASSUME ConstantsFit, Inv, [Next]_vars, ForgetsStale
    PROVE  Inv'
<1>1. CASE UNCHANGED vars
  <2>1. UNCHANGED <<known, head, importing, published, recentMinedBlocks, building, pendingTasks,
                    sealers, resultCh>>
    BY <1>1 DEF vars, chainVars
  <2>2. TypeOK' /\ Tasks' = Tasks
    BY <2>1, Zenon DEF Inv, TypeOK, Tasks
  <2> QED
    BY <2>1, <2>2, QuietKeeps
<1>2. CASE Next
  BY <1>2, ImportKeeps, LoopsKeep, PrepareKeeps, CommitKeeps, SealKeeps, DroppedKeeps, WrittenKeeps,
     RestartKeeps, Zenon DEF Next
<1> QED
  BY <1>1, <1>2

\* A validator never broadcasts two blocks on one parent, whatever resubmission, stale
\* goroutine, failed write, import or restart comes in between, in every run in which
\* recentMinedBlocks drops no number for which the worker still has a task.
THEOREM NeverDoubleSigns ==
    ASSUME ConstantsFit
    PROVE  Spec /\ [][ForgetsStale]_vars => []NoDoubleSign
<1>1. Init => Inv
  BY InvInit
<1>2. Inv /\ [Next]_vars /\ [ForgetsStale]_vars => Inv'
  <2>1. UNCHANGED vars => ForgetsStale
    BY Zenon DEF vars, ForgetsStale, Numbers
  <2> QED
    BY <2>1, InvStep
<1>3. Inv => NoDoubleSign
  BY DEF Inv
<1> QED
  BY <1>1, <1>2, <1>3, PTL DEF Spec
===============================================================================
