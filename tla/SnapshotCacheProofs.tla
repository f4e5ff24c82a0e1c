--------------------------- MODULE SnapshotCacheProofs ---------------------------
(***************************************************************************)
(* Proofs about SnapshotCache for any number of goroutines, validators and *)
(* values of frequency data: however many calls share a cached snapshot,   *)
(* an answer is about the header it was asked about unless the header has  *)
(* no frequency data or another call has written in the meantime.          *)
(***************************************************************************)
EXTENDS SnapshotCache, TLAPS

\* The steps of a call and what it holds at each of them.
Calls ==
    {Idle}
    \cup [at : {"verify", "finalize"}, header : Headers]
    \cup [at : {"verified"}, header : Headers, answer : BOOLEAN]
    \cup [at : {"finalized"}, header : Headers, answer : Validators]
    \cup [at : {"difficulty"}]
    \cup [at : {"extra"}, difficulty : {diffInTurn, diffNoTurn}]
    \cup [at : {"prepared"}, header : Headers]

\* The type invariant.
TypeOK == frequencyRLP \in Data /\ call \in [Workers -> Calls]

\* The difficulty of v by frequency data f.
Due(f, v) == IF InTurn[f] = v THEN diffInTurn ELSE diffNoTurn

\* What holds of a call c that nobody has overtaken, when the snapshot has the data
\* f: between its steps that is what the call has put there, and its answer is right.
Fine(f, c) ==
    /\ c.at \in {"verify", "finalize"} /\ c.header.freq # Absent => f = c.header.freq
    /\ c.at = "extra" => c.difficulty = Due(f, Val)
    /\ c.at = "verified" /\ c.header.freq # Absent => (c.answer <=> FitsTurn(c.header))
    /\ c.at = "prepared" => FitsTurn(c.header)
    /\ c.at = "finalized" /\ c.header.freq # Absent => c.answer = OwnTurn(c.header)

\* The inductive invariant.
IInv == TypeOK /\ \A w \in Workers : w \notin overtaken => Fine(frequencyRLP, call[w])

\* What a call holds at each step.
LEMMA AtStep ==
    ASSUME NEW c \in Calls
    PROVE  /\ c.at = "idle" <=> c = Idle
           /\ c.at \in {"verify", "finalize", "verified", "finalized", "prepared"} => c.header \in Headers
           /\ c.at = "extra" => c.difficulty \in {diffInTurn, diffNoTurn}
  BY DEF Calls, Idle

\* An idle call is fine.
LEMMA IdleFine == \A f : Fine(f, Idle)
  BY DEF Fine, Idle

\* A call that goes on to c leaves the other calls where they are.
LEMMA OthersStay ==
    ASSUME TypeOK, NEW w \in Workers, NEW c \in Calls, Goes(w, c)
    PROVE  /\ call' \in [Workers -> Calls]
           /\ call'[w] = c
           /\ \A u \in Workers : u # w => call'[u] = call[u]
  BY DEF TypeOK, Goes

\* A call that begins with c keeps the invariant if it is fine at its first step:
\* either it writes, and overtakes all others, or the snapshot stays as it is.
LEMMA BeginKeeps ==
    ASSUME IInv, NEW w \in Workers, NEW c \in Calls, NEW writes \in BOOLEAN,
           Begins(w, writes), Goes(w, c), Fine(frequencyRLP', c), frequencyRLP' \in Data,
           ~writes => frequencyRLP' = frequencyRLP
    PROVE  IInv'
<1>1. /\ call' \in [Workers -> Calls]
      /\ call'[w] = c
      /\ \A u \in Workers : u # w => call'[u] = call[u]
  BY OthersStay DEF IInv
<1>2. ASSUME NEW u \in Workers, u \notin overtaken', u # w PROVE Fine(frequencyRLP', call[u])
  <2>1. CASE writes
    <3>1. call[u] = Idle
      BY <1>2, <2>1 DEF Begins
    <3> QED
      BY <3>1, IdleFine
  <2>2. CASE ~writes
    BY <1>2, <2>2 DEF Begins, IInv
  <2> QED
    BY <2>1, <2>2
<1> QED
  BY <1>1, <1>2 DEF IInv, TypeOK

\* A call that goes on to c without a write keeps the invariant if c is fine,
\* provided that nobody had overtaken it.
LEMMA StepKeeps ==
    ASSUME IInv, NEW w \in Workers, NEW c \in Calls, Goes(w, c),
           w \notin overtaken => Fine(frequencyRLP, c),
           frequencyRLP' = frequencyRLP, overtaken' = overtaken
    PROVE  IInv'
<1>1. /\ call' \in [Workers -> Calls]
      /\ call'[w] = c
      /\ \A u \in Workers : u # w => call'[u] = call[u]
  BY OthersStay DEF IInv
<1> QED
  BY <1>1 DEF IInv, TypeOK

\* Populate stores what a header has, and nothing if it has none.
LEMMA Populated ==
    ASSUME TypeOK, NEW data \in Data \cup {Absent}, Populate(data)
    PROVE  /\ frequencyRLP' \in Data
           /\ data # Absent => frequencyRLP' = data
           /\ ~(data # Absent) => frequencyRLP' = frequencyRLP
  BY DEF TypeOK, Populate

\* Every step of a call keeps the invariant.
LEMMA NextKeeps == ASSUME IInv, Next PROVE IInv'
<1>1. PICK w \in Workers :
        \/ \E h \in Headers : h.freq \in Parsed /\ (VerifySeal(w, h) \/ Finalize(w, h))
        \/ \E data \in Data : Prepare(w, data)
        \/ VerifySealDifficulty(w) \/ FinalizeSpoiled(w)
        \/ PrepareDifficulty(w) \/ PrepareExtra(w)
        \/ \E data \in Parsed : AskAboutBlock(w, data)
        \/ Returns(w)
  BY DEF Next
<1>t. TypeOK /\ frequencyRLP \in Data /\ call \in [Workers -> Calls] /\ call[w] \in Calls
  BY DEF IInv, TypeOK
<1>f. w \notin overtaken => Fine(frequencyRLP, call[w])
  BY DEF IInv
<1>d. CalcDifficulty(Val) \in {diffInTurn, diffNoTurn} /\ CalcDifficulty(Val) = Due(frequencyRLP, Val)
  BY DEF CalcDifficulty, Due
<1>2. ASSUME NEW h \in Headers, VerifySeal(w, h) PROVE IInv'
  <2> DEFINE c == [at |-> "verify", header |-> h]
  <2>1. c \in Calls /\ Goes(w, c) /\ Populate(h.freq) /\ Begins(w, h.freq # Absent) /\ h.freq \in Data \cup {Absent}
    BY <1>2 DEF VerifySeal, Calls, Headers
  <2>2. Fine(frequencyRLP', c)
    BY <1>t, <2>1, Populated DEF Fine
  <2> QED
    BY <1>t, <2>1, <2>2, Populated, BeginKeeps
<1>3. ASSUME NEW h \in Headers, Finalize(w, h) PROVE IInv'
  <2> DEFINE c == [at |-> "finalize", header |-> h]
  <2>1. c \in Calls /\ Goes(w, c) /\ Populate(h.freq) /\ Begins(w, h.freq # Absent) /\ h.freq \in Data \cup {Absent}
    BY <1>3 DEF Finalize, Calls, Headers
  <2>2. Fine(frequencyRLP', c)
    BY <1>t, <2>1, Populated DEF Fine
  <2> QED
    BY <1>t, <2>1, <2>2, Populated, BeginKeeps
<1>4. ASSUME NEW data \in Data, Prepare(w, data) PROVE IInv'
  <2> DEFINE c == [at |-> "difficulty"]
  <2>1. c \in Calls /\ Goes(w, c) /\ frequencyRLP' = data /\ Begins(w, TRUE)
    BY <1>4 DEF Prepare, Calls
  <2>2. Fine(frequencyRLP', c)
    BY DEF Fine
  <2> QED
    BY <2>1, <2>2, BeginKeeps
<1>5. CASE VerifySealDifficulty(w)
  <2> DEFINE h == call[w].header
             c == [at |-> "verified", header |-> h, answer |-> h.difficulty = CalcDifficulty(h.signer)]
  <2>1. h \in Headers
    BY <1>5, <1>t, AtStep DEF VerifySealDifficulty
  <2>2. c \in Calls /\ Goes(w, c) /\ frequencyRLP' = frequencyRLP /\ overtaken' = overtaken
    BY <1>5, <2>1 DEF VerifySealDifficulty, Calls
  <2>3. ASSUME w \notin overtaken, h.freq # Absent PROVE c.answer <=> FitsTurn(h)
    <3>1. frequencyRLP = h.freq
      BY <1>5, <1>f, <2>3 DEF VerifySealDifficulty, Fine
    <3> QED
      BY <2>3, <3>1, Zenon DEF CalcDifficulty, FitsTurn, OwnTurn
  <2>4. w \notin overtaken => Fine(frequencyRLP, c)
    BY <2>3 DEF Fine
  <2> HIDE DEF h
  <2> QED
    BY <2>2, <2>4, StepKeeps
<1>6. CASE FinalizeSpoiled(w)
  <2> DEFINE h == call[w].header
             c == [at |-> "finalized", header |-> h, answer |-> InTurn[frequencyRLP]]
  <2>1. h \in Headers
    BY <1>6, <1>t, AtStep DEF FinalizeSpoiled
  <2>2. InTurn[frequencyRLP] \in Validators
    BY <1>t, CacheAssumption, Zenon
  <2>3. c \in Calls /\ Goes(w, c) /\ frequencyRLP' = frequencyRLP /\ overtaken' = overtaken
    BY <1>6, <2>1, <2>2 DEF FinalizeSpoiled, Calls
  <2>4. ASSUME w \notin overtaken, h.freq # Absent PROVE c.answer = OwnTurn(h)
    <3>1. frequencyRLP = h.freq
      BY <1>6, <1>f, <2>4 DEF FinalizeSpoiled, Fine
    <3> QED
      BY <2>4, <3>1 DEF OwnTurn
  <2>5. w \notin overtaken => Fine(frequencyRLP, c)
    BY <2>4 DEF Fine
  <2> HIDE DEF h
  <2> QED
    BY <2>3, <2>5, StepKeeps
<1>7. CASE PrepareDifficulty(w)
  <2> DEFINE c == [at |-> "extra", difficulty |-> CalcDifficulty(Val)]
  <2>1. c \in Calls /\ Goes(w, c) /\ frequencyRLP' = frequencyRLP /\ overtaken' = overtaken
    BY <1>7, <1>d DEF PrepareDifficulty, Calls
  <2>2. Fine(frequencyRLP, c)
    BY <1>d DEF Fine
  <2> QED
    BY <2>1, <2>2, StepKeeps
<1>8. CASE PrepareExtra(w)
  <2> DEFINE h == [freq |-> frequencyRLP, signer |-> Val, difficulty |-> call[w].difficulty]
             c == [at |-> "prepared", header |-> h]
  <2>1. h \in Headers
    BY <1>8, <1>t, AtStep, CacheAssumption DEF PrepareExtra, Headers
  <2>2. c \in Calls /\ Goes(w, c) /\ frequencyRLP' = frequencyRLP /\ overtaken' = overtaken
    BY <1>8, <2>1 DEF PrepareExtra, Calls
  <2>3. ASSUME w \notin overtaken PROVE FitsTurn(h)
    <3>1. call[w].difficulty = Due(frequencyRLP, Val)
      BY <1>8, <1>f, <2>3 DEF PrepareExtra, Fine
    <3>2. frequencyRLP # Absent
      BY <1>t, CacheAssumption
    <3> QED
      BY <3>1, <3>2 DEF FitsTurn, OwnTurn, Due
  <2>4. w \notin overtaken => Fine(frequencyRLP, c)
    BY <2>3 DEF Fine
  <2> HIDE DEF h
  <2> QED
    BY <2>2, <2>4, StepKeeps
<1>9. ASSUME NEW data \in Parsed, AskAboutBlock(w, data) PROVE IInv'
  <2>1. /\ Populate(data) /\ Begins(w, data # Absent) /\ data \in Data \cup {Absent}
        /\ call' = call /\ call[w] = Idle
    BY <1>9, CacheAssumption DEF AskAboutBlock, Begins
  <2>2. Goes(w, Idle) /\ Idle \in Calls
    BY <1>t, <2>1 DEF Goes, Calls
  <2>3. Fine(frequencyRLP', Idle)
    BY IdleFine
  <2> QED
    BY <1>t, <2>1, <2>2, <2>3, Populated, BeginKeeps
<1>10. CASE Returns(w)
  <2>1. Goes(w, Idle) /\ frequencyRLP' = frequencyRLP /\ overtaken' = overtaken \ {w} /\ Idle \in Calls
    BY <1>10 DEF Returns, Calls
  <2>2. /\ call' \in [Workers -> Calls]
        /\ call'[w] = Idle
        /\ \A u \in Workers : u # w => call'[u] = call[u]
    BY <1>t, <2>1, OthersStay
  <2> QED
    BY <2>1, <2>2, IdleFine DEF IInv, TypeOK
<1> QED
  BY <1>1, <1>2, <1>3, <1>4, <1>5, <1>6, <1>7, <1>8, <1>9, <1>10

\* No call has begun.
LEMMA InitHolds == ASSUME Init PROVE IInv
<1>1. \A w \in Workers : call[w] = Idle
  BY DEF Init
<1>2. call \in [Workers -> Calls] /\ frequencyRLP \in Data
  BY DEF Init, Calls
<1> QED
  BY <1>1, <1>2, IdleFine DEF IInv, TypeOK

\* The invariant holds whatever calls overlap.
LEMMA Invariance == Spec => []IInv
<1>1. Init => IInv
  BY InitHolds
<1>2. IInv /\ [Next]_vars => IInv'
  <2>1. CASE Next
    BY <2>1, NextKeeps
  <2>2. CASE UNCHANGED vars
    BY <2>2 DEF vars, IInv, TypeOK
  <2> QED
    BY <2>1, <2>2
<1> QED
  BY <1>1, <1>2, PTL DEF Spec

-------------------------------------------------------------------------------
\* However many calls share a cached snapshot, and whatever they leave in it:
\* verifySeal accepts the difficulty of a header with frequency data if and only
\* if it fits the turn that this data gives its signer, unless another call has
\* written into the snapshot since this one began.
THEOREM UndisturbedAlwaysRight == Spec => []UndisturbedRight
<1>1. IInv => UndisturbedRight
  BY DEF IInv, UndisturbedRight, Undisturbed, Fine
<1> QED
  BY <1>1, Invariance, PTL

\* Under the same condition the header that Prepare completes and the validator
\* that Finalize slashes are the ones that any other node derives from the header
\* alone.
THEOREM UndisturbedAlwaysAgree == Spec => []UndisturbedAgree
<1>1. IInv => UndisturbedAgree
  BY DEF IInv, UndisturbedAgree, Undisturbed, Fine
<1> QED
  BY <1>1, Invariance, PTL
================================================================================
