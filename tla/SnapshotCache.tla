----------------------------- MODULE SnapshotCache -----------------------------
(***************************************************************************)
(* The cached snapshot of one block after Snake8, and the calls that share *)
(* it.  Parlia.snapshot returns a pointer into recentSnaps and writes the  *)
(* frequency data of the header at hand into what it points to; the caller *)
(* reads it back later, when it asks who is in turn.  A header without     *)
(* such data leaves what an earlier call has written.  Every child of the  *)
(* block that is verified, finalised or prepared, and every question about *)
(* the block itself, goes through the same snapshot, at any time.          *)
(*                                                                         *)
(* A read or a write of the field is one step here.  The block time, which *)
(* backOffTime derives from a further read, is left out.                   *)
(***************************************************************************)
EXTENDS Naturals

CONSTANTS
    Workers,     \* the goroutines that call the engine
    Validators,
    FreqData,    \* the values of frequency data
    NoData,      \* empty frequency data: the round robin of the snapshot
    Absent,      \* a header that ends before its frequency data
    Parsed,      \* what parseValidatorFrequencies finds in the headers that come
    InTurn,      \* inturnValidator for each frequency data
    Val          \* the validator of this node

Data == FreqData \cup {NoData}

ASSUME CacheAssumption ==
    /\ Absent \notin Data
    /\ Parsed \subseteq Data \cup {Absent}
    /\ InTurn \in [Data -> Validators]
    /\ Val \in Validators

diffInTurn == 2
diffNoTurn == 1

\* The children of the block, by what the calls read in their headers.
Headers == [freq : Data \cup {Absent}, signer : Validators, difficulty : {diffInTurn, diffNoTurn}]

VARIABLES
    frequencyRLP,  \* FrequencyRLP of the cached snapshot
    call,          \* per worker: the step it is at, its header and its answer
    overtaken      \* history: the calls under way since whose beginning another
                   \* call has written into the snapshot

vars == <<frequencyRLP, call, overtaken>>

Idle == [at |-> "idle"]

\* Mutant: the round robin decides.
CalcDifficultyByRound(v) == IF InTurn[NoData] = v THEN diffInTurn ELSE diffNoTurn

\* CalcDifficulty on the cached snapshot.
CalcDifficulty(v) == IF InTurn[frequencyRLP] = v THEN diffInTurn ELSE diffNoTurn

\* Mutant: frequency data is stored once.
PopulateOnce(data) == frequencyRLP' = IF frequencyRLP = NoData /\ data # Absent THEN data ELSE frequencyRLP

\* Parlia.snapshot with an extraHeader in which data is found.
Populate(data) == frequencyRLP' = IF data = Absent THEN frequencyRLP ELSE data

\* A call of w begins; if it writes, it does so under all others.
Begins(w, writes) ==
    /\ call[w] = Idle
    /\ overtaken' = IF writes THEN {u \in Workers : call[u] # Idle} ELSE overtaken

Goes(w, c) == call' = [call EXCEPT ![w] = c]

-------------------------------------------------------------------------------
(* verifySeal and Finalize of a child h *)

VerifySeal(w, h) ==
    /\ Begins(w, h.freq # Absent)
    /\ Populate(h.freq)
    /\ Goes(w, [at |-> "verify", header |-> h])

\* The difficulty must match the turn of the signer.
VerifySealDifficulty(w) ==
    /\ call[w].at = "verify"
    /\ LET h == call[w].header IN
       Goes(w, [at |-> "verified", header |-> h,
                answer |-> h.difficulty = CalcDifficulty(h.signer)])
    /\ UNCHANGED <<frequencyRLP, overtaken>>

Finalize(w, h) ==
    /\ Begins(w, h.freq # Absent)
    /\ h.difficulty # diffInTurn
    /\ Populate(h.freq)
    /\ Goes(w, [at |-> "finalize", header |-> h])

\* The validator to slash for a block out of turn.
FinalizeSpoiled(w) ==
    /\ call[w].at = "finalize"
    /\ Goes(w, [at |-> "finalized", header |-> call[w].header,
                answer |-> InTurn[frequencyRLP]])
    /\ UNCHANGED <<frequencyRLP, overtaken>>

-------------------------------------------------------------------------------
(* Prepare of a child, with the frequency data that the stakes give *)

Prepare(w, data) ==
    /\ Begins(w, TRUE)
    /\ frequencyRLP' = data
    /\ Goes(w, [at |-> "difficulty"])

PrepareDifficulty(w) ==
    /\ call[w].at = "difficulty"
    /\ Goes(w, [at |-> "extra", difficulty |-> CalcDifficulty(Val)])
    /\ UNCHANGED <<frequencyRLP, overtaken>>

PrepareExtra(w) ==
    /\ call[w].at = "extra"
    /\ Goes(w, [at |-> "prepared",
                header |-> [freq |-> frequencyRLP, signer |-> Val,
                            difficulty |-> call[w].difficulty]])
    /\ UNCHANGED <<frequencyRLP, overtaken>>

-------------------------------------------------------------------------------
\* GetJustifiedNumberAndHash, GetFinalizedHeader and others ask for the snapshot
\* of the block with the block's own header, the distribution of the finality
\* reward with that of a much later block, and Finalize of a block in turn, Seal
\* and Delay with that of a child.  They do not ask it who is in turn.
AskAboutBlock(w, data) ==
    /\ Begins(w, data # Absent)
    /\ Populate(data)
    /\ UNCHANGED call

Returns(w) ==
    /\ call[w].at \in {"verified", "finalized", "prepared"}
    /\ Goes(w, Idle)
    /\ overtaken' = overtaken \ {w}
    /\ UNCHANGED frequencyRLP

\* A snapshot that was loaded from disk comes with the data it was stored with.
Init ==
    /\ frequencyRLP \in Data
    /\ overtaken = {}
    /\ call = [w \in Workers |-> Idle]

Next ==
    \E w \in Workers :
        \/ \E h \in Headers : h.freq \in Parsed /\ (VerifySeal(w, h) \/ Finalize(w, h))
        \/ \E data \in Data : Prepare(w, data)
        \/ VerifySealDifficulty(w) \/ FinalizeSpoiled(w)
        \/ PrepareDifficulty(w) \/ PrepareExtra(w)
        \/ \E data \in Parsed : AskAboutBlock(w, data)
        \/ Returns(w)

Spec == Init /\ [][Next]_vars

-------------------------------------------------------------------------------
(* Properties *)

\* The validator in turn by a header's own data, the round robin without any.
OwnTurn(h) == InTurn[IF h.freq = Absent THEN NoData ELSE h.freq]

\* The difficulty of h fits the turn that its own frequency data gives.
FitsTurn(h) == h.difficulty = IF OwnTurn(h) = h.signer THEN diffInTurn ELSE diffNoTurn

\* verifySeal's answer is about the header it was asked about, whatever else
\* went through the snapshot: it accepts a difficulty if and only if it
\* corresponds to the turn of the signer.  The code does not keep this.
VerdictsRight ==
    \A w \in Workers : call[w].at = "verified" => (call[w].answer <=> FitsTurn(call[w].header))

\* The call of w has put its own data into the snapshot, and nobody has touched it since.
Undisturbed(w) == w \notin overtaken /\ call[w].header.freq # Absent

\* What does hold of the difficulty that verifySeal accepts: whatever earlier and
\* unrelated calls have left in the snapshot, the answer is right if the header
\* has frequency data and no other call has written between the beginning and
\* the end of this one.
UndisturbedRight ==
    \A w \in Workers :
        call[w].at = "verified" /\ Undisturbed(w) => (call[w].answer <=> FitsTurn(call[w].header))

\* What a node settles alone is, under the same condition, what every other node
\* will find from the frequency data in the header: the difficulty of a header
\* that Prepare completes, and the validator in turn that Finalize names to be
\* slashed.
UndisturbedAgree ==
    \A w \in Workers :
        /\ call[w].at = "prepared" /\ Undisturbed(w) => FitsTurn(call[w].header)
        /\ call[w].at = "finalized" /\ Undisturbed(w) => call[w].answer = OwnTurn(call[w].header)
===============================================================================
