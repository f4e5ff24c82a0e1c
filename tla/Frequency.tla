------------------------------- MODULE Frequency -------------------------------
(***************************************************************************)
(* The Snake8 choice of the in-turn validator: calcFrequencyRLP turns the  *)
(* stakes of the validators that may seal into frequencies with a floor    *)
(* and normalises them to Precision, one round of the loop per step, and   *)
(* selectValidatorFromFrequencyRLP picks a validator by a target below     *)
(* Precision.  Validators are the numbers that their addresses sort by.    *)
(***************************************************************************)
EXTENDS Integers, FiniteSets, FiniteSetsExt

CONSTANTS
    Validators,          \* the validator set of the snapshot
    Stakes,              \* bound: the amounts that are tried as stakes
    Decimals,            \* 10^18 in the code: the smallest units of a token
    Precision,           \* validatorFrequencyPrecision, 1000
    MinFrequencyFactor,  \* 2
    MaxIterations        \* 10

VARIABLES
    stakes,     \* the delegated amounts that Prepare fetched
    recent,     \* the validators with Snapshot.SignRecently
    pc,         \* "base", "normalize", "done" or "error"
    freq,       \* the Frequency of each candidate
    iteration   \* the round of the normalisation

vars == <<stakes, recent, pc, freq, iteration>>

Candidates == {v \in Validators : stakes[v] # 0 /\ v \notin recent}

Delegated(v) == stakes[v] \div Decimals

TotalDelegated == MapThenSumSet(Delegated, Candidates)

MinFreq == Precision \div (MinFrequencyFactor * Cardinality(Candidates))

AtLeast(n, low) == IF n < low THEN low ELSE n

-------------------------------------------------------------------------------
(* calcFrequencyRLP *)

\* Mutant: the floor is added to the small frequencies.
BaseFrequencyAdded(v) ==
    LET base == (Delegated(v) * Precision) \div TotalDelegated IN
    IF base < MinFreq THEN base + MinFreq ELSE base

\* Steps 2 and 3.
BaseFrequency(v) == AtLeast((Delegated(v) * Precision) \div TotalDelegated, MinFreq)

\* Steps 1 to 3.  With no candidate or no stake there is no frequency data.
Base ==
    /\ pc = "base"
    /\ IF Candidates = {} \/ TotalDelegated = 0
       THEN pc' = "error" /\ UNCHANGED freq
       ELSE pc' = "normalize" /\ freq' = [v \in Candidates |-> BaseFrequency(v)]
    /\ UNCHANGED <<stakes, recent, iteration>>

TotalFreq == MapThenSumSet(LAMBDA v : freq[v], Candidates)

AboveMin == {v \in Candidates : freq[v] > MinFreq}

\* What a round adds to a frequency above the floor: its part of what is
\* missing, or what is too much, rounded down (big.Int.Div).
Adjusted(v) ==
    freq[v] + ((Precision - TotalFreq) * freq[v])
                \div MapThenSumSet(LAMBDA u : freq[u], AboveMin)

\* Mutant: one round is all.
AgainNever == FALSE

\* Is there another round after this one?
Again == iteration < MaxIterations /\ \E v \in AboveMin : Adjusted(v) < MinFreq

\* Mutant: no floor after an adjustment.
NormalizedNoFloor(v) == IF v \in AboveMin THEN Adjusted(v) ELSE freq[v]

Normalized(v) == IF v \in AboveMin THEN AtLeast(Adjusted(v), MinFreq) ELSE freq[v]

\* A round of step 4.
Normalize ==
    /\ pc = "normalize"
    /\ \/ /\ TotalFreq = Precision \/ AboveMin = {}
          /\ pc' = "done"
          /\ UNCHANGED <<freq, iteration>>
       \/ /\ TotalFreq # Precision /\ AboveMin # {}
          /\ freq' = [v \in Candidates |-> Normalized(v)]
          /\ iteration' = iteration + 1
          /\ pc' = IF Again THEN "normalize" ELSE "done"
    /\ UNCHANGED <<stakes, recent>>

-------------------------------------------------------------------------------
(* selectValidatorFromFrequencyRLP, for a target from the hash of the number *)

Cumulative(v) == MapThenSumSet(LAMBDA u : freq[u], {u \in Candidates : u <= v})

Selected(target) ==
    LET hit == {v \in Candidates : target < Cumulative(v)} IN
    IF hit = {} THEN Max(Candidates) ELSE Min(hit)

-------------------------------------------------------------------------------
Init ==
    /\ stakes \in [Validators -> Stakes]
    /\ recent \in SUBSET Validators
    /\ pc = "base"
    /\ freq = <<>>
    /\ iteration = 1

Next == Base \/ Normalize

Spec == Init /\ [][Next]_vars

-------------------------------------------------------------------------------
(* Properties *)

\* How many of the targets select v.
Share(v) == Cardinality({target \in 0 .. Precision - 1 : Selected(target) = v})

\* The floor of step 3 holds where it counts: after all the rounding, at least
\* MinFreq of the targets select each candidate, the last address included,
\* which the selection reaches only with what the others left.
MinimumShare == pc = "done" => \A v \in Candidates : Share(v) >= MinFreq

\* The rounds end with frequencies that lack less than one unit per candidate
\* of Precision and never exceed it: the fallback of the selection to the last
\* candidate is for a rounding error only, and no candidate's frequency lies
\* beyond the last target.  MaxIterations rounds are enough for it.
OnlyRoundingLost ==
    pc = "done" => TotalFreq \in (Precision - Cardinality(Candidates) + 1) .. Precision

\* The floor and the rounds never turn the order of two stakes around: a
\* validator with more stake is not selected with a smaller frequency.
StakeOrderKept ==
    pc = "done" => \A u, v \in Candidates : Delegated(u) <= Delegated(v) => freq[u] <= freq[v]
===============================================================================
