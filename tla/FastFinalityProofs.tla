-------------------------- MODULE FastFinalityProofs --------------------------
(***************************************************************************)
(* Proofs about FastFinality, for every validator set, every set of fewer  *)
(* than a third of faulty validators and every tree of blocks.             *)
(***************************************************************************)
EXTENDS FastFinality, FiniteSetTheorems, TLAPS

USE HeaderAssumption, NilAssumption

\* Each step keeps the state well formed.
LEMMA TypeStep == TypeOK /\ [Next]_vars => TypeOK'
<1> SUFFICES ASSUME TypeOK, [Next]_vars PROVE TypeOK'
  OBVIOUS
<1> USE DEF TypeOK
<1>0. \A h \in Hash : ParentVote(h) \in VoteData
  BY DEF ParentVote, Justified, VoteData
<1>1. ASSUME NEW h \in Hash, NEW a \in {Nil, ParentVote(ParentHash[h])}, VerifyHeader(h, a)
      PROVE TypeOK'
  <2>1. a \in VoteData \cup {Nil}
    BY <1>0, <1>1
  <2>2. UpdateAttestation(attestation[ParentHash[h]], a) \in VoteData \cup {Nil}
    BY <2>1 DEF UpdateAttestation, VoteData
  <2> QED
    BY <1>1, <2>2 DEF VerifyHeader
<1>2. ASSUME NEW v \in Validators, NEW h \in Hash, CastVote(v, h)
      PROVE TypeOK'
  BY <1>0, <1>2 DEF CastVote
<1>3. ASSUME NEW h \in Hash, SetHead(h)
      PROVE TypeOK'
  BY <1>3 DEF SetHead
<1>4. CASE UNCHANGED vars
  BY <1>4 DEF vars
<1> QED
  BY <1>1, <1>2, <1>3, <1>4 DEF Next

\* Type correctness: the verified blocks, their snapshots, the votes and the
\* head stay well formed under header verification, voting and head changes.
THEOREM TypeCorrect == Spec => []TypeOK
<1>1. Init => TypeOK
  BY DEF Init, TypeOK
<1> QED
  BY <1>1, TypeStep, PTL DEF Spec

-------------------------------------------------------------------------------
(* Quorums *)

\* Two supermajorities share a validator that votes by the rules: 2/3 and 2/3
\* overlap in a third, and fewer than a third are faulty.
LEMMA SupermajoritiesIntersect ==
    ASSUME NEW d, NEW e, Supermajority(d), Supermajority(e)
    PROVE  \E v \in Validators : /\ [voter |-> v, data |-> d] \in votes
                                /\ [voter |-> v, data |-> e] \in votes
<1> DEFINE D == {v \in Validators : Signed(v, d)}
           E == {v \in Validators : Signed(v, e)}
           n == Cardinality(Validators)
<1>1. /\ IsFiniteSet(D) /\ IsFiniteSet(E) /\ IsFiniteSet(D \cap E) /\ IsFiniteSet(D \cup E)
      /\ Cardinality(D \cup E) <= n
      /\ Cardinality(D \cup E) = Cardinality(D) + Cardinality(E) - Cardinality(D \cap E)
  <2>1. IsFiniteSet(D) /\ IsFiniteSet(E) /\ IsFiniteSet(D \cap E)
    BY FaultyAssumption, FS_Subset
  <2>2. IsFiniteSet(D \cup E) /\ Cardinality(D \cup E) <= n
    BY FaultyAssumption, FS_Subset
  <2> HIDE DEF D, E
  <2> QED
    BY <2>1, <2>2, FS_Union
<1>2. /\ n \in Nat /\ Cardinality(D) \in Nat /\ Cardinality(E) \in Nat
      /\ Cardinality(D \cap E) \in Nat /\ Cardinality(Faulty) \in Nat
  BY <1>1, FaultyAssumption, FS_Subset, FS_CardinalityType, ZenonT(30)
<1>3. Cardinality(D) >= Quorum /\ Cardinality(E) >= Quorum
  BY DEF Supermajority
<1>4. Quorum \in Nat /\ 3 * Quorum >= 2 * n
  BY <1>2 DEF Quorum, CeilDiv
<1>5. Cardinality(D \cap E) > Cardinality(Faulty)
  <2> HIDE DEF D, E, n
  <2> QED
    BY <1>1, <1>2, <1>3, <1>4, FaultyAssumption DEF n
<1>6. PICK v \in D \cap E : v \notin Faulty
  <2>1. SUFFICES ASSUME D \cap E \subseteq Faulty PROVE FALSE
    OBVIOUS
  <2>2. IsFiniteSet(Faulty)
    BY FaultyAssumption, FS_Subset
  <2>3. Cardinality(D \cap E) <= Cardinality(Faulty)
    BY <2>1, <2>2, FS_Subset
  <2> QED
    BY <2>3, <1>2, <1>5
<1> QED
  BY <1>6 DEF Signed

-------------------------------------------------------------------------------
(* The inductive invariant *)

\* The genesis block alone satisfies the invariant.
LEMMA InvInit == Init => Inv
  BY DEF Init, Inv, TypeOK, BranchInv, VoteInv, AttestationInv, Justified, Finalized,
         Justifiable, Finalizable

\* More votes and more blocks keep what is justifiable and finalizable: the
\* snapshots of old blocks do not change.
LEMMA SupermajorityStable ==
    ASSUME votes \subseteq votes', NEW d, Supermajority(d)
    PROVE  Supermajority(d)'
<1> DEFINE D == {v \in Validators : Signed(v, d)}
           E == {v \in Validators : Signed(v, d)'}
<1>1. D \subseteq E
  BY DEF Signed
<1>2. IsFiniteSet(E)
  BY FaultyAssumption, FS_Subset
<1>3. Cardinality(D) <= Cardinality(E)
  BY <1>1, <1>2, FS_Subset
<1>4. Cardinality(D) \in Nat /\ Cardinality(E) \in Nat
  BY <1>1, <1>2, FS_Subset, FS_CardinalityType
<1>5. Cardinality(Validators) \in Nat
  BY FaultyAssumption, FS_CardinalityType
<1>6. Quorum \in Nat
  BY <1>5 DEF Quorum, CeilDiv
<1>7. Cardinality(D) >= Quorum
  BY DEF Supermajority
<1>8. Cardinality(E) >= Quorum
  <2> HIDE DEF D, E
  <2> QED
    BY <1>3, <1>4, <1>6, <1>7
<1> QED
  BY <1>8 DEF Supermajority, Quorum

\* Votes are never withdrawn: what may be justified or finalized stays so.
LEMMA JustifiableStable ==
    ASSUME blocks \subseteq blocks', votes \subseteq votes',
           \A b \in blocks : attestation'[b] = attestation[b],
           NEW x \in blocks
    PROVE  /\ ParentVote(x)' = ParentVote(x)
           /\ Justifiable(x) => Justifiable(x)'
           /\ Finalizable(x) => Finalizable(x)'
<1>1. \A b \in blocks : ParentVote(b)' = ParentVote(b) /\ Justified(b)' = Justified(b)
  BY DEF ParentVote, Justified
<1>2. ASSUME NEW b \in blocks, Supermajority(ParentVote(b))
      PROVE  Supermajority(ParentVote(b))'
  <2> DEFINE d == ParentVote(b)
  <2>1. Supermajority(d)
    BY <1>2
  <2> HIDE DEF d
  <2>2. ASSUME NEW e, e = d PROVE Supermajority(e)'
    BY <2>1, <2>2, SupermajorityStable
  <2> QED
    BY <2>2, <1>1 DEF d
<1> QED
  BY <1>1, <1>2 DEF Justifiable, Finalizable

\* A verified header keeps the invariant: its snapshot calls justified the
\* attested parent and finalized the block below it, or what the parent's did.
LEMMA VerifyHeaderStep ==
    ASSUME Inv, NEW h \in Hash, NEW a \in {Nil, ParentVote(ParentHash[h])}, VerifyHeader(h, a)
    PROVE  BranchInv' /\ VoteInv' /\ AttestationInv'
<1> DEFINE p == ParentHash[h]
<1>0. /\ p \in blocks /\ h \notin blocks /\ Number[h] = Number[p] + 1
      /\ blocks' = blocks \cup {h} /\ votes' = votes
      /\ branch' = [branch EXCEPT ![h] = branch[p] \cup {h}]
      /\ attestation' = [attestation EXCEPT ![h] = UpdateAttestation(attestation[p], a)]
      /\ VerifyVoteAttestation(p, a)
  BY DEF VerifyHeader
<1>1. /\ TypeOK /\ BranchInv /\ VoteInv /\ AttestationInv
      /\ p \in Hash /\ Number[p] \in Nat /\ Number[h] \in Nat
  BY DEF Inv
<1>2. /\ \A b \in blocks : branch'[b] = branch[b] /\ attestation'[b] = attestation[b]
      /\ branch'[h] = branch[p] \cup {h}
      /\ attestation'[h] = UpdateAttestation(attestation[p], a)
  BY <1>0, <1>1, Zenon DEF TypeOK
<1> HIDE DEF p
<1>3. BranchInv'
  <2>1. ASSUME NEW b \in blocks
        PROVE  /\ b # Genesis => Number[b] > 0
               /\ b \in branch'[b] /\ Genesis \in branch'[b] /\ branch'[b] \subseteq blocks'
               /\ \A x \in branch'[b] : branch'[x] \subseteq branch'[b] /\ Number[x] <= Number[b]
    BY <1>0, <1>1, <1>2 DEF BranchInv
  <2>2. /\ Number[h] > 0
        /\ h \in branch'[h] /\ Genesis \in branch'[h] /\ branch'[h] \subseteq blocks'
    BY <1>0, <1>1, <1>2 DEF BranchInv
  <2>3. ASSUME NEW x \in branch'[h]
        PROVE  branch'[x] \subseteq branch'[h] /\ Number[x] <= Number[h]
    <3>1. CASE x = h
      BY <3>1, <1>1
    <3>2. CASE x \in branch[p]
      <4>1. x \in blocks /\ branch[x] \subseteq branch[p] /\ Number[x] <= Number[p]
        BY <3>2, <1>0, <1>1 DEF BranchInv
      <4>2. Number[x] \in Nat
        BY <4>1, <1>1 DEF TypeOK
      <4> QED
        BY <4>1, <4>2, <1>0, <1>1, <1>2
    <3> QED
      BY <2>3, <3>1, <3>2, <1>2
  <2> QED
    BY <2>1, <2>2, <2>3, <1>0, <1>1, Zenon DEF BranchInv
<1>4. \A x \in blocks : /\ ParentVote(x)' = ParentVote(x)
                        /\ Justified(x)' = Justified(x) /\ Finalized(x)' = Finalized(x)
                        /\ Justifiable(x) => Justifiable(x)'
                        /\ Finalizable(x) => Finalizable(x)'
  <2> TAKE x \in blocks
  <2>1. Justified(x)' = Justified(x) /\ Finalized(x)' = Finalized(x)
    BY <1>2, Zenon DEF Justified, Finalized
  <2> QED
    BY <2>1, <1>0, <1>2, JustifiableStable
<1>5. VoteInv'
  BY <1>0, <1>1, <1>4 DEF VoteInv
<1>6. /\ Justified(p) \in branch[p] /\ Finalized(p) \in branch[p]
      /\ Justified(p) \in blocks /\ Finalized(p) \in blocks
      /\ Justifiable(Justified(p)) /\ Finalizable(Finalized(p))
      /\ Number[Finalized(p)] <= Number[Justified(p)]
      /\ Number[Justified(p)] <= Number[p]
      /\ Number[Finalized(p)] \in Nat /\ Number[Justified(p)] \in Nat
      /\ p \in branch[p]
  BY <1>0, <1>1 DEF AttestationInv, BranchInv, TypeOK
<1>7. \/ Justified(h)' = Justified(p) /\ Finalized(h)' = Finalized(p)
      \/ Justified(h)' = p /\ Finalized(h)' = Finalized(p) /\ Supermajority(ParentVote(p))
      \/ /\ Justified(h)' = p /\ Finalized(h)' = Justified(p) /\ Supermajority(ParentVote(p))
         /\ Justified(p) # Genesis => Number[Justified(p)] + 1 = Number[p]
  <2>1. CASE a = Nil
    BY <2>1, <1>2, ZenonT(30) DEF UpdateAttestation, Justified, Finalized
  <2>2. CASE a # Nil
    <3>1. a = ParentVote(p) /\ Supermajority(ParentVote(p))
      BY <2>2, <1>0 DEF VerifyVoteAttestation
    <3>2. a.source = Justified(p) /\ a.target = p
      BY <3>1, Zenon DEF ParentVote
    <3>3. CASE attestation[p] # Nil /\ Number[a.source] + 1 # Number[a.target]
      <4>1. attestation'[h] = [source |-> attestation[p].source, target |-> a.target]
        BY <3>3, <2>2, <1>2, Zenon DEF UpdateAttestation
      <4>2. attestation'[h] # Nil
        BY <4>1, <3>2, <3>3, <1>0, <1>1 DEF TypeOK, VoteData
      <4> QED
        BY <4>1, <4>2, <3>1, <3>2, <3>3, SMTT(20) DEF Justified, Finalized
    <3>4. CASE ~(attestation[p] # Nil /\ Number[a.source] + 1 # Number[a.target])
      <4>1. attestation'[h] = a
        BY <3>4, <2>2, <1>2, Zenon DEF UpdateAttestation
      <4>2. Justified(h)' = p /\ Finalized(h)' = Justified(p)
        BY <4>1, <2>2, <3>2 DEF Justified, Finalized
      <4>3. attestation[p] = Nil => Justified(p) = Genesis
        BY DEF Justified
      <4> QED
        BY <4>2, <4>3, <3>1, <3>2, <3>4
    <3> QED
      BY <3>3, <3>4
  <2> QED
    BY <2>1, <2>2
<1>8. Supermajority(ParentVote(p)) => Justifiable(p)'
  BY <1>0, <1>4, Zenon DEF Justifiable
<1>9. /\ Justified(h)' \in branch'[h] /\ Finalized(h)' \in branch'[h]
      /\ Justifiable(Justified(h))' /\ Finalizable(Finalized(h))'
      /\ Number[Finalized(h)'] <= Number[Justified(h)']
      /\ Number[Justified(h)'] < Number[h]
  <2>1. CASE Justified(h)' = Justified(p) /\ Finalized(h)' = Finalized(p)
    <3>1. Number[Justified(p)] < Number[h]
      BY <1>0, <1>1, <1>6
    <3> QED
      BY <3>1, <2>1, <1>2, <1>4, <1>6, ZenonT(30)
  <2>2. CASE Justified(h)' = p /\ Finalized(h)' = Finalized(p) /\ Supermajority(ParentVote(p))
    <3>1. Number[Finalized(p)] <= Number[p] /\ Number[p] < Number[h]
      BY <1>0, <1>1, <1>6
    <3> QED
      BY <3>1, <2>2, <1>2, <1>4, <1>6, <1>8, ZenonT(30)
  <2>3. CASE /\ Justified(h)' = p /\ Finalized(h)' = Justified(p) /\ Supermajority(ParentVote(p))
             /\ Justified(p) # Genesis => Number[Justified(p)] + 1 = Number[p]
    <3>1. Finalizable(Justified(p))
      BY <2>3, <1>0, <1>6, ZenonT(30) DEF Finalizable, Justifiable
    <3>2. Number[p] < Number[h]
      BY <1>0, <1>1
    <3> QED
      BY <3>1, <3>2, <2>3, <1>2, <1>4, <1>6, <1>8, ZenonT(30)
  <2> QED
    BY <1>7, <2>1, <2>2, <2>3, Zenon
<1>10. AttestationInv'
  BY <1>0, <1>1, <1>2, <1>4, <1>9, SMTT(20) DEF AttestationInv, BranchInv, Justifiable, Finalizable
<1> QED
  BY <1>3, <1>5, <1>10

\* A vote that UnderRules allows conflicts with no earlier vote of its voter.
LEMMA CastVoteStep ==
    ASSUME Inv, NEW v \in Validators, NEW h \in Hash, CastVote(v, h)
    PROVE  BranchInv' /\ VoteInv' /\ AttestationInv'
<1> DEFINE new == [voter |-> v, data |-> ParentVote(h)]
<1>0. /\ v \notin Faulty /\ h \in blocks /\ UnderRules(v, ParentVote(h))
      /\ votes' = votes \cup {new}
      /\ UNCHANGED <<blocks, branch, attestation>>
  BY DEF CastVote
<1>1. TypeOK /\ BranchInv /\ VoteInv /\ AttestationInv
  BY DEF Inv
<1>2. new.voter = v /\ new.data = ParentVote(h) /\ new.data.target = h
  BY DEF ParentVote
<1>3. BranchInv'
  BY <1>0, <1>1 DEF BranchInv
<1>4. \A x \in blocks : /\ ParentVote(x)' = ParentVote(x)
                        /\ Justified(x)' = Justified(x) /\ Finalized(x)' = Finalized(x)
                        /\ Justifiable(x) => Justifiable(x)'
                        /\ Finalizable(x) => Finalizable(x)'
  <2> TAKE x \in blocks
  <2>1. Justified(x)' = Justified(x) /\ Finalized(x)' = Finalized(x)
    BY <1>0, Zenon DEF Justified, Finalized
  <2> QED
    BY <2>1, <1>0, JustifiableStable
<1> HIDE DEF new
<1>5. VoteInv'
  <2>1. \A w \in votes' : /\ w.voter \notin Faulty
                          /\ w.data.target \in blocks'
                          /\ w.data = ParentVote(w.data.target)'
    BY <1>0, <1>1, <1>2, <1>4, Zenon DEF VoteInv
  <2>2. \A w1, w2 \in votes' :
          w1.voter = w2.voter /\ w1 # w2 => ~Conflict(SpanOf(w1.data), SpanOf(w2.data))
    <3>1. \A w \in votes : w.voter = v => /\ ~Conflict(SpanOf(w.data), SpanOf(new.data))
                                         /\ ~Conflict(SpanOf(new.data), SpanOf(w.data))
      BY <1>0, <1>2, ZenonT(30) DEF UnderRules, Conflict, SameHeight
    <3> QED
      BY <3>1, <1>0, <1>1, <1>2, ZenonT(30) DEF VoteInv
  <2> QED
    BY <2>1, <2>2 DEF VoteInv, SpanOf
<1>6. AttestationInv'
  BY <1>0, <1>1, <1>4 DEF AttestationInv, BranchInv, Justifiable, Finalizable
<1> QED
  BY <1>3, <1>5, <1>6, Zenon

\* The invariant is inductive.
LEMMA InvStep == Inv /\ [Next]_vars => Inv'
<1> SUFFICES ASSUME Inv, [Next]_vars PROVE Inv'
  OBVIOUS
<1>1. TypeOK'
  BY TypeStep DEF Inv
<1>2. ASSUME NEW h \in Hash, NEW a \in {Nil, ParentVote(ParentHash[h])}, VerifyHeader(h, a)
      PROVE  BranchInv' /\ VoteInv' /\ AttestationInv'
  BY <1>2, VerifyHeaderStep
<1>3. ASSUME NEW v \in Validators, NEW h \in Hash, CastVote(v, h)
      PROVE  BranchInv' /\ VoteInv' /\ AttestationInv'
  BY <1>3, CastVoteStep
<1>4. ASSUME UNCHANGED <<blocks, branch, attestation, votes>>
      PROVE  BranchInv' /\ VoteInv' /\ AttestationInv'
  <2>1. \A x \in blocks : /\ ParentVote(x)' = ParentVote(x)
                          /\ Justified(x)' = Justified(x) /\ Finalized(x)' = Finalized(x)
                          /\ Justifiable(x) => Justifiable(x)'
                          /\ Finalizable(x) => Finalizable(x)'
    BY <1>4, JustifiableStable, Zenon DEF Justified, Finalized
  <2>2. BranchInv'
    BY <1>4 DEF Inv, BranchInv
  <2>3. VoteInv'
    BY <1>4, <2>1, ZenonT(30) DEF Inv, VoteInv
  <2>4. AttestationInv'
    BY <1>4, <2>1 DEF Inv, AttestationInv, BranchInv, Justifiable, Finalizable
  <2> QED
    BY <2>2, <2>3, <2>4, Zenon
<1>5. ASSUME NEW h \in Hash, SetHead(h)
      PROVE  BranchInv' /\ VoteInv' /\ AttestationInv'
  <2>1. UNCHANGED <<blocks, branch, attestation, votes>>
    BY <1>5 DEF SetHead
  <2> QED
    BY <2>1, <1>4
<1>6. ASSUME UNCHANGED vars
      PROVE  BranchInv' /\ VoteInv' /\ AttestationInv'
  BY <1>4, <1>6 DEF vars
<1>7. BranchInv' /\ VoteInv' /\ AttestationInv'
  BY <1>2, <1>3, <1>5, <1>6 DEF Next
<1> QED
  BY <1>1, <1>7 DEF Inv

\* Every reachable state satisfies the invariant.
LEMMA Invariance == Spec => []Inv
  BY InvInit, InvStep, PTL DEF Spec

-------------------------------------------------------------------------------
(* Finality *)

\* A set of numbers that is not empty has a least element: the sets 0..n with
\* n in it have one that no other is a strict subset of.
LEMMA LeastNumber ==
    ASSUME NEW T \in SUBSET Nat, T # {}
    PROVE  \E x \in T : \A y \in T : x <= y
<1> DEFINE Segments == {0 .. n : n \in T}
<1>1. \A n \in T : 0 .. n \in FiniteSubsetsOf(Nat)
  <2> TAKE n \in T
  <2>1. IsFiniteSet(0 .. n)
    BY FS_Interval
  <2> QED
    BY <2>1 DEF FiniteSubsetsOf
<1>2. Segments \subseteq FiniteSubsetsOf(Nat) /\ Segments # {}
  BY <1>1, ZenonT(30)
<1>3. IsWellFoundedOn(StrictSubsetOrdering(Nat), FiniteSubsetsOf(Nat))
  BY FS_StrictSubsetOrderingWellFounded
<1>4. PICK X \in Segments : \A Y \in Segments : <<Y, X>> \notin StrictSubsetOrdering(Nat)
  <2> HIDE DEF Segments
  <2> QED
    BY <1>2, <1>3, WFMin, Zenon
<1>5. PICK x \in T : X = 0 .. x
  BY <1>4
<1>6. ASSUME NEW y \in T, y < x PROVE FALSE
  <2>1. 0 .. y \subseteq 0 .. x /\ x \in 0 .. x /\ x \notin 0 .. y
    BY <1>6
  <2>2. <<0 .. y, X>> \in StrictSubsetOrdering(Nat)
    BY <2>1, <1>5 DEF StrictSubsetOrdering
  <2> QED
    BY <2>2, <1>4, Zenon
<1> QED
  BY <1>5, <1>6

\* Two blocks of one number that votes suffice to justify are one block: a
\* validator by the rules voted for both (Rule 1).
LEMMA JustifiableUnique ==
    ASSUME Inv, NEW x \in blocks, NEW y \in blocks, Number[x] = Number[y],
           Supermajority(ParentVote(x)), Supermajority(ParentVote(y))
    PROVE  x = y
<1>1. PICK v \in Validators : /\ [voter |-> v, data |-> ParentVote(x)] \in votes
                              /\ [voter |-> v, data |-> ParentVote(y)] \in votes
  BY SupermajoritiesIntersect
<1> DEFINE w1 == [voter |-> v, data |-> ParentVote(x)]
           w2 == [voter |-> v, data |-> ParentVote(y)]
<1>2. w1.voter = w2.voter /\ w1.data.target = x /\ w2.data.target = y
  BY Zenon DEF ParentVote
<1>3. Conflict(SpanOf(w1.data), SpanOf(w2.data))
  BY <1>2 DEF Conflict, SameHeight, SpanOf
<1>4. w1 = w2
  <2> HIDE DEF w1, w2
  <2> QED
    BY <1>1, <1>2, <1>3, Zenon DEF Inv, VoteInv, w1, w2
<1> QED
  BY <1>2, <1>4

\* Votes to justify t with source x leave no votes to justify a higher y with a
\* source below x: a validator by the rules would surround its vote (Rule 2).
LEMMA NoSurround ==
    ASSUME Inv, NEW t \in blocks, NEW y \in blocks, Number[t] < Number[y],
           Number[Justified(y)] < Number[Justified(t)],
           Supermajority(ParentVote(t)), Supermajority(ParentVote(y))
    PROVE  FALSE
<1>1. PICK v \in Validators : /\ [voter |-> v, data |-> ParentVote(t)] \in votes
                              /\ [voter |-> v, data |-> ParentVote(y)] \in votes
  BY SupermajoritiesIntersect
<1> DEFINE w1 == [voter |-> v, data |-> ParentVote(t)]
           w2 == [voter |-> v, data |-> ParentVote(y)]
<1>2. /\ w1.voter = w2.voter
      /\ w1.data.target = t /\ w2.data.target = y
      /\ w1.data.source = Justified(t) /\ w2.data.source = Justified(y)
  BY ZenonT(30) DEF ParentVote
<1>3. Conflict(SpanOf(w1.data), SpanOf(w2.data))
  BY <1>2, Zenon DEF Conflict, Surrounds, SpanOf
<1>4. Number[t] \in Nat /\ Number[y] \in Nat
  BY Zenon DEF Inv, TypeOK
<1>5. w1 # w2
  BY <1>2, <1>4, SMTT(20)
<1> QED
  <2> HIDE DEF w1, w2
  <2> QED
    BY <1>1, <1>2, <1>3, <1>5 DEF Inv, VoteInv, w1, w2

\* The lock, from the invariant: a lowest justifiable block that is not below
\* the finalizable x and does not descend from it leads to a contradiction.
LEMMA InvImpliesLock == Inv => FinalityLock
<1> SUFFICES ASSUME Inv, NEW x \in blocks, Finalizable(x), x # Genesis,
                    NEW z \in blocks, Justifiable(z), Number[z] >= Number[x],
                    x \notin branch[z]
             PROVE  FALSE
  BY DEF Inv, BranchInv, FinalityLock
<1> DEFINE Bad == {y \in blocks : /\ Justifiable(y)
                                  /\ Number[y] >= Number[x]
                                  /\ x \notin branch[y]}
           Heights == {Number[y] : y \in Bad}
<1>1. \A b \in blocks : b \in Hash /\ Number[b] \in Nat
  BY DEF Inv, TypeOK
<1>2. Heights \in SUBSET Nat /\ Heights # {}
  BY <1>1
<1>3. PICK n \in Heights : \A m \in Heights : n <= m
  <2> HIDE DEF Heights
  <2> QED
    BY <1>2, LeastNumber
<1>4. PICK y \in Bad : \A b \in Bad : Number[y] <= Number[b]
  BY <1>3, SMTT(20)
<1>5. PICK t \in blocks : /\ Number[t] = Number[x] + 1
                          /\ Justified(t) = x
                          /\ Supermajority(ParentVote(t))
  BY DEF Finalizable
<1>6. Supermajority(ParentVote(x))
  BY Zenon DEF Finalizable
<1>7. y # Genesis /\ Supermajority(ParentVote(y))
  BY <1>1, <1>4 DEF Inv, BranchInv, Justifiable
<1>8. /\ y \in blocks /\ x \notin branch[y] /\ Number[y] >= Number[x]
      /\ Number[x] \in Nat /\ Number[y] \in Nat
  BY <1>1, <1>4, Zenon
<1>9. CASE Number[y] = Number[x]
  BY <1>6, <1>7, <1>8, <1>9, JustifiableUnique, Zenon DEF Inv, BranchInv
<1>10. CASE Number[y] = Number[x] + 1
  <2>1. y = t
    BY <1>5, <1>7, <1>8, <1>10, JustifiableUnique, Zenon
  <2> QED
    BY <2>1, <1>5, <1>8, ZenonT(30) DEF Inv, AttestationInv
<1>11. CASE Number[y] > Number[x] + 1
  <2> DEFINE s == Justified(y)
  <2>1. /\ s \in branch[y] /\ s \in blocks /\ Justifiable(s)
        /\ Number[s] \in Nat /\ branch[s] \subseteq branch[y]
    BY <1>1, <1>8, Zenon DEF Inv, AttestationInv, BranchInv
  <2>2. CASE Number[s] < Number[x]
    BY <2>2, <1>5, <1>7, <1>8, <1>11, NoSurround, Zenon
  <2>3. CASE Number[s] >= Number[x]
    <3>1. s \in Bad
      BY <2>1, <2>3, <1>8
    <3>2. Number[y] <= Number[s]
      BY <3>1, <1>4, Zenon
    <3>3. Number[s] < Number[y]
      BY <1>7, <1>8 DEF Inv, AttestationInv
    <3> QED
      BY <3>2, <3>3, <2>1, <1>8, SMTT(20)
  <2> QED
    BY <2>1, <2>2, <2>3, <1>8, SMTT(20)
<1> QED
  BY <1>8, <1>9, <1>10, <1>11, SMTT(20)

\* Once the votes suffice to finalize a block, no block beside its branch that
\* is not lower can ever be justified.
THEOREM FinalityLockHolds == Spec => []FinalityLock
  BY Invariance, InvImpliesLock, PTL

\* At most one block of each number is ever justified by a snapshot.
THEOREM OneJustified == Spec => []OneJustifiedPerNumber
<1>1. Inv => OneJustifiedPerNumber
  <2> SUFFICES ASSUME Inv, NEW a \in blocks, NEW b \in blocks,
                      Number[Justified(a)] = Number[Justified(b)]
               PROVE  Justified(a) = Justified(b)
    BY Zenon DEF OneJustifiedPerNumber
  <2>1. /\ Justified(a) \in blocks /\ Justifiable(Justified(a))
        /\ Justified(b) \in blocks /\ Justifiable(Justified(b))
    BY DEF Inv, AttestationInv, BranchInv
  <2>2. \A x \in blocks : x # Genesis => Number[x] > 0
    BY DEF Inv, BranchInv
  <2>3. CASE Justified(a) = Genesis \/ Justified(b) = Genesis
    BY <2>1, <2>2, <2>3
  <2>4. CASE Justified(a) # Genesis /\ Justified(b) # Genesis
    BY <2>1, <2>4, JustifiableUnique, Zenon DEF Justifiable
  <2> QED
    BY <2>3, <2>4
<1> QED
  BY <1>1, Invariance, PTL

\* Finality: no two branches, on whatever nodes, finalize conflicting blocks.
THEOREM FinalizedAgree == Spec => []FinalizedAgreement
<1>1. Inv => FinalizedAgreement
  <2> SUFFICES ASSUME Inv, NEW a \in blocks, NEW b \in blocks
               PROVE  Compatible(Finalized(a), Finalized(b))
    BY DEF FinalizedAgreement
  <2> DEFINE x == Finalized(a)
             y == Finalized(b)
  <2>1. /\ x \in blocks /\ Finalizable(x) /\ Justifiable(x) /\ Number[x] \in Nat
        /\ y \in blocks /\ Finalizable(y) /\ Justifiable(y) /\ Number[y] \in Nat
    BY Zenon DEF Inv, TypeOK, AttestationInv, BranchInv, Finalizable, Justifiable
  <2>2. FinalityLock
    BY InvImpliesLock, Zenon
  <2> HIDE DEF x, y
  <2>3. Number[x] <= Number[y] => Compatible(x, y)
    BY <2>1, <2>2, Zenon DEF FinalityLock, Compatible
  <2>4. Number[y] <= Number[x] => Compatible(x, y)
    BY <2>1, <2>2 DEF FinalityLock, Compatible
  <2> QED
    BY <2>1, <2>3, <2>4 DEF x, y
<1> QED
  BY <1>1, Invariance, PTL

\* No reorganisation of a node drops the block it reported as finalized: the
\* fork choice never moves to a lower justified block, and every justified
\* block that is not lower descends from the finalized one.
THEOREM NeverReverted == Spec => FinalizedNeverReverted
<1>1. ASSUME Inv, [Next]_vars PROVE [Finalized(head) \in branch'[head']]_vars
  <2>1. /\ head \in blocks /\ \A b \in blocks : b \in Hash /\ Number[b] \in Nat
    BY <1>1, Zenon DEF Inv, TypeOK
  <2>2. Finalized(head) \in branch[head]
    BY <1>1, <2>1, Zenon DEF Inv, AttestationInv
  <2>3. ASSUME NEW h \in Hash, SetHead(h)
        PROVE  Finalized(head) \in branch'[head']
    <3>1. /\ h \in blocks /\ head' = h /\ branch' = branch
          /\ Number[Justified(h)] >= Number[Justified(head)]
      <4>1. h \in blocks /\ head' = h /\ branch' = branch
        BY <2>3 DEF SetHead
      <4>2. Justified(h) \in blocks /\ Justified(head) \in blocks
        BY <1>1, <2>1, <4>1, Zenon DEF Inv, AttestationInv, BranchInv
      <4> QED
        BY <4>1, <4>2, <2>1, <2>3 DEF SetHead, ReorgNeededWithFastFinality
    <3>2. /\ Justified(h) \in branch[h] /\ branch[Justified(h)] \subseteq branch[h]
          /\ Justified(h) \in blocks /\ Justifiable(Justified(h))
          /\ Finalized(head) \in blocks /\ Finalizable(Finalized(head))
          /\ Justified(head) \in blocks
          /\ Number[Finalized(head)] <= Number[Justified(head)]
      BY <1>1, <2>1, <3>1, Zenon DEF Inv, AttestationInv, BranchInv
    <3>3. Number[Justified(h)] >= Number[Finalized(head)]
      BY <2>1, <3>1, <3>2
    <3> QED
      BY <1>1, <3>1, <3>2, <3>3, InvImpliesLock, Zenon DEF FinalityLock
  <2>4. ASSUME NEW h \in Hash, NEW a \in {Nil, ParentVote(ParentHash[h])}, VerifyHeader(h, a)
        PROVE  Finalized(head) \in branch'[head']
    BY <1>1, <2>1, <2>2, <2>4, Zenon DEF VerifyHeader, Inv, TypeOK
  <2>5. ASSUME NEW v \in Validators, NEW h \in Hash, CastVote(v, h)
        PROVE  Finalized(head) \in branch'[head']
    BY <2>2, <2>5 DEF CastVote
  <2> QED
    BY <1>1, <2>3, <2>4, <2>5 DEF Next
<1> QED
  BY <1>1, Invariance, PTL DEF Spec, FinalizedNeverReverted
===============================================================================
