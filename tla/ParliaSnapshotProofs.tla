------------------------- MODULE ParliaSnapshotProofs -------------------------
(***************************************************************************)
(* Proofs about ParliaSnapshot, for every family of validator sets, every  *)
(* set of turn lengths, every epoch length that is longer than the window, *)
(* and with each generation of the rules, the fork to Snake8 included.     *)
(***************************************************************************)
EXTENDS ParliaSnapshot, FiniteSetTheorems, TLAPS

-------------------------------------------------------------------------------
(* Arithmetic *)

\* Counting one further either starts the next epoch or stays in this one.
LEMMA NextInEpoch ==
    ASSUME NEW a \in Nat, NEW e \in Nat \ {0}
    PROVE  \/ (a + 1) % e = 0 /\ (a + 1) \div e = a \div e + 1
           \/ (a + 1) % e = (a % e) + 1 /\ (a + 1) \div e = a \div e
  BY SMTT(30)

\* The quotient and the remainder of a block number by the epoch length.
LEMMA DivAndMod ==
    ASSUME NEW a \in Nat, NEW e \in Nat \ {0}
    PROVE  a \div e \in Nat /\ a \div e <= a /\ a % e \in 0 .. e - 1
  BY SMTT(30)

\* The window is never negative, and with turns of one block it is n \div 2.
LEMMA CheckLenType ==
    ASSUME NEW n \in Nat, NEW t \in Nat \ {0}
    PROVE  /\ MinerHistoryCheckLen(n, t) \in Nat
           /\ t = 1 => MinerHistoryCheckLen(n, t) = n \div 2
<1>1. n \div 2 \in Nat
  OBVIOUS
<1>2. ASSUME NEW m \in Nat PROVE (m + 1) * t - 1 \in Nat
  BY SMTT(30)
<1> QED
  BY <1>1, <1>2 DEF MinerHistoryCheckLen

\* Two blocks at the same place of their turns that are less than n turns apart
\* are not turns of the same of n validators.
LEMMA TurnsApart ==
    ASSUME NEW a \in Nat, NEW b \in Nat, a < b, NEW t \in Nat \ {0}, NEW n \in Nat \ {0},
           NEW m \in Nat, m < n, b - a < (m + 1) * t, a % t = b % t
    PROVE  (a \div t) % n # (b \div t) % n
<1> DEFINE x == a \div t
           y == b \div t
           r == a % t
<1>1. ASSUME NEW c \in Nat, NEW d \in Nat \ {0}
      PROVE  c \div d \in Nat /\ c % d \in Nat /\ c = d * (c \div d) + (c % d)
  BY SMTT(30)
<1>2. ASSUME NEW d \in Nat \ {0}, NEW i \in Int, NEW j \in Int, i >= j
      PROVE  d * i >= d * j /\ d * i \in Int /\ d * j \in Int
  BY <1>2, SMTT(30)
<1>3. /\ x \in Nat /\ y \in Nat /\ r \in Nat
      /\ a = t * x + r /\ b = t * y + r
  BY <1>1, Zenon
<1> HIDE DEF x, y, r
<1>4. ASSUME NEW d \in Nat \ {0}, NEW i \in Int, NEW j \in Int
      PROVE  d * i - d * j = d * (i - j)
  BY SMTT(30)
<1>5. b - a = t * (y - x)
  <2>1. t * x \in Int /\ t * y \in Int
    BY <1>2, <1>3
  <2> QED
    BY <1>3, <1>4, <2>1
<1>6. y - x \in 1 .. m
  <2>1. y - x >= 1
    <3>1. CASE 0 >= y - x
      <4>1. t * 0 >= t * (y - x) /\ t * 0 = 0
        BY <1>2, <1>3, <3>1
      <4> QED
        BY <1>5, <4>1
    <3> QED
      BY <1>3, <3>1
  <2>2. y - x <= m
    <3>1. CASE y - x >= m + 1
      <4>1. t * (y - x) >= t * (m + 1) /\ t * (m + 1) \in Int
        BY <1>2, <1>3, <3>1
      <4>2. t * (m + 1) = (m + 1) * t
        BY SMTT(30)
      <4> QED
        BY <1>5, <4>1, <4>2
    <3> QED
      BY <1>3, <3>1
  <2> QED
    BY <1>3, <2>1, <2>2
<1> SUFFICES ASSUME x % n = y % n PROVE FALSE
  BY DEF x, y
<1> DEFINE u == x \div n
           w == y \div n
           s == x % n
<1>7. u \in Nat /\ w \in Nat /\ s \in Nat /\ x = n * u + s /\ y = n * w + s
  <2>1. /\ u \in Nat /\ s \in Nat /\ x = n * u + s
        /\ w \in Nat /\ y = n * w + (y % n)
    BY <1>1, <1>3, Zenon
  <2>2. y % n = s
    OBVIOUS
  <2> HIDE DEF u, w, s
  <2> QED
    BY <2>1, <2>2
<1> HIDE DEF u, w, s
<1>8. y - x = n * (w - u)
  <2>1. n * u \in Int /\ n * w \in Int
    BY <1>2, <1>7
  <2> QED
    BY <1>4, <1>7, <2>1
<1>9. CASE w - u >= 1
  <2>1. n * (w - u) >= n * 1 /\ n * 1 = n
    BY <1>2, <1>7, <1>9
  <2> QED
    BY <1>6, <1>8, <2>1
<1>10. CASE 0 >= w - u
  <2>1. n * 0 >= n * (w - u) /\ n * 0 = 0
    BY <1>2, <1>7, <1>10
  <2> QED
    BY <1>6, <1>8, <2>1
<1> QED
  BY <1>7, <1>9, <1>10

\* A finite set of numbers has an element of every rank: ranks are different
\* and below the size of the set, so there is one element for each.
LEMMA EveryRank ==
    ASSUME NEW S \in SUBSET Nat, IsFiniteSet(S), NEW i \in 0 .. Cardinality(S) - 1
    PROVE  \E v \in S : Cardinality({w \in S : w < v}) = i
<1> DEFINE Below(v) == {w \in S : w < v}
           R == 0 .. Cardinality(S) - 1
           f == [v \in S |-> Cardinality(Below(v))]
<1>1. Cardinality(S) \in Nat
  BY FS_CardinalityType
<1>2. ASSUME NEW v \in S
      PROVE  IsFiniteSet(Below(v)) /\ Cardinality(Below(v)) \in Nat /\ Cardinality(Below(v)) < Cardinality(S)
  <2>1. Below(v) \in SUBSET S /\ Below(v) # S
    OBVIOUS
  <2> HIDE DEF Below
  <2>2. IsFiniteSet(Below(v)) /\ Cardinality(Below(v)) <= Cardinality(S) /\ Cardinality(S) # Cardinality(Below(v))
    BY <2>1, FS_Subset
  <2>3. Cardinality(Below(v)) \in Nat
    BY <2>2, FS_CardinalityType
  <2> QED
    BY <1>1, <2>2, <2>3
<1>3. ASSUME NEW v \in S, NEW w \in S, v < w
      PROVE  Cardinality(Below(v)) # Cardinality(Below(w))
  <2>1. Below(v) \in SUBSET Below(w) /\ v \in Below(w) /\ v \notin Below(v)
    <3>1. \A z \in Below(v) : z \in Below(w)
      BY <1>3
    <3>2. v \in Below(w) /\ v \notin Below(v)
      BY <1>3
    <3> HIDE DEF Below
    <3> QED
      BY <3>1, <3>2, Zenon
  <2> HIDE DEF Below
  <2>2. Below(v) # Below(w)
    BY <2>1
  <2> QED
    BY <1>2, <2>1, <2>2, FS_Subset
<1>4. f \in Injection(S, R)
  <2>1. f \in [S -> R]
    <3>1. \A v \in S : Cardinality(Below(v)) \in R
      BY <1>1, <1>2
    <3> HIDE DEF Below, R
    <3> QED
      BY <3>1
  <2>2. ASSUME NEW v \in S, NEW w \in S, v # w PROVE f[v] # f[w]
    <3>1. f[v] = Cardinality(Below(v)) /\ f[w] = Cardinality(Below(w))
      OBVIOUS
    <3>2. v < w \/ w < v
      BY <2>2
    <3> HIDE DEF f, Below
    <3> QED
      BY <1>3, <3>1, <3>2
  <2> HIDE DEF f, R
  <2> QED
    BY <2>1, <2>2 DEF Injection, IsInjective
<1>5. IsFiniteSet(R) /\ Cardinality(R) = Cardinality(S)
  <2>1. 0 \in Int /\ Cardinality(S) - 1 \in Int
    BY <1>1
  <2>2. /\ IsFiniteSet(R)
        /\ Cardinality(R) = IF 0 > Cardinality(S) - 1 THEN 0 ELSE (Cardinality(S) - 1) - 0 + 1
    BY <2>1, FS_Interval, Zenon
  <2> HIDE DEF R
  <2> QED
    BY <1>1, <2>2
<1>6. f \in Surjection(S, R)
  <2> HIDE DEF f, R
  <2> QED
    BY <1>4, <1>5, FS_Injection
<1>7. PICK v \in S : f[v] = i
  <2>1. i \in R
    OBVIOUS
  <2> HIDE DEF f, R
  <2> QED
    BY <1>6, <2>1 DEF Surjection
<1> QED
  BY <1>7, Zenon

\* The sizes of the sets and the windows in a well-formed state.
LEMMA Sizes ==
    ASSUME ParliaAssumption, EpochAssumption, TypeOK
    PROVE  /\ validators # {} /\ validators \subseteq Nat /\ IsFiniteSet(validators)
           /\ Cardinality(validators) \in Nat
           /\ turnLength \in Nat /\ turnLength > 0
           /\ CheckLen \in Nat /\ CheckLen < Epoch
           /\ turnLength = 1 => CheckLen = Cardinality(validators) \div 2
<1>1. validators # {} /\ validators \subseteq Nat /\ IsFiniteSet(validators)
  BY DEF ParliaAssumption, TypeOK
<1>2. Cardinality(validators) \in Nat
  BY <1>1, FS_CardinalityType
<1>3. turnLength \in Nat \ {0}
  BY DEF ParliaAssumption, TypeOK
<1> QED
  BY <1>1, <1>2, <1>3, CheckLenType DEF CheckLen, EpochAssumption, TypeOK

-------------------------------------------------------------------------------
(* The inductive invariant *)

\* newSnapshot builds a well-typed snapshot.
LEMMA TypeInit == ASSUME ParliaAssumption, Init PROVE TypeOK
<1>1. checkpoint \in Announcement
  BY DEF Init, Announced
<1>2. checkpoint.validators \in ValidatorSets /\ checkpoint.turnLength \in AllTurnLengths
  BY <1>1 DEF Announcement
<1>3. turnLength \in AllTurnLengths
  BY <1>2 DEF Init, AllTurnLengths
<1> QED
  BY <1>1, <1>2, <1>3 DEF Init, TypeOK, ParliaAssumption, NoEpoch, NoBlocks

\* A sealed block keeps the snapshot well-typed.
LEMMA TypeStep ==
    ASSUME ParliaAssumption, EpochAssumption, TypeOK, [Next]_vars
    PROVE  TypeOK'
<1>1. CASE UNCHANGED vars
  BY <1>1 DEF TypeOK, vars
<1>2. ASSUME NEW v \in validators, NEW c \in NextAnnouncements, Seal(v, c)
      PROVE  TypeOK'
  <2>1. /\ number < MaxNumber /\ number' = number + 1 /\ checkpoint' = c
        /\ number \in Nat /\ MaxNumber \in Nat
    BY <1>2 DEF Seal, Apply, TypeOK, ParliaAssumption
  <2>2. c \in Announcement
    BY <1>2 DEF NextAnnouncements, Announced, TypeOK
  <2>3. c.validators \in ValidatorSets /\ c.turnLength \in AllTurnLengths
    BY <2>2 DEF Announcement
  <2>4. v \in Nat
    BY Sizes
  <2>5. number' \in 0 .. MaxNumber
    BY <2>1
  <2>6. validators' \in ValidatorSets /\ turnLength' \in AllTurnLengths
    BY <1>2, <2>3 DEF Seal, Apply, SwitchSet, TypeOK
  <2>7. epochKey' \in 0 .. NoEpoch
    <3>1. (number + 1) \div Epoch \in 0 .. NoEpoch
      <4>0. number + 1 \in Nat /\ Epoch \in Nat \ {0}
        BY <2>1 DEF ParliaAssumption
      <4>1. (number + 1) \div Epoch \in Nat /\ (number + 1) \div Epoch <= number + 1
        BY <4>0, DivAndMod, Zenon
      <4> QED
        BY <4>1, <2>1 DEF NoEpoch
    <3> QED
      BY <1>2, <3>1 DEF Seal, Apply, SwitchSet, TypeOK
  <2>8. DOMAIN recents' \subseteq 1 .. number' /\ \A k \in DOMAIN recents' : recents'[k] \in Nat
    <3>1. DOMAIN Kept \subseteq 1 .. number /\ \A k \in DOMAIN Kept : Kept[k] \in Nat
      BY DEF Kept, Without, TypeOK
    <3>2. /\ DOMAIN Extended(v) \subseteq 1 .. number + 1
          /\ \A k \in DOMAIN Extended(v) : Extended(v)[k] \in Nat
      BY <3>1, <2>1, <2>4, SMTT(20) DEF Extended
    <3>3. \/ recents' = Extended(v) \/ recents' = NoBlocks
          \/ recents' = Without(Extended(v), Shrunk(Cardinality(c.validators)))
      BY <1>2 DEF Seal, Apply, SwitchSet
    <3>4. CASE recents' = Without(Extended(v), Shrunk(Cardinality(c.validators)))
      BY <3>2, <3>4, <2>1 DEF Without
    <3> QED
      BY <2>1, <3>2, <3>3, <3>4 DEF NoBlocks
  <2>9. /\ lastSwitch' \in 0 .. number'
        /\ DOMAIN signers' \subseteq lastSwitch' + 1 .. number'
        /\ \A k \in DOMAIN signers' : signers'[k] \in validators'
        /\ inturnOnly' \in BOOLEAN
    <3>1. CASE Switches /\ (Bohr \/ c.validators # validators)
      <4>1. lastSwitch' = number + 1 /\ signers' = NoBlocks /\ inturnOnly' = TRUE
        BY <1>2, <3>1 DEF Seal, Record
      <4>2. DOMAIN signers' = {}
        BY <4>1 DEF NoBlocks
      <4> QED
        BY <4>1, <4>2, <2>1
    <3>2. CASE ~(Switches /\ (Bohr \/ c.validators # validators))
      <4>1. /\ lastSwitch' = lastSwitch
            /\ signers' = [k \in Window \cap (DOMAIN signers \cup {number + 1}) |->
                             IF k = number + 1 THEN v ELSE signers[k]]
            /\ inturnOnly' = (inturnOnly /\ v = InturnValidator)
        BY <1>2, <3>2, Zenon DEF Seal, Record
      <4>2. validators' = validators
        BY <1>2, <3>2 DEF Seal, Apply, SwitchSet
      <4>3. DOMAIN signers \subseteq lastSwitch + 1 .. number /\ lastSwitch \in 0 .. number
        BY DEF TypeOK
      <4>4. ASSUME NEW k \in DOMAIN signers'
            PROVE  k \in lastSwitch + 1 .. number + 1 /\ signers'[k] \in validators
        <5>1. k \in DOMAIN signers \cup {number + 1} /\ signers'[k] = IF k = number + 1 THEN v ELSE signers[k]
          BY <4>1, <4>4
        <5> QED
          BY <5>1, <4>3, <2>1 DEF TypeOK
      <4>5. inturnOnly' \in BOOLEAN
        BY <4>1, Zenon
      <4>6. DOMAIN signers' \subseteq lastSwitch' + 1 .. number'
        BY <4>1, <4>4, <2>1, Zenon
      <4>7. lastSwitch' \in 0 .. number'
        BY <4>1, <4>3, <2>1
      <4> QED
        BY <4>2, <4>4, <4>5, <4>6, <4>7, Zenon
    <3> QED
      BY <3>1, <3>2
  <2>10. rules' \in AllRules
    BY <1>2 DEF Seal, TypeOK
  <2> QED
    BY <2>1, <2>2, <2>5, <2>6, <2>7, <2>8, <2>9, <2>10, ZenonT(30) DEF TypeOK
<1>3. CASE Snake8Fork
  <2>1. turnLength' \in AllTurnLengths /\ rules' \in AllRules
    BY <1>3 DEF Snake8Fork, AllTurnLengths, AllRules
  <2>2. DOMAIN signers' = {} /\ lastSwitch' = number /\ inturnOnly' = TRUE
    BY <1>3 DEF Snake8Fork, NoBlocks
  <2>3. number \in 0 .. number
    BY DEF TypeOK
  <2>4. UNCHANGED <<number, validators, recents, epochKey, checkpoint>>
    BY <1>3 DEF Snake8Fork
  <2> QED
    BY <2>1, <2>2, <2>3, <2>4 DEF TypeOK
<1> QED
  BY <1>1, <1>2, <1>3 DEF Next

\* newSnapshot satisfies the invariant.
LEMMA InvInit == ASSUME ParliaAssumption, EpochAssumption, Init PROVE Inv
<1>1. TypeOK
  BY TypeInit
<1>2. TurnLengthInv
  BY DEF Init, TurnLengthInv, Bohr, Snake8
<1>3. RecentsInv
  BY DEF Init, RecentsInv, NoBlocks
<1>4. SwitchInv
  BY DEF Init, SwitchInv, Bohr, Snake8
<1> QED
  BY <1>1, <1>2, <1>3, <1>4 DEF Inv

\* No entry of recents is older than the window, and a shrinking switch removes
\* exactly those that the smaller window leaves behind.
LEMMA RecentsStep ==
    ASSUME ParliaAssumption, EpochAssumption, Inv, TypeOK', TurnLengthInv',
           NEW v \in validators, NEW c \in NextAnnouncements, Seal(v, c)
    PROVE  RecentsInv'
<1> SUFFICES ASSUME ~Snake8, NEW k \in DOMAIN recents'
             PROVE  k >= number' - CheckLen'
  BY Zenon DEF RecentsInv, Seal, Snake8
<1>1. number \in Nat /\ number' = number + 1 /\ CheckLen \in Nat
  BY Sizes DEF Inv, TypeOK, Seal, Apply
<1>2. \A j \in DOMAIN Kept : j \in Nat /\ j > number - CheckLen
  <2>1. \A j \in DOMAIN recents : j \in Nat /\ j >= number - CheckLen
    BY <1>1 DEF Inv, TypeOK, RecentsInv
  <2>2. CASE number + 1 >= CheckLen + 1
    BY <1>1, <2>1, <2>2 DEF Kept, Without
  <2>3. CASE ~(number + 1 >= CheckLen + 1)
    BY <1>1, <2>1, <2>3 DEF Kept
  <2> QED
    BY <2>2, <2>3
<1>3. \A j \in DOMAIN Extended(v) : j \in Nat /\ j > number - CheckLen
  BY <1>1, <1>2 DEF Extended
<1>4. CASE ~Switches
  <2>1. recents' = Extended(v) /\ CheckLen' = CheckLen
    BY <1>4, Zenon DEF Seal, Apply, CheckLen
  <2> QED
    BY <1>1, <1>3, <2>1
<1>5. CASE Switches /\ Bohr
  BY <1>5 DEF Seal, Apply, SwitchSet, NoBlocks
<1>6. CASE Switches /\ ~Bohr
  <2> DEFINE n == Cardinality(validators)
             m == Cardinality(validators')
  <2>1. turnLength = 1 /\ turnLength' = 1
    BY <1>6, Zenon DEF Inv, TurnLengthInv, DefaultTurnLength, Seal, Bohr, Snake8
  <2>2. n \in Nat /\ CheckLen = n \div 2
    BY <2>1, Sizes DEF Inv
  <2>3. m \in Nat
    <3>1. validators' \in ValidatorSets
      BY DEF TypeOK
    <3> QED
      BY <3>1, FS_CardinalityType DEF ParliaAssumption
  <2>4. CheckLen' = m \div 2
    BY <2>1, <2>3, CheckLenType, SMTT(20) DEF CheckLen
  <2>5. recents' = Without(Extended(v), Shrunk(m))
    BY <1>6 DEF Seal, Apply, SwitchSet
  <2>6. k \in DOMAIN Extended(v) /\ k \notin Shrunk(m)
    BY <2>5 DEF Without
  <2>7. k \in Nat /\ k > number - n \div 2
    BY <1>3, <2>2, <2>6, ZenonT(30)
  <2>8. \A i \in 0 .. ((n \div 2 + 1) - (m \div 2 + 1) - 1) : k # (number + 1) - (m \div 2 + 1) - i
    BY <2>6 DEF Shrunk
  <2>9. SUFFICES ASSUME k < number + 1 - m \div 2 PROVE FALSE
    BY <1>1, <2>3, <2>4, <2>7, SMTT(20)
  <2> DEFINE i == (number + 1) - (m \div 2 + 1) - k
  <2>10. i \in 0 .. ((n \div 2 + 1) - (m \div 2 + 1) - 1)
    BY <1>1, <2>2, <2>3, <2>7, <2>9
  <2>11. k = (number + 1) - (m \div 2 + 1) - i
    BY <1>1, <2>3, <2>7
  <2> QED
    BY <2>8, <2>10, <2>11
<1> QED
  BY <1>4, <1>5, <1>6

\* An announced set comes into force CheckLen blocks later, before the epoch
\* ends.
LEMMA SwitchStep ==
    ASSUME ParliaAssumption, EpochAssumption, Inv, TypeOK',
           NEW v \in validators, NEW c \in NextAnnouncements, Seal(v, c)
    PROVE  SwitchInv'
<1>0. Bohr' <=> Bohr
  BY DEF Seal, Bohr
<1>1. /\ number \in Nat /\ number' = number + 1 /\ number < MaxNumber /\ checkpoint' = c
      /\ MaxNumber \in Nat /\ Epoch \in Nat \ {0}
  BY DEF Inv, TypeOK, Seal, Apply, ParliaAssumption
<1>2. CheckLen \in Nat /\ CheckLen < Epoch
  BY Sizes DEF Inv
<1>3. \/ (number + 1) % Epoch = 0 /\ (number + 1) \div Epoch = number \div Epoch + 1
      \/ (number + 1) % Epoch = (number % Epoch) + 1 /\ (number + 1) \div Epoch = number \div Epoch
  BY <1>1, NextInEpoch, Zenon
<1>4. /\ number \div Epoch \in Nat /\ number % Epoch \in Nat /\ (number + 1) \div Epoch \in Nat
      /\ number \div Epoch <= number
      /\ (number + 1) \div Epoch <= number + 1 /\ (number + 1) % Epoch \in 0 .. Epoch - 1
  <2>1. number + 1 \in Nat
    BY <1>1
  <2>2. /\ number \div Epoch \in Nat /\ number \div Epoch <= number /\ number % Epoch \in 0 .. Epoch - 1
        /\ (number + 1) \div Epoch \in Nat /\ (number + 1) \div Epoch <= number + 1
        /\ (number + 1) % Epoch \in 0 .. Epoch - 1
    BY <1>1, <2>1, DivAndMod, Zenon
  <2> QED
    BY <1>1, <2>2
<1>5. epochKey \in Nat /\ (epochKey = NoEpoch \/ epochKey <= number \div Epoch)
  BY <1>1 DEF Inv, TypeOK, SwitchInv, NoEpoch
<1>6. CASE Switches
  <2>1. /\ validators' = c.validators
        /\ Bohr => turnLength' = c.turnLength
        /\ epochKey' = (number + 1) \div Epoch \/ epochKey' = epochKey
    BY <1>6 DEF Seal, Apply, SwitchSet
  <2>2. epochKey' = NoEpoch \/ epochKey' <= (number + 1) \div Epoch
    BY <1>3, <1>4, <1>5, <2>1, SMTT(20)
  <2> QED
    BY <1>0, <1>1, <2>1, <2>2, Zenon DEF SwitchInv, NoEpoch
<1>7. CASE ~Switches
  <2>1. /\ validators' = validators /\ turnLength' = turnLength /\ epochKey' = epochKey
        /\ CheckLen' = CheckLen
    BY <1>7, Zenon DEF Seal, Apply, CheckLen
  <2>2. epochKey' = NoEpoch \/ epochKey' <= (number + 1) \div Epoch
    BY <1>3, <1>4, <1>5, <2>1, SMTT(20)
  <2>3. CASE (number + 1) % Epoch = 0
    <3>1. epochKey # (number + 1) \div Epoch
      BY <1>1, <1>3, <1>4, <1>5, <2>3 DEF NoEpoch
    <3>2. (number + 1) % Epoch < CheckLen
      BY <1>2, <1>7, <2>3, <3>1, SMTT(20) DEF Switches
    <3> QED
      BY <1>0, <1>1, <2>1, <2>2, <3>1, <3>2, Zenon DEF SwitchInv, NoEpoch
  <2>4. CASE (number + 1) % Epoch # 0
    <3>1. c = checkpoint
      BY <2>4 DEF NextAnnouncements
    <3>2. (number + 1) % Epoch = (number % Epoch) + 1 /\ (number + 1) \div Epoch = number \div Epoch
      BY <1>3, <2>4
    <3>3. CASE validators = checkpoint.validators /\ (Bohr => turnLength = checkpoint.turnLength)
      BY <1>0, <1>1, <2>1, <2>2, <3>1, <3>3, ZenonT(30) DEF SwitchInv, NoEpoch
    <3>4. CASE number % Epoch < CheckLen /\ (Bohr => epochKey # number \div Epoch)
      <4>1. (number + 1) % Epoch < CheckLen
        BY <1>2, <1>4, <1>7, <3>2, <3>4, SMTT(20) DEF Switches
      <4> QED
        BY <1>0, <1>1, <2>1, <2>2, <3>2, <3>4, <4>1, Zenon DEF SwitchInv, NoEpoch
    <3> QED
      BY <3>3, <3>4 DEF Inv, SwitchInv
  <2> QED
    BY <2>3, <2>4, Zenon
<1> QED
  BY <1>6, <1>7

\* At the fork the window grows, so a switch that was still to come still is.
LEMMA ForkStep ==
    ASSUME ParliaAssumption, EpochAssumption, Inv, Snake8Fork
    PROVE  TurnLengthInv' /\ RecentsInv' /\ SwitchInv'
<1>1. /\ ~Bohr /\ ~Snake8 /\ ~Bohr' /\ Snake8'
      /\ turnLength' = Snake8TurnLength
      /\ UNCHANGED <<number, validators, epochKey, checkpoint>>
  BY DEF Snake8Fork, Bohr, Snake8
<1>2. TurnLengthInv' /\ RecentsInv'
  BY <1>1 DEF TurnLengthInv, RecentsInv
<1>3. CheckLen \in Nat /\ CheckLen' \in Nat /\ CheckLen <= CheckLen'
  <2> DEFINE m == Cardinality(validators) \div 2
  <2>1. turnLength = 1 /\ Snake8TurnLength \in Nat \ {0}
    BY <1>1, Zenon DEF Inv, TurnLengthInv, DefaultTurnLength, ParliaAssumption, AllTurnLengths
  <2>2. m \in Nat /\ CheckLen = m
    BY <2>1, Sizes DEF Inv
  <2>3. CheckLen' = (m + 1) * Snake8TurnLength - 1
    BY <1>1 DEF CheckLen, MinerHistoryCheckLen
  <2>4. ASSUME NEW a \in Nat, NEW t \in Nat \ {0}
        PROVE  (a + 1) * t - 1 \in Nat /\ a <= (a + 1) * t - 1
    BY SMTT(30)
  <2> HIDE DEF m
  <2> QED
    BY <2>1, <2>2, <2>3, <2>4
<1>4. number % Epoch \in Nat
  BY DivAndMod, SMTT(20) DEF Inv, TypeOK, ParliaAssumption
<1>5. SwitchInv'
  BY <1>1, <1>3, <1>4, SMTT(20) DEF Inv, SwitchInv, NoEpoch
<1> QED
  BY <1>2, <1>5

\* A sealed block keeps the invariant, with and without a switch of the set.
LEMMA InvStep == ASSUME ParliaAssumption, EpochAssumption, Inv, [Next]_vars PROVE Inv'
<1>1. CASE UNCHANGED vars
  <2>1. TypeOK'
    BY <1>1, TypeStep DEF Inv
  <2>2. TurnLengthInv' /\ RecentsInv' /\ SwitchInv'
    BY <1>1 DEF vars, Inv, TurnLengthInv, RecentsInv, SwitchInv, CheckLen, Bohr, Snake8
  <2> QED
    BY <2>1, <2>2 DEF Inv
<1>2. ASSUME NEW v \in validators, NEW c \in NextAnnouncements, Seal(v, c)
      PROVE  Inv'
  <2>1. TypeOK'
    BY <1>2, TypeStep, ZenonT(30) DEF Inv
  <2>2. TurnLengthInv'
    BY <1>2 DEF Inv, TurnLengthInv, Seal, Apply, SwitchSet, Bohr, Snake8
  <2>3. RecentsInv'
    BY <1>2, <2>1, <2>2, RecentsStep, Zenon
  <2>4. SwitchInv'
    BY <1>2, <2>1, SwitchStep
  <2> QED
    BY <2>1, <2>2, <2>3, <2>4 DEF Inv
<1>3. CASE Snake8Fork
  <2>1. TypeOK'
    BY <1>3, TypeStep DEF Inv, Next
  <2> QED
    BY <1>3, <2>1, ForkStep DEF Inv
<1> QED
  BY <1>1, <1>2, <1>3 DEF Next

\* Every reachable snapshot satisfies the invariant.
LEMMA Invariance == Spec => []Inv
  BY InvInit, InvStep, ParliaAssumption, EpochAssumption, PTL DEF Spec

-------------------------------------------------------------------------------
(* What follows from it *)

\* What is left in recents after the deletion lies in the window of the next
\* block, whatever block the batch started at.
LEMMA SealedBlocksApplyInv ==
    ASSUME ParliaAssumption, EpochAssumption, Inv PROVE SealedBlocksApply
<1> SUFFICES ASSUME NEW v \in validators, VerifySeal(v), NEW base \in 0 .. number, ~Snake8
             PROVE  ApplyAccepts(base, v)
  BY DEF SealedBlocksApply, ApplyAccepts, Snake8, Bohr
<1> DEFINE Blocks == {k \in DOMAIN recents : k > LeftHistoryBound(number) /\ recents[k] = v}
           Counted == {k \in DOMAIN Kept : k > LeftHistoryBound(base) /\ Kept[k] = v}
<1>1. /\ number \in Nat /\ DOMAIN recents \subseteq 1 .. number /\ CheckLen \in Nat
      /\ turnLength \in Nat
  BY Sizes DEF Inv, TypeOK
<1>2. IsFiniteSet(Blocks)
  <2>1. IsFiniteSet(1 .. number)
    BY <1>1, FS_Interval
  <2>2. Blocks \subseteq 1 .. number
    BY <1>1, Zenon
  <2> QED
    BY <2>1, <2>2, FS_Subset, Zenon
<1>3. Cardinality(Blocks) < turnLength /\ Cardinality(Blocks) \in Nat
  <2>1. Cardinality(Blocks) \in Nat
    BY <1>2, FS_CardinalityType
  <2> QED
    BY <1>1, <2>1 DEF VerifySeal, SignRecently, CountRecents
<1>4. ASSUME NEW k \in DOMAIN Kept, Kept[k] = v PROVE k \in Blocks
  <2>1. k \in DOMAIN recents /\ recents[k] = v
    BY <1>4 DEF Kept, Without
  <2>2. k \in Nat /\ k >= 1 /\ k >= number - CheckLen
    BY <1>1, <2>1 DEF Inv, RecentsInv
  <2>3. number >= CheckLen => k # number - CheckLen
    BY <1>1, <2>2 DEF Kept, Without
  <2>4. k > LeftHistoryBound(number)
    BY <1>1, <2>2, <2>3 DEF LeftHistoryBound
  <2> QED
    BY <2>1, <2>4
<1>5. CASE Bohr
  <2>1. Counted \subseteq Blocks
    BY <1>4
  <2> HIDE DEF Blocks, Counted
  <2>2. Cardinality(Counted) <= Cardinality(Blocks) /\ IsFiniteSet(Counted)
    BY <1>2, <2>1, FS_Subset
  <2>3. Cardinality(Counted) \in Nat
    BY <2>2, FS_CardinalityType
  <2>4. ~(Cardinality(Counted) >= turnLength)
    BY <1>1, <1>3, <2>2, <2>3
  <2> QED
    BY <1>5, <2>4 DEF ApplyAccepts, SignRecently, CountRecents, Counted
<1>6. CASE ~Bohr
  <2>1. turnLength = 1
    BY <1>6 DEF Inv, TurnLengthInv, DefaultTurnLength
  <2>2. Blocks = {}
    <3>1. Cardinality(Blocks) = 0
      BY <1>3, <2>1
    <3> HIDE DEF Blocks
    <3> QED
      BY <1>2, <3>1, FS_EmptySet
  <2> HIDE DEF Blocks
  <2> QED
    BY <1>4, <1>6, <2>2 DEF ApplyAccepts
<1> QED
  BY <1>5, <1>6

\* A block before an epoch block is the last of its epoch.
LEMMA EndOfEpoch ==
    ASSUME NEW a \in Nat, NEW e \in Nat \ {0}, (a + 1) % e = 0
    PROVE  a % e = e - 1
<1> DEFINE q == a \div e
           r == a % e
<1>1. q \in Nat /\ r \in 0 .. e - 1 /\ a = e * q + r
  BY SMTT(30)
<1>2. SUFFICES ASSUME r + 1 < e PROVE FALSE
  BY <1>1
<1>3. ASSUME NEW k \in Nat, NEW i \in 0 .. e - 1 PROVE (e * k + i) % e = i
  BY SMTT(30)
<1>4. (e * q + (r + 1)) % e = r + 1
  <2>1. r + 1 \in 0 .. e - 1
    BY <1>1, <1>2
  <2> HIDE DEF q, r
  <2> QED
    BY <1>1, <1>3, <2>1
<1>5. a + 1 = e * q + (r + 1)
  <2> HIDE DEF q, r
  <2> QED
    BY <1>1, SMTT(30)
<1> HIDE DEF q, r
<1> QED
  BY <1>1, <1>4, <1>5

\* The invariant at the end of an epoch: no switch can still be pending.
LEMMA CheckpointInForceInv ==
    ASSUME ParliaAssumption, EpochAssumption, Inv PROVE CheckpointInForce
<1> SUFFICES ASSUME (number + 1) % Epoch = 0
             PROVE  /\ validators = checkpoint.validators
                    /\ Bohr => turnLength = checkpoint.turnLength
  BY Zenon DEF CheckpointInForce
<1>1. number \in Nat /\ Epoch \in Nat \ {0} /\ CheckLen \in Nat /\ CheckLen < Epoch
  BY Sizes DEF Inv, TypeOK, ParliaAssumption
<1>2. number % Epoch = Epoch - 1
  BY <1>1, EndOfEpoch, Zenon
<1>3. ~(number % Epoch < CheckLen)
  BY <1>1, <1>2, SMTT(20)
<1> QED
  BY <1>3 DEF Inv, SwitchInv

\* If f maps at least t elements of W to each element of S, W has at least
\* t * |S| elements: a smallest subset of S that were an exception would have
\* an element to leave out.
LEMMA Pigeonhole ==
    ASSUME NEW S, IsFiniteSet(S), NEW W, IsFiniteSet(W), NEW f, NEW t \in Nat,
           \A v \in S : Cardinality({k \in W : f[k] = v}) >= t
    PROVE  Cardinality(W) >= t * Cardinality(S)
<1> DEFINE Over(U) == {k \in W : f[k] \in U}
           Bad == {U \in SUBSET S : ~(Cardinality(Over(U)) >= t * Cardinality(U))}
<1>1. \A U : IsFiniteSet(Over(U)) /\ Cardinality(Over(U)) \in Nat /\ Cardinality(Over(U)) <= Cardinality(W)
  <2> TAKE U
  <2>1. Over(U) \in SUBSET W
    OBVIOUS
  <2> HIDE DEF Over
  <2> QED
    BY <2>1, FS_Subset, FS_CardinalityType
<1>2. \A U \in SUBSET S : IsFiniteSet(U) /\ Cardinality(U) \in Nat
  BY FS_Subset, FS_CardinalityType
<1>3. ASSUME Bad # {} PROVE FALSE
  <2>1. PICK U \in Bad : \A V \in Bad : <<V, U>> \notin StrictSubsetOrdering(S)
    <3>1. Bad \subseteq FiniteSubsetsOf(S)
      BY <1>2 DEF FiniteSubsetsOf
    <3>2. IsWellFoundedOn(StrictSubsetOrdering(S), FiniteSubsetsOf(S))
      BY FS_StrictSubsetOrderingWellFounded
    <3> HIDE DEF Bad
    <3> QED
      BY <1>3, <3>1, <3>2, WFMin, Zenon
  <2>2. U \in SUBSET S /\ ~(Cardinality(Over(U)) >= t * Cardinality(U))
    OBVIOUS
  <2>3. U # {}
    <3>1. CASE U = {}
      <4>1. Cardinality(U) = 0
        BY <3>1, FS_EmptySet
      <4>2. t * 0 = 0
        OBVIOUS
      <4> HIDE DEF Over
      <4> QED
        BY <1>1, <2>2, <4>1, <4>2, SMTT(20)
    <3> QED
      BY <3>1
  <2>4. PICK x \in U : TRUE
    BY <2>3
  <2> DEFINE V == U \ {x}
             One == {k \in W : f[k] = x}
  <2>5. V \in SUBSET S /\ <<V, U>> \in StrictSubsetOrdering(S)
    BY <2>2, <2>4, ZenonT(30) DEF StrictSubsetOrdering
  <2>6. Cardinality(Over(V)) >= t * Cardinality(V)
    <3>1. V \notin Bad
      <4> HIDE DEF Bad, V
      <4> QED
        BY <2>1, <2>5
    <3> QED
      BY <2>5, <3>1
  <2>7. Cardinality(V) = Cardinality(U) - 1 /\ Cardinality(U) \in Nat /\ Cardinality(V) \in Nat
    <3>1. IsFiniteSet(U) /\ Cardinality(U) \in Nat /\ Cardinality(V) \in Nat
      BY <1>2, <2>2, <2>5
    <3> QED
      BY <2>4, <3>1, FS_RemoveElement, Zenon
  <2>8. /\ Over(U) = Over(V) \cup One /\ Over(V) \cap One = {}
        /\ One \in SUBSET W /\ Cardinality(One) >= t
    BY <2>2, <2>4, Zenon
  <2>9. IsFiniteSet(One) /\ Cardinality(One) \in Nat
    <3> HIDE DEF One
    <3> QED
      BY <2>8, FS_Subset, FS_CardinalityType, Zenon
  <2>10. Cardinality(Over(U)) = Cardinality(Over(V)) + Cardinality(One)
    <3>1. Cardinality(Over(V) \cap One) = 0
      BY <2>8, FS_EmptySet, Zenon
    <3> HIDE DEF Over, One, V
    <3>2. IsFiniteSet(Over(V)) /\ Cardinality(Over(V)) \in Nat
      BY <1>1, ZenonT(30)
    <3>3. Cardinality(Over(V) \cup One) = Cardinality(Over(V)) + Cardinality(One) - Cardinality(Over(V) \cap One)
      BY <2>9, <3>2, FS_Union
    <3> QED
      BY <2>8, <2>9, <3>1, <3>2, <3>3, SMTT(20)
  <2>11. ASSUME NEW a \in Nat, NEW b \in Nat, NEW c \in Nat, NEW d \in Nat, d = a - 1, b >= t * d, c >= t
         PROVE  b + c >= t * a
    <3>1. t * d = t * a - t
      BY <2>11, SMTT(30)
    <3>2. t * d \in Nat /\ t * a \in Nat
      BY SMTT(30)
    <3> HIDE DEF Over, One, V
    <3> QED
      BY <2>11, <3>1, <3>2
  <2>12. Cardinality(Over(V)) \in Nat
    BY <1>1, ZenonT(30)
  <2> HIDE DEF Over, One, V
  <2>13. Cardinality(Over(V)) + Cardinality(One) >= t * Cardinality(U)
    BY <2>6, <2>7, <2>8, <2>9, <2>11, <2>12, Zenon
  <2> QED
    BY <2>2, <2>10, <2>13
<1>4. Cardinality(Over(S)) >= t * Cardinality(S)
  BY <1>3, Zenon
<1>5. t * Cardinality(S) \in Nat /\ Cardinality(W) \in Nat
  <2>1. Cardinality(S) \in Nat /\ Cardinality(W) \in Nat
    BY FS_CardinalityType
  <2> QED
    BY <2>1, SMTT(30)
<1> HIDE DEF Over
<1> QED
  BY <1>1, <1>4, <1>5, SMTT(20)

\* The window has fewer blocks than it takes to hold off every validator.
LEMMA SomeoneMaySealInv ==
    ASSUME ParliaAssumption, EpochAssumption, Inv PROVE SomeoneMaySeal
<1> DEFINE n == Cardinality(validators)
           W == {k \in DOMAIN recents : k > LeftHistoryBound(number)}
<1>1. /\ IsFiniteSet(validators) /\ validators # {} /\ n \in Nat
      /\ turnLength \in Nat /\ turnLength > 0
      /\ number \in Nat /\ DOMAIN recents \subseteq 1 .. number /\ CheckLen \in Nat
  BY Sizes DEF Inv, TypeOK
<1>2. n >= 1
  BY <1>1, FS_EmptySet, SMTT(20)
<1>3. /\ LeftHistoryBound(number) \in Nat /\ LeftHistoryBound(number) <= number
      /\ number - LeftHistoryBound(number) <= CheckLen
  BY <1>1 DEF LeftHistoryBound
<1>4. IsFiniteSet(W) /\ Cardinality(W) \in Nat /\ Cardinality(W) <= CheckLen
  <2> DEFINE I == LeftHistoryBound(number) + 1 .. number
  <2>1. W \in SUBSET I
    BY <1>1, <1>3
  <2>2. IsFiniteSet(I) /\ Cardinality(I) <= CheckLen /\ Cardinality(I) \in Nat
    <3>1. LeftHistoryBound(number) + 1 \in Int /\ number \in Int
      BY <1>1, <1>3
    <3>2. /\ IsFiniteSet(I)
          /\ Cardinality(I) = IF LeftHistoryBound(number) + 1 > number THEN 0
                              ELSE number - (LeftHistoryBound(number) + 1) + 1
      BY <3>1, FS_Interval, Zenon
    <3> HIDE DEF I
    <3> QED
      BY <1>1, <1>3, <3>2
  <2> HIDE DEF W, I
  <2>3. IsFiniteSet(W) /\ Cardinality(W) <= Cardinality(I)
    BY <2>1, <2>2, FS_Subset
  <2>4. Cardinality(W) \in Nat
    BY <2>3, FS_CardinalityType, Zenon
  <2> QED
    BY <1>1, <2>2, <2>3, <2>4
<1>5. SUFFICES ASSUME \A v \in validators : SignRecently(number, recents, v) PROVE FALSE
  BY Zenon DEF SomeoneMaySeal, VerifySeal
<1>6. \A v \in validators : Cardinality({k \in W : recents[k] = v}) >= turnLength
  <2> TAKE v \in validators
  <2>1. {k \in W : recents[k] = v} = {k \in DOMAIN recents : k > LeftHistoryBound(number) /\ recents[k] = v}
    OBVIOUS
  <2> QED
    BY <1>5, <2>1 DEF SignRecently, CountRecents
<1>7. Cardinality(W) >= turnLength * n
  <2> HIDE DEF W
  <2> QED
    BY <1>1, <1>4, <1>6, Pigeonhole
<1>8. CheckLen < turnLength * n
  <2>1. n \div 2 \in Nat /\ n \div 2 + 1 <= n
    BY <1>1, <1>2, SMTT(20)
  <2>2. ASSUME NEW a \in Nat, NEW b \in Nat, NEW t \in Nat, a + 1 <= b, t > 0
        PROVE  (a + 1) * t - 1 < t * b
    <3> DEFINE d == b - (a + 1)
    <3>1. d \in Nat /\ b = (a + 1) + d
      BY <2>2
    <3> HIDE DEF d
    <3>2. t * b = (a + 1) * t + t * d /\ t * d \in Nat /\ (a + 1) * t \in Nat /\ t * b \in Nat
      BY <3>1, SMTT(30)
    <3> QED
      BY <3>2
  <2> HIDE DEF n
  <2>3. (n \div 2 + 1) * turnLength - 1 < turnLength * n
    BY <1>1, <2>1, <2>2
  <2> QED
    BY <2>3, Zenon DEF n, CheckLen, MinerHistoryCheckLen
<1>9. turnLength * n \in Nat
  BY <1>1, SMTT(30)
<1> QED
  BY <1>1, <1>4, <1>7, <1>8, <1>9, SMTT(20)

\* The history and recents keep step, and a block in recents' window stops its
\* signer after turnLength of them.
LEMMA TurnsStep ==
    ASSUME ParliaAssumption, EpochAssumption, Inv, Inv', HistoryInv, TurnsRespected,
           NEW v \in validators, NEW c \in NextAnnouncements, Seal(v, c)
    PROVE  HistoryInv' /\ TurnsRespected'
<1>1. /\ number \in Nat /\ number' = number + 1 /\ CheckLen \in Nat
      /\ turnLength \in Nat /\ turnLength' \in Nat /\ turnLength > 0
      /\ DOMAIN recents \subseteq 1 .. number
      /\ DOMAIN signers \subseteq 1 .. number
      /\ DOMAIN signers' \subseteq 1 .. number'
  <2>1. turnLength' \in Nat
    BY ZenonT(30) DEF Inv, TypeOK, ParliaAssumption
  <2>2. /\ number \in Nat /\ number' = number + 1 /\ number' \in Nat
        /\ lastSwitch \in Nat /\ lastSwitch' \in Nat
    BY SMTT(20) DEF Inv, TypeOK, Seal, Apply
  <2>3. DOMAIN signers \subseteq 1 .. number /\ DOMAIN signers' \subseteq 1 .. number'
    <3>1. /\ DOMAIN signers \subseteq lastSwitch + 1 .. number
          /\ DOMAIN signers' \subseteq lastSwitch' + 1 .. number'
      BY Zenon DEF Inv, TypeOK
    <3> QED
      BY <2>2, <3>1, SMTT(20)
  <2> QED
    BY <2>1, <2>2, <2>3, Sizes, Zenon DEF Inv, TypeOK
<1>2. CASE Switches /\ (Bohr \/ c.validators # validators)
  <2>1. signers' = NoBlocks
    BY <1>2 DEF Seal, Record
  <2>2. DOMAIN signers' = {}
    BY <2>1 DEF NoBlocks
  <2>3. \A w : {k \in DOMAIN signers' : signers'[k] = w} = {}
    BY <2>2, ZenonT(30)
  <2>4. Cardinality({}) = 0
    BY FS_EmptySet
  <2> QED
    BY <1>1, <2>2, <2>3, <2>4, SMTT(20) DEF HistoryInv, TurnsRespected
<1>3. CASE ~(Switches /\ (Bohr \/ c.validators # validators))
  <2>1. /\ signers' = [k \in Window \cap (DOMAIN signers \cup {number + 1}) |->
                          IF k = number + 1 THEN v ELSE signers[k]]
        /\ validators' = validators /\ turnLength' = turnLength /\ CheckLen' = CheckLen
    BY <1>3, Zenon DEF Seal, Apply, Record, SwitchSet, CheckLen
  <2>2. ASSUME NEW k \in DOMAIN Kept \cup {number + 1}
        PROVE  k \in DOMAIN recents' /\ recents'[k] = IF k = number + 1 THEN v ELSE Kept[k]
    <3>1. CASE ~Switches
      BY <2>2, <3>1, Zenon DEF Seal, Apply, Extended
    <3>2. CASE Switches
      <4>1. ~Bohr /\ c.validators = validators
        BY <1>3, <3>2, ZenonT(30)
      <4>2. recents' = Without(Extended(v), Shrunk(Cardinality(validators)))
        BY <3>2, <4>1 DEF Seal, Apply, SwitchSet
      <4>3. Cardinality(validators) \in Nat
        BY Sizes, Zenon DEF Inv
      <4>4. Shrunk(Cardinality(validators)) = {}
        BY <4>3, SMTT(20) DEF Shrunk
      <4> QED
        BY <2>2, <4>2, <4>4 DEF Without, Extended
    <3> QED
      BY <3>1, <3>2, Zenon
  <2>3. ASSUME NEW k \in DOMAIN signers', k # number + 1
        PROVE  k \in DOMAIN signers /\ signers'[k] = signers[k] /\ k \in Nat /\ k >= 1
               /\ k > LeftHistoryBound(number) /\ k \in DOMAIN recents /\ recents[k] = signers[k]
    <3>1. k \in DOMAIN signers /\ signers'[k] = signers[k] /\ k >= number + 1 - CheckLen
      BY <1>1, <2>1, <2>3, SMTT(20) DEF Window
    <3>2. k \in Nat /\ k >= 1 /\ k > LeftHistoryBound(number)
      BY <1>1, <3>1, SMTT(20) DEF LeftHistoryBound
    <3> QED
      BY <3>1, <3>2, Zenon DEF HistoryInv
  <2>4. HistoryInv'
    <3> SUFFICES ASSUME NEW k \in DOMAIN signers', k > LeftHistoryBound(number)'
                 PROVE  k \in DOMAIN recents' /\ recents'[k] = signers'[k]
      BY Zenon DEF HistoryInv
    <3>1. CASE k = number + 1
      BY <2>1, <2>2, <3>1, Zenon
    <3>2. CASE k # number + 1
      <4>1. LeftHistoryBound(number)' = IF number + 1 > CheckLen THEN number + 1 - CheckLen ELSE 0
        BY <1>1, <2>1, SMTT(20) DEF LeftHistoryBound
      <4>2. k \in Nat /\ (number + 1 >= CheckLen + 1 => k # (number + 1) - (CheckLen + 1))
        BY <1>1, <2>3, <3>2, <4>1, SMTT(20)
      <4>3. k \in DOMAIN Kept /\ Kept[k] = recents[k]
        BY <2>3, <3>2, <4>2 DEF Kept, Without
      <4> QED
        BY <2>2, <2>3, <3>2, <4>3, Zenon
    <3> QED
      BY <3>1, <3>2
  <2>5. TurnsRespected'
    <3> SUFFICES ASSUME NEW w \in validators
                 PROVE  Cardinality({k \in DOMAIN signers' : signers'[k] = w}) <= turnLength
      BY <2>1, Zenon DEF TurnsRespected
    <3> DEFINE Old == {k \in DOMAIN signers : signers[k] = w}
               New == {k \in DOMAIN signers' : signers'[k] = w}
               Blocks == {k \in DOMAIN recents : k > LeftHistoryBound(number) /\ recents[k] = v}
    <3>1. IsFiniteSet(1 .. number)
      BY <1>1, FS_Interval
    <3>2. CASE w # v
      <4>1. New \subseteq Old
        BY <2>1, <2>3, <3>2, Zenon
      <4>2. Old \subseteq 1 .. number
        BY <1>1, ZenonT(30)
      <4>3. Cardinality(Old) <= turnLength
        BY DEF TurnsRespected
      <4> HIDE DEF Old, New
      <4>4. IsFiniteSet(Old)
        BY <3>1, <4>2, FS_Subset, Zenon
      <4>5. Cardinality(New) <= Cardinality(Old) /\ IsFiniteSet(New)
        BY <4>1, <4>4, FS_Subset, Zenon
      <4>6. Cardinality(New) \in Nat /\ Cardinality(Old) \in Nat
        BY <4>4, <4>5, FS_CardinalityType, Zenon
      <4>7. Cardinality(New) <= turnLength
        BY <1>1, <4>3, <4>5, <4>6, SMTT(20)
      <4> QED
        BY <4>7, Zenon DEF New
    <3>3. CASE w = v
      <4>1. New \subseteq Blocks \cup {number + 1}
        BY <2>3, <3>3, Zenon
      <4>2. Blocks \subseteq 1 .. number
        BY <1>1, Zenon
      <4>3. ~(Cardinality(Blocks) >= turnLength)
        BY DEF Seal, VerifySeal, SignRecently, CountRecents
      <4>4. number + 1 \notin Blocks
        BY <1>1
      <4> HIDE DEF Blocks, New
      <4>5. IsFiniteSet(Blocks) /\ Cardinality(Blocks) \in Nat
        BY <3>1, <4>2, FS_Subset, FS_CardinalityType, Zenon
      <4>6. /\ IsFiniteSet(Blocks \cup {number + 1})
            /\ Cardinality(Blocks \cup {number + 1}) = Cardinality(Blocks) + 1
        BY <4>4, <4>5, FS_AddElement, Zenon
      <4>7. IsFiniteSet(New) /\ Cardinality(New) <= Cardinality(Blocks \cup {number + 1})
        BY <4>1, <4>6, FS_Subset
      <4>8. Cardinality(New) \in Nat
        BY <4>7, FS_CardinalityType, ZenonT(30)
      <4>9. Cardinality(New) <= turnLength
        BY <1>1, <4>3, <4>5, <4>6, <4>7, <4>8, SMTT(20)
      <4> QED
        BY <4>9 DEF New
    <3> QED
      BY <3>2, <3>3
  <2> QED
    BY <2>4, <2>5, Zenon
<1> QED
  BY <1>2, <1>3, Zenon

\* inturnValidator finds a validator, the one whose rank is the turn.
LEMMA InturnRank ==
    ASSUME ParliaAssumption, EpochAssumption, TypeOK, NEW k \in Nat
    PROVE  /\ InturnAt(k) \in validators
           /\ Cardinality({w \in validators : w < InturnAt(k)})
                = (k \div turnLength) % Cardinality(validators)
<1> DEFINE n == Cardinality(validators)
           offset == (k \div turnLength) % n
<1>1. /\ validators \in SUBSET Nat /\ IsFiniteSet(validators) /\ validators # {}
      /\ n \in Nat /\ turnLength \in Nat \ {0}
  BY Sizes
<1>2. n \in Nat \ {0}
  BY <1>1, FS_EmptySet
<1>3. offset \in 0 .. n - 1
  <2>1. k \div turnLength \in Nat
    BY <1>1, DivAndMod, Zenon
  <2> HIDE DEF n
  <2> QED
    BY <1>2, <2>1, DivAndMod, Zenon
<1>4. \E v \in validators : Cardinality({w \in validators : w < v}) = offset
  <2> HIDE DEF offset
  <2> QED
    BY <1>1, <1>3, EveryRank, Zenon
<1> QED
  BY <1>4, Zenon DEF InturnAt

\* Among the blocks of one window that are a validator's turns, no two are at the
\* same place of their turns, and none is at that of the next block.
LEMMA InturnMaySealInv ==
    ASSUME ParliaAssumption, EpochAssumption, Inv, InturnInv PROVE InturnMaySeal
<1> SUFFICES ASSUME ~Snake8, inturnOnly, Bohr \/ number >= lastSwitch + CheckLen
             PROVE  VerifySeal(InturnValidator)
  BY ZenonT(30) DEF InturnMaySeal
<1> DEFINE N == number + 1
           n == Cardinality(validators)
           t == turnLength
           m == n \div 2
           v == InturnAt(N)
           Blocks == {k \in DOMAIN recents : k > LeftHistoryBound(number) /\ recents[k] = v}
           Places == (0 .. t - 1) \ {N % t}
           g == [k \in Blocks |-> k % t]
<1>1. /\ number \in Nat /\ N \in Nat /\ DOMAIN recents \subseteq 1 .. number
      /\ CheckLen \in Nat /\ lastSwitch \in Nat
      /\ t \in Nat \ {0} /\ n \in Nat /\ CheckLen = (m + 1) * t - 1
  BY Sizes, SMTT(20) DEF Inv, TypeOK, CheckLen, MinerHistoryCheckLen
<1>2. n \in Nat \ {0} /\ m \in Nat /\ m < n
  <2>1. n # 0
    BY Sizes, FS_EmptySet, Zenon DEF Inv
  <2> HIDE DEF n
  <2> QED
    BY <1>1, <2>1
<1>3. ASSUME NEW k \in Blocks
      PROVE  /\ k \in Nat /\ k < N /\ N - k < (m + 1) * t
             /\ (k \div t) % n = (N \div t) % n
  <2>1. k \in 1 .. number /\ k > number - CheckLen
    BY <1>1, SMTT(20) DEF LeftHistoryBound
  <2>2. k > lastSwitch
    BY <1>1, <2>1, SMTT(20) DEF InturnInv
  <2>3. InturnAt(k) = v
    BY <2>2 DEF InturnInv
  <2>4. (k \div t) % n = (N \div t) % n
    <3> DEFINE Rank(w) == Cardinality({z \in validators : z < w})
    <3>1. k \in Nat /\ N \in Nat /\ TypeOK
      BY <1>1, <2>1 DEF Inv
    <3>2. Rank(InturnAt(k)) = (k \div t) % n
      BY <3>1, InturnRank, Zenon
    <3>3. Rank(InturnAt(N)) = (N \div t) % n
      BY <3>1, InturnRank, Zenon
    <3> HIDE DEF Rank, t, n, N
    <3> QED
      BY <2>3, <3>2, <3>3, Zenon
  <2>5. (m + 1) * t = CheckLen + 1
    <3>1. (m + 1) * t \in Int
      BY <1>1, <1>2, SMTT(30)
    <3>2. CheckLen = (m + 1) * t - 1
      BY <1>1, Zenon
    <3>3. \A x \in Int : x = (x - 1) + 1
      OBVIOUS
    <3> HIDE DEF m, t
    <3> QED
      BY <3>1, <3>2, <3>3, Zenon
  <2> QED
    BY <1>1, <2>1, <2>4, <2>5, SMTT(20)
<1> HIDE DEF N, n, t, m, v
<1>4. ASSUME NEW k \in Blocks PROVE k % t \in Places
  <2>1. k % t \in 0 .. t - 1
    BY <1>1, <1>3, DivAndMod, Zenon
  <2>2. k % t # N % t
    <3>1. /\ k \in Nat /\ k < N /\ N - k < (m + 1) * t
          /\ (k \div t) % n = (N \div t) % n
      BY <1>3
    <3> HIDE DEF Blocks, Places, g
    <3> QED
      BY <1>1, <1>2, <3>1, TurnsApart, Zenon
  <2> QED
    BY <2>1, <2>2
<1>5. ASSUME NEW j \in Blocks, NEW k \in Blocks, j < k PROVE j % t # k % t
  <2>1. j \in Nat /\ k \in Nat /\ (j \div t) % n = (k \div t) % n
    BY <1>3, Zenon
  <2>2. k - j < (m + 1) * t
    <3>1. (m + 1) * t \in Int
      BY <1>1, <1>2, SMTT(30)
    <3> QED
      BY <1>1, <1>3, <2>1, <3>1, SMTT(20)
  <2> QED
    BY <1>1, <1>2, <1>5, <2>1, <2>2, TurnsApart, ZenonT(30)
<1>6. g \in Injection(Blocks, Places)
  <2>0. \A k \in Blocks : k \in Nat
    BY <1>3
  <2> HIDE DEF Blocks, Places
  <2>1. g \in [Blocks -> Places]
    BY <1>4
  <2>2. ASSUME NEW j \in Blocks, NEW k \in Blocks, j # k PROVE g[j] # g[k]
    <3>1. j < k \/ k < j
      BY <2>0, <2>2, SMTT(20)
    <3>2. j % t # k % t
      BY <1>5, <3>1
    <3> QED
      BY <3>2
  <2> HIDE DEF g
  <2> QED
    BY <2>1, <2>2, Zenon DEF Injection, IsInjective
<1>7. IsFiniteSet(Places) /\ Cardinality(Places) = t - 1
  <2> DEFINE I == 0 .. t - 1
  <2>1. 0 \in Int /\ t - 1 \in Int
    BY <1>1
  <2>2. IsFiniteSet(I) /\ Cardinality(I) = IF 0 > t - 1 THEN 0 ELSE (t - 1) - 0 + 1
    BY <2>1, FS_Interval, Zenon
  <2>3. N % t \in I
    BY <1>1, DivAndMod, Zenon
  <2> HIDE DEF I
  <2>4. Cardinality(I) = t
    BY <1>1, <2>2
  <2>5. IsFiniteSet(I \ {N % t}) /\ Cardinality(I \ {N % t}) = t - 1
    BY <2>2, <2>3, <2>4, FS_RemoveElement, Zenon
  <2> QED
    BY <2>5, Zenon DEF I
<1>8. Cardinality(Blocks) < t
  <2> HIDE DEF Blocks, Places, g
  <2>1. IsFiniteSet(Blocks) /\ Cardinality(Blocks) <= t - 1
    BY <1>6, <1>7, FS_Injection
  <2>2. Cardinality(Blocks) \in Nat
    BY <2>1, FS_CardinalityType
  <2> QED
    BY <1>1, <2>1, <2>2, SMTT(20)
<1>9. v \in validators /\ v = InturnValidator
  BY <1>1, InturnRank, Zenon DEF v, N, InturnValidator, Inv
<1>10. Cardinality(Blocks) \in Nat
  <2> HIDE DEF Blocks, Places, g
  <2> QED
    BY <1>6, <1>7, FS_Injection, FS_CardinalityType, Zenon
<1>11. ~(Cardinality(Blocks) >= t)
  <2> HIDE DEF Blocks
  <2> QED
    BY <1>1, <1>8, <1>10, SMTT(20)
<1> QED
  BY <1>9, <1>11 DEF VerifySeal, SignRecently, CountRecents, t

\* A block sealed in turn is filed under its number, and a switch that clears or
\* changes the turns starts the history anew.
LEMMA InturnStep ==
    ASSUME ParliaAssumption, EpochAssumption, Inv, TypeOK', InturnInv,
           NEW v \in validators, NEW c \in NextAnnouncements, Seal(v, c)
    PROVE  InturnInv'
<1>1. /\ number \in Nat /\ number' = number + 1 /\ lastSwitch \in 0 .. number
      /\ DOMAIN recents' \subseteq 1 .. number + 1
      /\ Bohr' = Bohr /\ Snake8' = Snake8
  BY DEF Inv, TypeOK, Seal, Apply, Bohr, Snake8
<1>2. CASE Switches /\ (Bohr \/ c.validators # validators)
  <2>1. lastSwitch' = number + 1
    BY <1>2, Zenon DEF Seal, Record
  <2>2. \A k \in DOMAIN recents' : ~(k > lastSwitch')
    BY <1>1, <2>1, SMTT(20)
  <2>3. Bohr => DOMAIN recents' = {}
    BY <1>2 DEF Seal, Apply, SwitchSet, NoBlocks
  <2> QED
    BY <1>1, <2>2, <2>3, ZenonT(30) DEF InturnInv
<1>3. CASE ~(Switches /\ (Bohr \/ c.validators # validators))
  <2>1. /\ lastSwitch' = lastSwitch
        /\ inturnOnly' = (inturnOnly /\ v = InturnValidator)
        /\ validators' = validators /\ turnLength' = turnLength
    BY <1>3, ZenonT(30) DEF Seal, Apply, Record, SwitchSet
  <2>2. ASSUME NEW k PROVE InturnAt(k)' = InturnAt(k)
    BY <2>1, ZenonT(30) DEF InturnAt
  <2>3. ASSUME NEW k \in DOMAIN recents'
        PROVE  \/ k = number + 1 /\ recents'[k] = v
               \/ k \in DOMAIN recents /\ recents'[k] = recents[k]
    <3>1. k \in DOMAIN Extended(v) /\ recents'[k] = Extended(v)[k]
      BY <1>3, <2>3, Zenon DEF Seal, Apply, SwitchSet, Without
    <3>2. \/ k = number + 1 /\ recents'[k] = v
          \/ k \in DOMAIN Kept /\ recents'[k] = Kept[k]
      BY <3>1, Zenon DEF Extended
    <3> QED
      BY <3>2 DEF Kept, Without
  <2>4. Bohr' => \A k \in DOMAIN recents' : k > lastSwitch'
    BY <1>1, <2>1, <2>3, SMTT(20) DEF InturnInv
  <2>5. ASSUME ~Snake8', inturnOnly', NEW k \in DOMAIN recents', k > lastSwitch'
        PROVE  recents'[k] = InturnAt(k)'
    BY <1>1, <2>1, <2>2, <2>3, <2>5, Zenon DEF InturnInv, InturnValidator
  <2> QED
    BY <2>4, <2>5, Zenon DEF InturnInv
<1> QED
  BY <1>2, <1>3, Zenon

-------------------------------------------------------------------------------
(* The theorems *)

\* The snapshot stays well formed along every branch of verified headers.
THEOREM TypeCorrect == Spec => []TypeOK
<1>1. Inv => TypeOK
  BY DEF Inv
<1> QED
  BY <1>1, Invariance, PTL

\* Snapshot.apply accepts every signer that verifySeal accepts.
THEOREM SealedBlocksAlwaysApply == Spec => []SealedBlocksApply
<1>1. Inv => SealedBlocksApply
  BY SealedBlocksApplyInv, ParliaAssumption, EpochAssumption, Zenon
<1> QED
  BY <1>1, Invariance, PTL

\* The recents rule never holds off all validators of the set in force,
\* whatever the sizes of the sets that follow each other.
THEOREM SomeoneMayAlwaysSeal == Spec => []SomeoneMaySeal
<1>1. Inv => SomeoneMaySeal
  BY SomeoneMaySealInv, ParliaAssumption, EpochAssumption, ZenonT(30)
<1> QED
  BY <1>1, Invariance, PTL

\* The header before an epoch block is a sound checkpoint: the announced set is
\* the one in force, for every epoch longer than the window.
THEOREM CheckpointAlwaysInForce == Spec => []CheckpointInForce
<1>1. Inv => CheckpointInForce
  BY CheckpointInForceInv, ParliaAssumption, EpochAssumption
<1> QED
  BY <1>1, Invariance, PTL

\* No validator gets more than its turns in a window of the validator set in
\* force: the pruning of recents in Snapshot.apply loses no block that counts.
THEOREM TurnsAlwaysRespected == Spec => []TurnsRespected
<1> DEFINE T == HistoryInv /\ TurnsRespected
<1>1. Init => T
  <2> SUFFICES ASSUME Init PROVE T
    OBVIOUS
  <2>1. DOMAIN signers = {}
    BY DEF Init, NoBlocks
  <2>2. \A w : {k \in DOMAIN signers : signers[k] = w} = {}
    BY <2>1, Zenon
  <2>3. Cardinality({}) = 0 /\ turnLength \in Nat
    BY FS_EmptySet, TypeInit, Sizes, ParliaAssumption, EpochAssumption
  <2> QED
    BY <2>1, <2>2, <2>3 DEF HistoryInv, TurnsRespected
<1>2. Inv /\ Inv' /\ T /\ [Next]_vars => T'
  <2> SUFFICES ASSUME Inv, Inv', T, [Next]_vars PROVE T'
    OBVIOUS
  <2>1. CASE UNCHANGED vars
    BY <2>1 DEF vars, HistoryInv, TurnsRespected, LeftHistoryBound, CheckLen
  <2>2. ASSUME NEW v \in validators, NEW c \in NextAnnouncements, Seal(v, c)
        PROVE  T'
    BY <2>2, TurnsStep, ParliaAssumption, EpochAssumption, ZenonT(30)
  <2>3. CASE Snake8Fork
    <3>1. DOMAIN signers' = {}
      BY <2>3 DEF Snake8Fork, NoBlocks
    <3>2. \A w : {k \in DOMAIN signers' : signers'[k] = w} = {}
      BY <3>1, Zenon
    <3>3. Cardinality({}) = 0 /\ turnLength' \in Nat
      BY FS_EmptySet, ParliaAssumption, ZenonT(30) DEF Inv, TypeOK, ParliaAssumption
    <3> QED
      BY <3>1, <3>2, <3>3 DEF HistoryInv, TurnsRespected
  <2> QED
    BY <2>1, <2>2, <2>3 DEF Next
<1>3. T => TurnsRespected
  OBVIOUS
<1> HIDE DEF T
<1> QED
  BY <1>1, <1>2, <1>3, Invariance, PTL DEF Spec

\* Turns and the recents rule agree, for every set and turn length: if everybody
\* seals in turn, verifySeal never refuses the validator in turn.
THEOREM InturnMayAlwaysSeal == Spec => []InturnMaySeal
<1>1. Init => InturnInv
  BY DEF Init, InturnInv, NoBlocks
<1>2. Inv /\ Inv' /\ InturnInv /\ [Next]_vars => InturnInv'
  <2> SUFFICES ASSUME Inv, Inv', InturnInv, [Next]_vars PROVE InturnInv'
    OBVIOUS
  <2>1. CASE UNCHANGED vars
    BY <2>1, Zenon DEF vars, InturnInv, InturnAt, Bohr, Snake8
  <2>2. ASSUME NEW v \in validators, NEW c \in NextAnnouncements, Seal(v, c)
        PROVE  InturnInv'
    BY <2>2, InturnStep, ParliaAssumption, EpochAssumption, ZenonT(30) DEF Inv
  <2>3. CASE Snake8Fork
    BY <2>3 DEF Snake8Fork, InturnInv, Bohr, Snake8
  <2> QED
    BY <2>1, <2>2, <2>3, Zenon DEF Next
<1>3. Inv /\ InturnInv => InturnMaySeal
  BY InturnMaySealInv, ParliaAssumption, EpochAssumption
<1> QED
  BY <1>1, <1>2, <1>3, Invariance, PTL DEF Spec

\* With Bohr, apply clears the history at most once per epoch: the mark that it
\* leaves in Recents is that of the epoch of the last switch.
THEOREM AlwaysOneSwitchPerEpoch == Spec => OneSwitchPerEpoch
<1>1. Init => EpochKeyInv
  BY DEF Init, EpochKeyInv
<1>2. Inv /\ EpochKeyInv /\ [Next]_vars => EpochKeyInv'
  <2> SUFFICES ASSUME Inv, EpochKeyInv, [Next]_vars PROVE EpochKeyInv'
    OBVIOUS
  <2>1. CASE UNCHANGED vars
    BY <2>1, ZenonT(30) DEF vars, EpochKeyInv, Bohr
  <2>2. ASSUME NEW v \in validators, NEW c \in NextAnnouncements, Seal(v, c)
        PROVE  EpochKeyInv'
    BY <2>2 DEF Seal, Apply, SwitchSet, Record, EpochKeyInv, Bohr
  <2>3. CASE Snake8Fork
    BY <2>3 DEF Snake8Fork, EpochKeyInv, Bohr
  <2> QED
    BY <2>1, <2>2, <2>3 DEF Next
<1>3. EpochKeyInv /\ [Next]_vars =>
        [Bohr /\ lastSwitch > 0 /\ lastSwitch' # lastSwitch
           => lastSwitch' \div Epoch # lastSwitch \div Epoch]_vars
  <2> SUFFICES ASSUME EpochKeyInv, [Next]_vars, Bohr, lastSwitch > 0, lastSwitch' # lastSwitch
               PROVE  lastSwitch' \div Epoch # lastSwitch \div Epoch
    OBVIOUS
  <2>1. epochKey = lastSwitch \div Epoch
    BY DEF EpochKeyInv
  <2>2. PICK v \in validators, c \in NextAnnouncements : Seal(v, c)
    BY Zenon DEF Next, vars, Snake8Fork, Bohr
  <2>3. Switches /\ lastSwitch' = number + 1
    BY <2>2 DEF Seal, Record
  <2> QED
    BY <2>1, <2>3 DEF Switches
<1> QED
  BY <1>1, <1>2, <1>3, Invariance, PTL DEF Spec, OneSwitchPerEpoch

===============================================================================
