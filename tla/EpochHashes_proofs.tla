------------------------- MODULE EpochHashes_proofs -------------------------
(***************************************************************************)
(* What the two operations on the epoch hashes preserve, each stated once. *)
(***************************************************************************)
EXTENDS EpochHashes, TLAPS

\* A contribution leaves the epoch hashes well-typed.
LEMMA ContributeTypeOK ==
    ASSUME EpochHashesTypeOK,
           NEW m \in Miner, NEW s \in Solution, Contribute(m, s)
    PROVE  EpochHashesTypeOK'
<1>1. s.difficulty \in Nat
  BY SolutionAssumption
<1>2. bestHash' \in [solution : Solution \cup {NoSolution}, difficulty : Nat]
  BY <1>1 DEF EpochHashesTypeOK, Contribute
<1>3. contributions' \in [Miner -> Solution \cup {NoSolution}]
  BY DEF EpochHashesTypeOK, Contribute
<1> QED  BY <1>2, <1>3 DEF EpochHashesTypeOK

\* So does a reset.
LEMMA ResetTypeOK ==
    ASSUME ResetEpochHashes
    PROVE  EpochHashesTypeOK'
BY DEF EpochHashesTypeOK, ResetEpochHashes, NoBestHash, NoContributions

\* After a contribution of some difficulty there is a best solution.
LEMMA ContributeSound ==
    ASSUME EpochHashesTypeOK, BestHashSound,
           NEW m \in Miner, NEW s \in Solution, s.difficulty > 0, Contribute(m, s)
    PROVE  BestHashSound'
<1>1. s # NoSolution /\ s.difficulty \in Nat
  BY SolutionAssumption
<1>2. contributions' # NoContributions
  BY <1>1 DEF Contribute, EpochHashesTypeOK, NoContributions
<1>3. CASE s.difficulty > bestHash.difficulty
  BY <1>1, <1>2, <1>3 DEF Contribute, BestHashSound
<1>4. CASE ~(s.difficulty > bestHash.difficulty)
  <2>1. bestHash' = bestHash
    BY <1>4 DEF Contribute
  <2>2. bestHash.solution # NoSolution
    BY <1>1, <1>4 DEF BestHashSound, EpochHashesTypeOK
  <2> QED  BY <1>2, <2>1, <2>2 DEF BestHashSound
<1> QED  BY <1>3, <1>4

\* A contribution never beats the best hash it may have replaced.
LEMMA ContributeDominates ==
    ASSUME EpochHashesTypeOK, BestDominates,
           NEW m \in Miner, NEW s \in Solution, Contribute(m, s)
    PROVE  BestDominates'
<1>1. s.difficulty \in Nat
  BY SolutionAssumption
<1>2. bestHash'.difficulty >= s.difficulty /\ bestHash'.difficulty >= bestHash.difficulty
  BY <1>1 DEF Contribute, EpochHashesTypeOK
<1>3. SUFFICES ASSUME NEW n \in Miner, contributions'[n] # NoSolution
               PROVE  contributions'[n].difficulty <= bestHash'.difficulty
  BY DEF BestDominates
<1>4. CASE n = m
  BY <1>2, <1>4 DEF Contribute, EpochHashesTypeOK
<1>5. CASE n # m
  <2>1. contributions'[n] = contributions[n]
    BY <1>5 DEF Contribute, EpochHashesTypeOK
  <2>2. contributions[n] \in Solution
    BY <1>3, <2>1 DEF EpochHashesTypeOK
  <2>3. contributions[n].difficulty \in Nat
    BY <2>2, SolutionAssumption
  <2>4. bestHash.difficulty \in Nat /\ bestHash'.difficulty \in Nat
    BY <1>1 DEF Contribute, EpochHashesTypeOK
  <2> QED  BY <1>2, <1>3, <2>1, <2>3, <2>4 DEF BestDominates
<1> QED  BY <1>4, <1>5

\* A miner that only ever improves its entry cannot overwrite the best solution
\* without becoming the best itself.
LEMMA ContributeKeepsBest ==
    ASSUME EpochHashesTypeOK, BestHashSound, BestIsContributed,
           NEW m \in Miner, NEW s \in Solution, Improves(m, s), Contribute(m, s)
    PROVE  BestIsContributed'
<1>1. s.difficulty \in Nat
  BY SolutionAssumption
<1>2. CASE s.difficulty > bestHash.difficulty
  <2>1. bestHash'.solution = s /\ contributions'[m] = s
    BY <1>2 DEF Contribute, EpochHashesTypeOK
  <2> QED  BY <2>1 DEF BestIsContributed
<1>3. CASE ~(s.difficulty > bestHash.difficulty)
  <2>1. bestHash' = bestHash
    BY <1>3 DEF Contribute
  <2>2. SUFFICES ASSUME bestHash.solution # NoSolution
                 PROVE  \E n \in Miner : contributions'[n] = bestHash.solution
    BY <2>1 DEF BestIsContributed
  <2>3. PICK n \in Miner : contributions[n] = bestHash.solution
    BY <2>2 DEF BestIsContributed
  <2>4. n # m
    BY <1>1, <1>3, <2>2, <2>3 DEF Improves, BestHashSound, EpochHashesTypeOK
  <2>5. contributions'[n] = bestHash.solution
    BY <2>3, <2>4 DEF Contribute, EpochHashesTypeOK
  <2> QED  BY <2>5
<1> QED  BY <1>2, <1>3

\* A reset empties both parts, which satisfies everything that is said of them.
LEMMA ResetSound ==
    ASSUME ResetEpochHashes
    PROVE  BestHashSound' /\ BestDominates' /\ BestIsContributed'
BY DEF ResetEpochHashes, NoBestHash, NoContributions, BestHashSound, BestDominates,
       BestIsContributed

=============================================================================
