---------------------------- MODULE EpochHashes ----------------------------
(***************************************************************************)
(* epoch_hashes (main.rs:211-220): what the miners contributed to the      *)
(* current epoch and the best solution among it, both behind one RwLock.   *)
(* Two operations write it: a handler task contributes a solution, and the *)
(* submission loop or its attender resets the epoch.                       *)
(***************************************************************************)
EXTENDS Naturals

CONSTANTS
    Miner,      \* wallets (pubkeys)
    Solution,   \* what clients may send
    NoSolution  \* Option::None

\* A solution is known by the challenge it hashes, the chunk of 4_000_000 nonces
\* its nonce lies in and the difficulty of its hash.
ASSUME SolutionAssumption ==
    /\ Solution \subseteq [challenge : Nat, chunk : Nat, difficulty : Nat]
    /\ NoSolution \notin Solution

VARIABLES
    bestHash,       \* best_hash: solution and difficulty
    contributions   \* contributions, NoSolution where the map has no entry

epochHashes == <<bestHash, contributions>>

NoBestHash == [solution |-> NoSolution, difficulty |-> 0]
NoContributions == [m \in Miner |-> NoSolution]

EpochHashesTypeOK ==
    /\ bestHash \in [solution : Solution \cup {NoSolution}, difficulty : Nat]
    /\ contributions \in [Miner -> Solution \cup {NoSolution}]

-----------------------------------------------------------------------------
(* Ways to get Contribute and ResetEpochHashes wrong *)

Contribute_FirstIsBest(m, s) ==
    /\ contributions' = [contributions EXCEPT ![m] = s]
    /\ bestHash' = IF bestHash.solution = NoSolution
                   THEN [solution |-> s, difficulty |-> s.difficulty]
                   ELSE bestHash

Contribute_BestNotRecorded(m, s) ==
    IF s.difficulty > bestHash.difficulty
    THEN /\ bestHash' = [solution |-> s, difficulty |-> s.difficulty]
         /\ UNCHANGED contributions
    ELSE /\ contributions' = [contributions EXCEPT ![m] = s]
         /\ UNCHANGED bestHash

ResetEpochHashes_KeepsDifficulty ==
    /\ bestHash' = [bestHash EXCEPT !.solution = NoSolution]
    /\ contributions' = NoContributions

-----------------------------------------------------------------------------
\* A solution of m is recorded under the write lock.  Whether it improves on
\* what m has on record was decided earlier and is not looked at again.
Contribute(m, s) ==
    /\ contributions' = [contributions EXCEPT ![m] = s]
    /\ bestHash' = IF s.difficulty > bestHash.difficulty
                   THEN [solution |-> s, difficulty |-> s.difficulty]
                   ELSE bestHash

\* Under the read lock: is s better than what m already supplied?
Improves(m, s) ==
    contributions[m] # NoSolution => s.difficulty > contributions[m].difficulty

ResetEpochHashes ==
    /\ bestHash' = NoBestHash
    /\ contributions' = NoContributions

-----------------------------------------------------------------------------
(* Properties *)

\* The best hash and the contributions are cleared and filled together: the
\* submission loop submits as soon as there is a best solution, and divides the
\* reward by the hash power of the contributions it finds then.
BestHashSound ==
    IF bestHash.solution = NoSolution
    THEN bestHash.difficulty = 0 /\ contributions = NoContributions
    ELSE /\ bestHash.difficulty = bestHash.solution.difficulty
         /\ contributions # NoContributions

\* No contribution beats the solution the pool is going to submit, however the
\* tasks' read and write sections interleave with each other and with resets.
BestDominates ==
    \A m \in Miner : contributions[m] # NoSolution =>
        contributions[m].difficulty <= bestHash.difficulty

\* The best solution is still on record as somebody's contribution, which is
\* where pool_mine_success_processor.rs looks its nonce up to close the epoch.
BestIsContributed ==
    bestHash.solution # NoSolution =>
        \E m \in Miner : contributions[m] = bestHash.solution

=============================================================================
