------------------------------- MODULE Intake -------------------------------
(***************************************************************************)
(* The solution path of client_message_processor.rs.                       *)
(*                                                                         *)
(* Every BestSolution message is handled by a task of its own              *)
(* (tokio::spawn).  A task takes the locks of the server one after the     *)
(* other, never two at a time: the nonce ranges, the sockets, the proof,   *)
(* the epoch hashes for reading and the epoch hashes for writing.  Every   *)
(* lock section is one action here, so tasks interleave between them, with *)
(* each other and with the rest of the server.                             *)
(*                                                                         *)
(* The rest of the server appears as four environment actions.  Module     *)
(* Pool replaces them by the processors that really perform them.          *)
(***************************************************************************)
EXTENDS EpochHashes

CONSTANTS
    Client,         \* socket addresses of client connections
    Pubkey,         \* the wallet a connection authenticated with
    Task,           \* slots for handler tasks that run at the same time
    From,           \* the connection a task's message came from
    Challenge,      \* the challenges the pool's proof goes through
    Chunk,          \* nonce ranges, numbered in steps of 4_000_000
    MinDifficulty,  \* --expected-min-difficulty
    NoRange         \* no entry in client_nonce_ranges

\* A difficulty under MIN_DIFF makes the hash power underflow, so the smallest
\* one an operator can sensibly ask for is above 0.
ASSUME IntakeAssumption ==
    /\ Pubkey \in [Client -> Miner]
    /\ From \in [Task -> Client]
    /\ MinDifficulty \in Nat \ {0}
    /\ Challenge \subseteq Nat
    /\ Chunk \subseteq Nat
    /\ NoRange \notin Nat

VARIABLES
    proof,          \* app_proof: its challenge
    nonceRanges,    \* client_nonce_ranges
    sockets,        \* keys of shared_state.sockets
    taskPc,         \* the lock section each handler task takes next
    taskSol         \* the solution each handler task holds

serverVars == <<proof, nonceRanges, sockets>>
taskVars == <<taskPc, taskSol>>
vars == <<serverVars, epochHashes, taskVars>>

MinerOf(t) == Pubkey[From[t]]

TypeOK ==
    /\ EpochHashesTypeOK
    /\ proof \in Challenge
    /\ nonceRanges \in [Miner -> Chunk \cup {NoRange}]
    /\ sockets \in SUBSET Client
    /\ taskPc \in [Task -> {"idle", "range", "socket", "validate", "compare", "insert"}]
    /\ taskSol \in [Task -> Solution \cup {NoSolution}]
    /\ \A t \in Task : taskSol[t] = NoSolution <=> taskPc[t] = "idle"

Init ==
    /\ proof \in Challenge
    /\ nonceRanges = [m \in Miner |-> NoRange]
    /\ sockets = {}
    /\ bestHash = NoBestHash
    /\ contributions = NoContributions
    /\ taskPc = [t \in Task |-> "idle"]
    /\ taskSol = [t \in Task |-> NoSolution]

-----------------------------------------------------------------------------
(* A handler task *)

Goto(t, pc) == taskPc' = [taskPc EXCEPT ![t] = pc] /\ UNCHANGED taskSol

Return_KeepsSolution(t) == Goto(t, "idle")

Return(t) ==
    /\ taskPc' = [taskPc EXCEPT ![t] = "idle"]
    /\ taskSol' = [taskSol EXCEPT ![t] = NoSolution]

\* A BestSolution message arrives and its task is spawned.
Receive(t, s) ==
    /\ taskPc[t] = "idle"
    /\ taskPc' = [taskPc EXCEPT ![t] = "range"]
    /\ taskSol' = [taskSol EXCEPT ![t] = s]
    /\ UNCHANGED <<serverVars, epochHashes>>

\* client_nonce_ranges.read(): no range, or a nonce outside it, ends the task.
CheckRange(t) ==
    /\ taskPc[t] = "range"
    /\ \/ nonceRanges[MinerOf(t)] = taskSol[t].chunk /\ Goto(t, "socket")
       \/ nonceRanges[MinerOf(t)] # taskSol[t].chunk /\ Return(t)
    /\ UNCHANGED <<serverVars, epochHashes>>

\* The connection must still be in the sockets map; it supplies miner_id.
LookupSocket(t) ==
    /\ taskPc[t] = "socket"
    /\ \/ From[t] \in sockets /\ Goto(t, "validate")
       \/ From[t] \notin sockets /\ Return(t)
    /\ UNCHANGED <<serverVars, epochHashes>>

\* The challenge is copied out of app_proof and the lock released.  A solution
\* of another challenge is answered with a text, one that is too easy dropped.
Qualifies(s) == s.challenge = proof /\ s.difficulty >= MinDifficulty

Validate(t) ==
    /\ taskPc[t] = "validate"
    /\ \/ Qualifies(taskSol[t]) /\ Goto(t, "compare")
       \/ ~Qualifies(taskSol[t]) /\ Return(t)
    /\ UNCHANGED <<serverVars, epochHashes>>

Compare_NotLooked(t) ==
    /\ taskPc[t] = "compare"
    /\ Goto(t, "insert")
    /\ UNCHANGED <<serverVars, epochHashes>>

Compare(t) ==
    /\ taskPc[t] = "compare"
    /\ \/ Improves(MinerOf(t), taskSol[t]) /\ Goto(t, "insert")
       \/ ~Improves(MinerOf(t), taskSol[t]) /\ Return(t)
    /\ UNCHANGED <<serverVars, epochHashes>>

Insert(t) ==
    /\ taskPc[t] = "insert"
    /\ Contribute(MinerOf(t), taskSol[t])
    /\ Return(t)
    /\ UNCHANGED serverVars

TaskStep(t) ==
    \/ CheckRange(t)
    \/ LookupSocket(t)
    \/ Validate(t)
    \/ Compare(t)
    \/ Insert(t)

-----------------------------------------------------------------------------
(* The rest of the server *)

\* The proof account is refreshed, by notification or by request.
ProofChange ==
    /\ proof' \in Challenge
    /\ UNCHANGED <<nonceRanges, sockets, epochHashes, taskVars>>

\* A mission's nonce range is recorded; entries are never removed.
RangeChange ==
    /\ \E m \in Miner, c \in Chunk : nonceRanges' = [nonceRanges EXCEPT ![m] = c]
    /\ UNCHANGED <<proof, sockets, epochHashes, taskVars>>

\* A client connects, or its connection is dropped.
SocketChange ==
    /\ \E c \in Client : sockets' \in {sockets \cup {c}, sockets \ {c}}
    /\ UNCHANGED <<proof, nonceRanges, epochHashes, taskVars>>

\* The submission loop or its attender clears the epoch.
EpochReset ==
    /\ ResetEpochHashes
    /\ UNCHANGED <<serverVars, taskVars>>

Server == ProofChange \/ RangeChange \/ SocketChange \/ EpochReset

Next ==
    \/ \E t \in Task, s \in Solution : Receive(t, s)
    \/ \E t \in Task : TaskStep(t)
    \/ Server

\* A spawned task is eventually polled and gets its locks: the only one held across a
\* wait, by the reply to an invalid solution, is given back (Access, EveryoneServed).
Fairness == \A t \in Task : WF_vars(TaskStep(t))

Spec == Init /\ [][Next]_vars /\ Fairness

-----------------------------------------------------------------------------
(* Properties *)

\* Every miner has at most one solution under way at a time: one connection per
\* wallet, and a client that waits for its task to end before it sends again.
\* Nothing in the server enforces it.
Serial == \A t, u \in Task : MinerOf(t) = MinerOf(u) => t = u

\* "Miner submitted lower diff than a previous contribution, discarding lower
\* diff" (client_message_processor.rs:154): an entry is only ever replaced by a
\* better one.  This and BestIsContributed hold for clients that are Serial.
LowerDifficultyDiscarded ==
    [][\A m \in Miner :
         contributions[m] # NoSolution /\ contributions'[m] # NoSolution =>
            contributions'[m].difficulty >= contributions[m].difficulty]_vars

=============================================================================
