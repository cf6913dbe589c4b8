----------------------------- MODULE Submission -----------------------------
(***************************************************************************)
(* pool_submission_processor.rs: the loop that submits the epoch's best    *)
(* solution, and the attender it spawns for a landed transaction.          *)
(*                                                                         *)
(* The loop runs for the life of the server.  When its copy of the proof   *)
(* is past the cutoff and the buffer time, and there is a best solution,   *)
(* it waits a while for the other miners, pauses new missions, and tries   *)
(* to land the solution.  If that fails it resets the epoch itself.  If it *)
(* succeeds it spawns an attender and waits for its oneshot message: the   *)
(* attender watches app_proof until the new challenge shows, has the       *)
(* contributors credited, resets the epoch and resumes missions.           *)
(*                                                                         *)
(* Every access to shared state or to the RPC node is an action.  The      *)
(* handler tasks, the mission processor and the clients appear as          *)
(* environment actions; module Pool replaces them by the real ones.        *)
(***************************************************************************)
EXTENDS EpochHashes, ProofAccount, FiniteSets

CONSTANTS
    Client,         \* socket addresses of client connections
    Pubkey,         \* the wallet a connection authenticated with
    SubmitLimit,    \* SUBMIT_LIMIT, attempts to land a solution
    CheckLimit,     \* CHECK_LIMIT, the attender's looks at the proof
    WaitLimit,      \* checkpoints the loop waits for missing contributions
    MaxNonce        \* bound: chunks handed out between two resets

ASSUME SubmissionAssumption ==
    /\ Pubkey \in [Client -> Miner]
    /\ IsFiniteSet(Client)
    /\ SubmitLimit \in Nat \ {0}
    /\ CheckLimit \in Nat \ {0}
    /\ WaitLimit \in Nat
    /\ MaxNonce \in Nat

VARIABLES
    appNonce,       \* app_nonce, in chunks
    paused,         \* PAUSED
    sockets,        \* keys of shared_state.sockets
    subPc,          \* where the submission loop is
    oldProof,       \* its old_proof
    bestSolution,   \* its best_solution
    numActive,      \* its num_active_miners
    numWaiting,     \* its num_waiting
    attempt,        \* its i, from 1
    refreshed,      \* the proof it fetched to store in app_proof
    tx,             \* the transaction it waits for: none, sent or landed
    stray,          \* an earlier attempt's transaction may still land
    attPc,          \* where the attender is
    numChecking,    \* its num_checking
    latestProof,    \* its latest_proof
    oneshot,        \* the mission_completed channel
    mineSuccess     \* messages sent to pool_mine_success_processor

\* Local variables that are out of scope have their initial values, so that states
\* that behave alike are equal.  The attender's own copies of old_proof and best_solution
\* are those of the loop, which is waiting for it and leaves them alone.

sharedVars == <<epochHashes, appNonce, paused, sockets>>
localVars == <<oldProof, bestSolution, numActive, numWaiting, attempt, refreshed>>
txVars == <<tx, stray>>
attVars == <<attPc, numChecking, latestProof, oneshot, mineSuccess>>
subVars == <<subPc, localVars, txVars>>
vars == <<accountVars, sharedVars, subVars, attVars>>

Message ==
    [from : Challenge, to : Challenge, best : Solution \cup {NoSolution},
     contributions : [Miner -> Solution \cup {NoSolution}]]

TypeOK ==
    /\ EpochHashesTypeOK
    /\ AccountTypeOK
    /\ appNonce \in 0 .. MaxNonce
    /\ paused \in BOOLEAN
    /\ sockets \in SUBSET Client
    /\ subPc \in {"proof", "cutoff", "peek", "snapshot", "pause", "config", "send",
                  "confirm", "await", "refresh", "store", "nonce", "reset", "resume"}
    /\ oldProof \in Challenge
    /\ bestSolution \in Solution \cup {NoSolution}
    /\ numActive \in Nat
    /\ numWaiting \in 0 .. WaitLimit
    /\ attempt \in 0 .. SubmitLimit
    /\ refreshed \in Challenge
    /\ tx \in {"none", "sent", "landed"}
    /\ stray \in BOOLEAN
    /\ attPc \in {"none", "poll", "rpc", "store", "rows", "latest", "credit",
                  "writeBack", "nonce", "reset", "resume", "signal"}
    /\ numChecking \in 0 .. CheckLimit
    /\ latestProof \in Challenge
    /\ oneshot \in {"empty", "sent", "dropped"}
    /\ mineSuccess \in Seq(Message)

Init ==
    /\ AccountInit
    /\ bestHash = NoBestHash
    /\ contributions = NoContributions
    /\ appNonce = 0
    /\ paused = FALSE
    /\ sockets = {}
    /\ subPc = "proof"
    /\ oldProof = 0
    /\ bestSolution = NoSolution
    /\ numActive = 0
    /\ numWaiting = 0
    /\ attempt = 0
    /\ refreshed = 0
    /\ tx = "none"
    /\ stray = FALSE
    /\ attPc = "none"
    /\ numChecking = 0
    /\ latestProof = 0
    /\ oneshot = "empty"
    /\ mineSuccess = <<>>

-----------------------------------------------------------------------------
(* The submission loop, up to the transaction *)

\* The next iteration: num_waiting alone outlives the one that ends.
NextIteration ==
    /\ subPc' = "proof"
    /\ oldProof' = 0
    /\ bestSolution' = NoSolution
    /\ numActive' = 0
    /\ attempt' = 0
    /\ refreshed' = 0

ReadProof ==
    /\ subPc = "proof"
    /\ oldProof' = proof
    /\ subPc' = "cutoff"
    /\ UNCHANGED <<accountVars, sharedVars, bestSolution, numActive, numWaiting,
                   attempt, refreshed, txVars, attVars>>

\* Before the end of the buffer time there is nothing to submit yet.
CheckCutoff ==
    /\ subPc = "cutoff"
    /\ IF Cutoff(oldProof) = "overdue"
       THEN subPc' = "peek" /\ UNCHANGED localVars
       ELSE NextIteration /\ UNCHANGED numWaiting
    /\ UNCHANGED <<accountVars, sharedVars, txVars, attVars>>

Peek ==
    /\ subPc = "peek"
    /\ IF bestHash.solution # NoSolution
       THEN /\ subPc' = "snapshot"
            /\ numActive' = Cardinality(sockets)
            /\ UNCHANGED <<oldProof, bestSolution, attempt, refreshed>>
       ELSE NextIteration
    /\ UNCHANGED <<accountVars, sharedVars, numWaiting, txVars, attVars>>

Contributors == {m \in Miner : contributions[m] # NoSolution}

KeepsWaiting_OffByOne ==
    Cardinality(Contributors) # numActive /\ numWaiting <= WaitLimit

\* The contributions are counted, and compared with the number of connections.
KeepsWaiting == Cardinality(Contributors) # numActive /\ numWaiting < WaitLimit

Snapshot_NotCounted ==
    /\ subPc = "snapshot"
    /\ IF KeepsWaiting
       THEN NextIteration /\ UNCHANGED numWaiting
       ELSE /\ numWaiting' = 0
            /\ subPc' = "pause"
            /\ bestSolution' = bestHash.solution
            /\ UNCHANGED <<oldProof, numActive, attempt, refreshed>>
    /\ UNCHANGED <<accountVars, sharedVars, txVars, attVars>>

\* The best solution is read again, now to be kept, with the contributions.  The
\* loop starts over to wait for missing ones, at most WaitLimit times in a row.
Snapshot ==
    /\ subPc = "snapshot"
    /\ IF KeepsWaiting
       THEN numWaiting' = numWaiting + 1 /\ NextIteration
       ELSE /\ numWaiting' = 0
            /\ subPc' = "pause"
            /\ bestSolution' = bestHash.solution
            /\ UNCHANGED <<oldProof, numActive, attempt, refreshed>>
    /\ UNCHANGED <<accountVars, sharedVars, txVars, attVars>>

Pause ==
    /\ subPc = "pause"
    /\ paused' = TRUE
    /\ attempt' = 1
    /\ subPc' = "config"
    /\ UNCHANGED <<accountVars, epochHashes, appNonce, sockets, oldProof, bestSolution,
                   numActive, numWaiting, refreshed, txVars, attVars>>

\* The next round of the submit loop, or out of it with nothing landed.
NextAttempt ==
    /\ attempt' = IF attempt = SubmitLimit THEN 0 ELSE attempt + 1
    /\ subPc' = IF attempt = SubmitLimit THEN "refresh" ELSE "config"

GiveUp == attempt' = 0 /\ subPc' = "refresh"

\* The config and proof are loaded.  A solution that is not for the loaded
\* proof is given up; when loading fails it is sent unchecked.
LoadConfig ==
    /\ subPc = "config"
    /\ IF bestSolution = NoSolution THEN NextAttempt
       ELSE \/ bestSolution.challenge # rpcView /\ GiveUp
            \/ subPc' = "send" /\ UNCHANGED attempt
    /\ UNCHANGED <<accountVars, sharedVars, oldProof, bestSolution, numActive,
                   numWaiting, refreshed, txVars, attVars>>

\* The transaction goes out, or no blockhash could be had for it.
Send ==
    /\ subPc = "send"
    /\ \/ tx' = "sent" /\ subPc' = "confirm" /\ UNCHANGED attempt
       \/ NextAttempt /\ UNCHANGED tx
    /\ UNCHANGED <<accountVars, sharedVars, oldProof, bestSolution, numActive,
                   numWaiting, refreshed, stray, attVars>>

\* The transaction failed on the chain: it will not land any more.
ConfirmRejected ==
    /\ subPc = "confirm"
    /\ tx = "sent"
    /\ \/ bestSolution.challenge # chain /\ GiveUp    \* HashInvalid
       \/ NextAttempt                                 \* any other error code
    /\ tx' = "none"
    /\ UNCHANGED <<accountVars, sharedVars, oldProof, bestSolution, numActive,
                   numWaiting, refreshed, stray, attVars>>

\* The answer says nothing about the transaction (a timeout, a lost connection):
\* it may have landed, or land later.
ConfirmUnknown ==
    /\ subPc = "confirm"
    /\ tx \in {"sent", "landed"}
    /\ NextAttempt
    /\ tx' = "none"
    /\ stray' = (stray \/ (tx = "sent" /\ bestSolution.challenge = chain))
    /\ UNCHANGED <<accountVars, sharedVars, oldProof, bestSolution, numActive,
                   numWaiting, refreshed, attVars>>

\* Success: the attender is spawned and the loop waits for it.
ConfirmOk ==
    /\ subPc = "confirm"
    /\ tx = "landed"
    /\ tx' = "none"
    /\ subPc' = "await"
    /\ attPc' = "poll"
    /\ UNCHANGED <<accountVars, sharedVars, localVars, stray, numChecking, latestProof,
                   oneshot, mineSuccess>>

\* Either way of hearing from the attender ends the iteration.
Await ==
    /\ subPc = "await"
    /\ oneshot # "empty"
    /\ NextIteration
    /\ oneshot' = "empty"
    /\ UNCHANGED <<accountVars, sharedVars, numWaiting, txVars, attPc, numChecking,
                   latestProof, mineSuccess>>

-----------------------------------------------------------------------------
(* The submission loop after a failure *)

\* The proof is fetched; if that fails app_proof keeps what it has.
Refresh ==
    /\ subPc = "refresh"
    /\ \/ refreshed' = rpcView /\ subPc' = "store"
       \/ subPc' = "nonce" /\ UNCHANGED refreshed
    /\ UNCHANGED <<accountVars, sharedVars, oldProof, bestSolution, numActive,
                   numWaiting, attempt, txVars, attVars>>

StoreRefreshed ==
    /\ subPc = "store"
    /\ proof' = refreshed
    /\ subPc' = "nonce"
    /\ UNCHANGED <<chainVars, sharedVars, localVars, txVars, attVars>>

ResetNonce ==
    /\ subPc = "nonce"
    /\ appNonce' = 0
    /\ subPc' = "reset"
    /\ UNCHANGED <<accountVars, epochHashes, paused, sockets, localVars, txVars, attVars>>

ResetEpoch_NoResume ==
    /\ subPc = "reset"
    /\ ResetEpochHashes
    /\ NextIteration
    /\ UNCHANGED <<accountVars, appNonce, paused, sockets, numWaiting, txVars, attVars>>

ResetEpoch ==
    /\ subPc = "reset"
    /\ ResetEpochHashes
    /\ subPc' = "resume"
    /\ UNCHANGED <<accountVars, appNonce, paused, sockets, localVars, txVars, attVars>>

Resume ==
    /\ subPc = "resume"
    /\ paused' = FALSE
    /\ NextIteration
    /\ UNCHANGED <<accountVars, epochHashes, appNonce, sockets, numWaiting, txVars, attVars>>

Loop ==
    \/ ReadProof
    \/ CheckCutoff
    \/ Peek
    \/ Snapshot
    \/ Pause
    \/ LoadConfig
    \/ Send
    \/ ConfirmRejected
    \/ ConfirmUnknown
    \/ ConfirmOk
    \/ Await
    \/ Refresh
    \/ StoreRefreshed
    \/ ResetNonce
    \/ ResetEpoch
    \/ Resume

-----------------------------------------------------------------------------
(* The attender *)

AttEnds == attPc' = "none" /\ numChecking' = 0 /\ latestProof' = 0

\* app_proof is compared with old_proof.  While they are equal the attender asks
\* the RPC node as well, and drops its end of the channel at CHECK_LIMIT.
AttPoll ==
    /\ attPc = "poll"
    /\ IF proof # oldProof
       THEN attPc' = "rows" /\ UNCHANGED <<numChecking, latestProof, oneshot>>
       ELSE IF numChecking + 1 < CheckLimit
       THEN /\ attPc' = "rpc"
            /\ numChecking' = numChecking + 1
            /\ UNCHANGED <<latestProof, oneshot>>
       ELSE AttEnds /\ oneshot' = "dropped"
    /\ UNCHANGED <<accountVars, sharedVars, subVars, mineSuccess>>

AttRpc_NotStored ==
    /\ attPc = "rpc"
    /\ \/ rpcView # oldProof /\ attPc' = "rows" /\ latestProof' = rpcView
       \/ attPc' = "poll" /\ UNCHANGED latestProof
    /\ UNCHANGED <<accountVars, sharedVars, subVars, numChecking, oneshot, mineSuccess>>

\* It may answer with the old proof still, or not at all.
AttRpc ==
    /\ attPc = "rpc"
    /\ \/ rpcView # oldProof /\ attPc' = "store" /\ latestProof' = rpcView
       \/ attPc' = "poll" /\ UNCHANGED latestProof
    /\ UNCHANGED <<accountVars, sharedVars, subVars, numChecking, oneshot, mineSuccess>>

\* The RPC node knew first: its answer becomes app_proof.  From here to the end
\* this branch computes the reward for the log only.
AttStore ==
    /\ attPc = "store"
    /\ proof' = latestProof
    /\ attPc' = "nonce"
    /\ UNCHANGED <<chainVars, sharedVars, subVars, numChecking, latestProof, oneshot,
                   mineSuccess>>

\* app_proof was updated by notification: the challenge rows of the database are
\* brought up to date first, retrying for as long as the database fails.
AttRows ==
    /\ attPc = "rows"
    /\ attPc' = "latest"
    /\ UNCHANGED <<accountVars, sharedVars, subVars, numChecking, latestProof, oneshot,
                   mineSuccess>>

AttLatest_ResetsEpoch ==
    /\ attPc = "latest"
    /\ latestProof' = proof
    /\ attPc' = "credit"
    /\ ResetEpochHashes
    /\ UNCHANGED <<accountVars, appNonce, paused, sockets, subVars, numChecking, oneshot,
                   mineSuccess>>

AttLatest ==
    /\ attPc = "latest"
    /\ latestProof' = proof
    /\ attPc' = "credit"
    /\ UNCHANGED <<accountVars, sharedVars, subVars, numChecking, oneshot, mineSuccess>>

\* The contributions are cloned and sent off with the reward, which is the
\* difference of the balances of latest_proof and old_proof.
AttCredit ==
    /\ attPc = "credit"
    /\ mineSuccess' = Append(mineSuccess,
           [from |-> oldProof, to |-> latestProof, best |-> bestSolution,
            contributions |-> contributions])
    /\ attPc' = "writeBack"
    /\ UNCHANGED <<accountVars, sharedVars, subVars, numChecking, latestProof, oneshot>>

AttWriteBack_SignalsEarly ==
    /\ attPc = "writeBack"
    /\ proof' = latestProof
    /\ oneshot' = "sent"
    /\ attPc' = "nonce"
    /\ UNCHANGED <<chainVars, sharedVars, subVars, numChecking, latestProof, mineSuccess>>

AttWriteBack ==
    /\ attPc = "writeBack"
    /\ proof' = latestProof
    /\ attPc' = "nonce"
    /\ UNCHANGED <<chainVars, sharedVars, subVars, numChecking, latestProof, oneshot,
                   mineSuccess>>

\* Both branches end with the reset of nonce and epoch, the end of the pause and
\* the oneshot message, in this order.
AttNonce ==
    /\ attPc = "nonce"
    /\ appNonce' = 0
    /\ attPc' = "reset"
    /\ UNCHANGED <<accountVars, epochHashes, paused, sockets, subVars, numChecking,
                   latestProof, oneshot, mineSuccess>>

AttReset ==
    /\ attPc = "reset"
    /\ ResetEpochHashes
    /\ attPc' = "resume"
    /\ UNCHANGED <<accountVars, appNonce, paused, sockets, subVars, numChecking,
                   latestProof, oneshot, mineSuccess>>

AttResume ==
    /\ attPc = "resume"
    /\ paused' = FALSE
    /\ attPc' = "signal"
    /\ UNCHANGED <<accountVars, epochHashes, appNonce, sockets, subVars, numChecking,
                   latestProof, oneshot, mineSuccess>>

AttSignal ==
    /\ attPc = "signal"
    /\ oneshot' = "sent"
    /\ AttEnds
    /\ UNCHANGED <<accountVars, sharedVars, subVars, mineSuccess>>

Attender ==
    \/ AttPoll
    \/ AttRpc
    \/ AttStore
    \/ AttRows
    \/ AttLatest
    \/ AttCredit
    \/ AttWriteBack
    \/ AttNonce
    \/ AttReset
    \/ AttResume
    \/ AttSignal

-----------------------------------------------------------------------------
(* The chain *)

\* The transaction of the current attempt is executed.
Land ==
    /\ tx = "sent"
    /\ bestSolution.challenge = chain
    /\ Advance
    /\ tx' = "landed"
    /\ stray' = FALSE
    /\ UNCHANGED <<proof, sharedVars, subPc, localVars, attVars>>

\* The transaction of an earlier attempt is, whose confirmation was given up.
LandStray ==
    /\ stray
    /\ Advance
    /\ stray' = FALSE
    /\ UNCHANGED <<proof, sharedVars, subPc, localVars, tx, attVars>>

\* Its blockhash is too old, it never will be.
ExpireStray ==
    /\ stray
    /\ stray' = FALSE
    /\ UNCHANGED <<accountVars, sharedVars, subPc, localVars, tx, attVars>>

Chain == Land \/ LandStray \/ ExpireStray

-----------------------------------------------------------------------------
(* The rest of the server *)

\* A handler task records a solution it has validated, recently or not.
ServerContributes ==
    /\ \E m \in Miner, s \in Solution :
          /\ s.challenge <= chain
          /\ s.difficulty > 0
          /\ Contribute(m, s)
    /\ UNCHANGED <<accountVars, appNonce, paused, sockets, subVars, attVars>>

\* A mission is given out with the next chunk of nonces.
ServerTakesNonce ==
    /\ appNonce < MaxNonce
    /\ appNonce' = appNonce + 1
    /\ UNCHANGED <<accountVars, epochHashes, paused, sockets, subVars, attVars>>

\* A client connects, or its connection is dropped.
ServerSockets ==
    /\ \E c \in Client : sockets' \in {sockets \cup {c}, sockets \ {c}}
    /\ UNCHANGED <<accountVars, epochHashes, appNonce, paused, subVars, attVars>>

Server == ServerContributes \/ ServerTakesNonce \/ ServerSockets

Account == AccountStep /\ UNCHANGED <<sharedVars, subVars, attVars>>

Next == Loop \/ Attender \/ Chain \/ Account \/ Server

\* Both tasks are polled, RPC requests are answered and sleeps end; time passes,
\* the RPC node keeps up, and a notification arrives or is lost.
Fairness ==
    /\ WF_vars(Loop)
    /\ WF_vars(Attender)
    /\ WF_vars(RpcCatchUp /\ UNCHANGED <<sharedVars, subVars, attVars>>)
    /\ WF_vars(Tick /\ UNCHANGED <<sharedVars, subVars, attVars>>)
    /\ WF_vars((Notify \/ Resubscribe) /\ UNCHANGED <<sharedVars, subVars, attVars>>)

Spec == Init /\ [][Next]_vars /\ Fairness

-----------------------------------------------------------------------------
(* Properties *)

\* While missions are paused there is a solution to submit, or the one who just
\* took it away is about to resume them.  Otherwise the pool would stand still:
\* nobody mines during a pause, and without a solution the loop never gets to
\* the code that ends it.
PausedHasWork ==
    paused => \/ bestHash.solution # NoSolution
              \/ subPc = "resume"
              \/ attPc = "resume"

\* "Solution is_some but got none on best hash re-check?" (line 864) is never
\* logged: nobody resets the epoch between the two looks.
RecheckIsSome ==
    subPc \in {"pause", "config", "send", "confirm", "await"} =>
        bestSolution # NoSolution

\* Rewards are handed out after they were earned and at most once, whatever the
\* interleaving of the attender with notifications and late transactions.
P == INSTANCE Payout WITH
        earned <- chain,
        paid <- {<<mineSuccess[i].from, mineSuccess[i].to>> : i \in DOMAIN mineSuccess}
PaysOnce == P!Spec

\* What Ledger assumes of the messages (AttNotified, MoveOn and AttSend there): each
\* starts from an account state that is no earlier than the one the last ended with,
\* whichever of the two branches noticed the landings between, and credits somebody.
\* Bookings would otherwise be made twice, or divide by a hash power of zero.
CreditsFitLedger ==
    /\ \A i, j \in DOMAIN mineSuccess : i < j => mineSuccess[i].to <= mineSuccess[j].from
    /\ \A i \in DOMAIN mineSuccess :
          \E m \in Miner : mineSuccess[i].contributions[m] # NoSolution

\* A pause ends: by landing and attending, by failing, or after an attender that
\* gave up, by the failure of the next submission.
PauseEnds == paused ~> ~paused

\* Every best solution is submitted or discarded, and the epoch starts over.
BestSolutionSettled ==
    bestHash.solution # NoSolution ~> bestHash.solution = NoSolution

\* "all tx related activities have succeeded, exit tx submit loop" (line 855):
\* when the attender reports completion, the contributors of the challenge have
\* been credited.
CompletedMissionCredited ==
    oneshot = "sent" => \E i \in DOMAIN mineSuccess : mineSuccess[i].from = oldProof

\* "wait until all active miners' submissions received, and waiting times < 6
\* checkpoints" (lines 122-123): unless the waiting times are used up, every
\* connected miner has contributed when the loop goes on.
AllActiveSubmitted ==
    [][subPc = "snapshot" /\ subPc' = "pause" /\ numWaiting < WaitLimit =>
          \A c \in sockets : contributions[Pubkey[c]] # NoSolution]_vars

=============================================================================
