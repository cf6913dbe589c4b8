-------------------------------- MODULE Pool --------------------------------
(***************************************************************************)
(* The mining pool: clients, handler tasks, mission processor, submission  *)
(* loop, attender and proof tracking together, on the same shared state.   *)
(*                                                                         *)
(* Each component's actions come from its own module; its environment      *)
(* actions are replaced by the components that perform them.  That they do *)
(* no more than the environment actions allow is what IntakeImplemented    *)
(* and SubmissionImplemented check, so that what is shown of a component   *)
(* alone holds in the pool.                                                *)
(***************************************************************************)
EXTENDS Missions, FiniteSets

CONSTANTS
    Task,           \* slots for handler tasks that run at the same time
    From,           \* the connection a task's message came from
    MinDifficulty,  \* --expected-min-difficulty
    SubmitLimit,    \* SUBMIT_LIMIT
    CheckLimit,     \* CHECK_LIMIT
    WaitLimit       \* checkpoints the loop waits for missing contributions

\* What Intake and Submission assume of their constants.
ASSUME PoolAssumption ==
    /\ Pubkey \in [Client -> Miner]
    /\ From \in [Task -> Client]
    /\ IsFiniteSet(Client)
    /\ MinDifficulty \in Nat \ {0}
    /\ SubmitLimit \in Nat \ {0}
    /\ CheckLimit \in Nat \ {0}
    /\ WaitLimit \in Nat
    /\ MaxNonce \in Nat
    /\ NoRange \notin Nat

VARIABLES
    taskPc, taskSol,                                    \* handler tasks
    subPc, oldProof, bestSolution, numActive,           \* submission loop
    numWaiting, attempt, refreshed, tx, stray,
    attPc, numChecking, latestProof, oneshot,           \* attender
    mineSuccess

I == INSTANCE Intake
S == INSTANCE Submission

taskVars == <<taskPc, taskSol>>
loopVars == <<subPc, oldProof, bestSolution, numActive, numWaiting, attempt, refreshed,
              tx, stray>>
attVars == <<attPc, numChecking, latestProof, oneshot, mineSuccess>>
submissionVars == <<loopVars, attVars>>
vars == <<accountVars, epochHashes, appNonce, paused, sockets, nonceRanges, missionVars,
          taskVars, submissionVars>>

TypeOK ==
    /\ I!TypeOK
    /\ S!TypeOK
    /\ MissionsTypeOK

Init ==
    /\ S!Init
    /\ MissionsInit
    /\ taskPc = [t \in Task |-> "idle"]
    /\ taskSol = [t \in Task |-> NoSolution]

-----------------------------------------------------------------------------

\* A client found a solution of the mission it has, maybe not its last.
Submit(t, s) ==
    /\ session[From[t]] = "connected"
    /\ mission[From[t]] = [challenge |-> s.challenge, chunk |-> s.chunk]
    /\ I!Receive(t, s)
    /\ UNCHANGED <<chainVars, appNonce, paused, missionVars, submissionVars>>

TaskStep(t) ==
    /\ I!TaskStep(t)
    /\ UNCHANGED <<chainVars, appNonce, paused, missionVars, submissionVars>>

MissionStep ==
    /\ \/ Dispatch
       \/ \E x \in sends : SendStep(x)
       \/ \E c \in Client : ClientStep(c)
    /\ UNCHANGED <<taskVars, submissionVars>>

SubmissionStep ==
    /\ S!Loop \/ S!Attender \/ S!Chain \/ S!Account
    /\ UNCHANGED <<nonceRanges, missionVars, taskVars>>

Next ==
    \/ \E t \in Task, s \in Solution : Submit(t, s)
    \/ \E t \in Task : TaskStep(t)
    \/ MissionStep
    \/ SubmissionStep

Spec == Init /\ [][Next]_vars

-----------------------------------------------------------------------------
(* Properties *)

\* The components implement each other's environments.
IntakeImplemented == I!Init /\ [][UNCHANGED I!vars \/ I!Next]_(I!vars)
SubmissionImplemented == S!Init /\ [][UNCHANGED S!vars \/ S!Next]_(S!vars)

\* Among the contributions is the solution, or a better one that took its place.
OnRecord(s, contribs) ==
    \E m \in Miner :
        /\ contribs[m] # NoSolution
        /\ contribs[m] = s \/ contribs[m].difficulty > s.difficulty

\* The solution that was submitted is rewarded: what the loop took (line 117) and what
\* the attender has credited when it has landed (line 762) are read many seconds and
\* requests apart, while tasks go on; still, the contributions sent along have the
\* solution, or a better one.  This is so for clients that are Serial.
BestCredited ==
    \A i \in DOMAIN mineSuccess :
        OnRecord(mineSuccess[i].best, mineSuccess[i].contributions)

=============================================================================
