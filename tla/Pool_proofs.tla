----------------------------- MODULE Pool_proofs -----------------------------
(***************************************************************************)
(* The pool as a whole, for any number of clients, tasks, landings and     *)
(* nonces.  What is proved of Intake and of Submission is proved under any *)
(* behaviour of their environments; here the components are shown to be    *)
(* such environments of each other.                                        *)
(*                                                                         *)
(* That is an induction over all components at once: a handler task only   *)
(* contributes solutions of challenges the chain has reached (what         *)
(* Submission expects) because the copy of the proof it validated against  *)
(* never is ahead of the chain, which is an invariant of Submission; and a *)
(* step of Submission keeps its invariant because the tasks do what it     *)
(* expects.  So PoolInv joins the invariants of both with what it needs of *)
(* the missions, and TasksTimely is the one fact that spans two of them.   *)
(***************************************************************************)
EXTENDS Pool, TLAPS

-----------------------------------------------------------------------------
(* The components' own proofs, with the constants and variables of the pool *)

IP == INSTANCE Intake_proofs
SP == INSTANCE Payout_proofs

\* The constants of the pool are fit for the intake.
LEMMA IntakeConstants == IP!SolutionAssumption /\ IP!IntakeAssumption
BY PoolAssumption, SolutionAssumption, MaxChallengeAssumption
   DEF IP!SolutionAssumption, IP!IntakeAssumption, Challenge, Chunk

\* And for the submission.
LEMMA SubmissionConstants ==
    SP!SolutionAssumption /\ SP!MaxChallengeAssumption /\ SP!SubmissionAssumption
<1>1. SP!IsFiniteSet(Client)
  BY PoolAssumption DEF SP!IsFiniteSet, IsFiniteSet
<1> QED
  BY <1>1, PoolAssumption, SolutionAssumption, MaxChallengeAssumption
     DEF SP!SolutionAssumption, SP!MaxChallengeAssumption, SP!SubmissionAssumption

\* The instance Pool takes of Intake is the one the proofs are about.
LEMMA SameIntake ==
    /\ I!Init <=> IP!Init
    /\ I!TypeOK <=> IP!TypeOK
    /\ [I!Next]_(I!vars) <=> [IP!Next]_(IP!vars)
<1>1. I!vars = IP!vars /\ I!vars' = IP!vars' /\ (I!TypeOK <=> IP!TypeOK) /\ (I!Init <=> IP!Init)
  BY DEF I!vars, IP!vars, I!serverVars, IP!serverVars, I!taskVars, IP!taskVars,
         I!epochHashes, IP!epochHashes,
         I!TypeOK, IP!TypeOK, I!EpochHashesTypeOK, IP!EpochHashesTypeOK,
         I!Init, IP!Init, I!NoBestHash, IP!NoBestHash, I!NoContributions,
         IP!NoContributions
<1>2. I!Server <=> IP!Server
  BY DEF I!Server, IP!Server, I!ProofChange, IP!ProofChange, I!RangeChange,
         IP!RangeChange, I!SocketChange, IP!SocketChange, I!EpochReset, IP!EpochReset,
         I!ResetEpochHashes, IP!ResetEpochHashes, I!NoBestHash, IP!NoBestHash,
         I!NoContributions, IP!NoContributions, I!taskVars, IP!taskVars,
         I!serverVars, IP!serverVars, I!epochHashes, IP!epochHashes
<1>3. \A t \in Task, s \in Solution : I!Receive(t, s) <=> IP!Receive(t, s)
  BY DEF I!Receive, IP!Receive, I!serverVars, IP!serverVars, I!epochHashes,
         IP!epochHashes
<1>4. \A t \in Task : I!TaskStep(t) <=> IP!TaskStep(t)
  BY DEF I!TaskStep, IP!TaskStep, I!CheckRange, IP!CheckRange, I!LookupSocket,
         IP!LookupSocket, I!Validate, IP!Validate, I!Qualifies, IP!Qualifies,
         I!Compare, IP!Compare, I!Improves, IP!Improves, I!Insert, IP!Insert,
         I!Contribute, IP!Contribute, I!Goto, IP!Goto, I!Return, IP!Return,
         I!MinerOf, IP!MinerOf, I!serverVars, IP!serverVars, I!epochHashes,
         IP!epochHashes
<1> QED
  BY <1>1, <1>2, <1>3, <1>4 DEF I!Next, IP!Next

\* Likewise for Submission.
LEMMA SameSubmission ==
    /\ S!Init <=> SP!Init
    /\ S!TypeOK <=> SP!TypeOK
    /\ [S!Next]_(S!vars) <=> [SP!Next]_(SP!vars)
<1>1. S!vars = SP!vars /\ S!vars' = SP!vars'
  BY DEF S!vars, SP!vars, S!chainVars, SP!chainVars, S!accountVars, SP!accountVars,
         S!epochHashes, SP!epochHashes, S!sharedVars, SP!sharedVars, S!localVars,
         SP!localVars, S!txVars, SP!txVars, S!attVars, SP!attVars, S!subVars,
         SP!subVars
<1>2. S!Init <=> SP!Init
  BY DEF S!Init, SP!Init, S!AccountInit, SP!AccountInit, S!NoBestHash, SP!NoBestHash,
         S!NoContributions, SP!NoContributions
<1>3. S!TypeOK <=> SP!TypeOK
  BY DEF S!TypeOK, SP!TypeOK, S!AccountTypeOK, SP!AccountTypeOK, S!EpochHashesTypeOK,
         SP!EpochHashesTypeOK, S!Challenge, SP!Challenge, S!Message, SP!Message
<1>4. \A X : S!Cardinality(X) = SP!Cardinality(X)
  BY DEF S!Cardinality, SP!Cardinality
<1> USE DEF S!NextIteration, SP!NextIteration, S!Cutoff, SP!Cutoff, S!NextAttempt,
        SP!NextAttempt, S!GiveUp, SP!GiveUp, S!ResetEpochHashes, SP!ResetEpochHashes,
        S!NoBestHash, SP!NoBestHash, S!NoContributions, SP!NoContributions,
        S!chainVars, SP!chainVars, S!accountVars, SP!accountVars, S!epochHashes,
        SP!epochHashes, S!sharedVars, SP!sharedVars, S!localVars, SP!localVars,
        S!txVars, SP!txVars, S!attVars, SP!attVars, S!subVars, SP!subVars
<1>5. S!Loop <=> SP!Loop
  <2>1. S!KeepsWaiting <=> SP!KeepsWaiting
    BY <1>4 DEF S!KeepsWaiting, SP!KeepsWaiting, S!Contributors, SP!Contributors
  <2>2. S!Snapshot <=> SP!Snapshot
    BY <2>1 DEF S!Snapshot, SP!Snapshot
  <2>3. S!Peek <=> SP!Peek
    BY <1>4 DEF S!Peek, SP!Peek
  <2>4. /\ S!ReadProof <=> SP!ReadProof
        /\ S!CheckCutoff <=> SP!CheckCutoff
        /\ S!Pause <=> SP!Pause
        /\ S!LoadConfig <=> SP!LoadConfig
        /\ S!Send <=> SP!Send
    BY DEF S!ReadProof, SP!ReadProof, S!CheckCutoff, SP!CheckCutoff, S!Pause, SP!Pause,
         S!LoadConfig, SP!LoadConfig, S!Send, SP!Send
  <2>5. /\ S!ConfirmRejected <=> SP!ConfirmRejected
        /\ S!ConfirmUnknown <=> SP!ConfirmUnknown
        /\ S!ConfirmOk <=> SP!ConfirmOk
        /\ S!Await <=> SP!Await
        /\ S!Refresh <=> SP!Refresh
    BY DEF S!ConfirmRejected, SP!ConfirmRejected, S!ConfirmUnknown, SP!ConfirmUnknown,
         S!ConfirmOk, SP!ConfirmOk, S!Await, SP!Await, S!Refresh, SP!Refresh
  <2>6. /\ S!StoreRefreshed <=> SP!StoreRefreshed
        /\ S!ResetNonce <=> SP!ResetNonce
        /\ S!ResetEpoch <=> SP!ResetEpoch
        /\ S!Resume <=> SP!Resume
    BY DEF S!StoreRefreshed, SP!StoreRefreshed, S!ResetNonce, SP!ResetNonce,
         S!ResetEpoch, SP!ResetEpoch, S!Resume, SP!Resume
  <2> QED
    BY <2>2, <2>3, <2>4, <2>5, <2>6 DEF S!Loop, SP!Loop
<1>6. S!Attender <=> SP!Attender
  BY DEF S!Attender, SP!Attender, S!AttEnds, SP!AttEnds, S!AttPoll, SP!AttPoll,
         S!AttRpc, SP!AttRpc, S!AttStore, SP!AttStore, S!AttRows, SP!AttRows,
         S!AttLatest, SP!AttLatest, S!AttCredit, SP!AttCredit, S!AttWriteBack,
         SP!AttWriteBack, S!AttNonce, SP!AttNonce, S!AttReset, SP!AttReset,
         S!AttResume, SP!AttResume, S!AttSignal, SP!AttSignal
<1>7. S!Chain <=> SP!Chain
  BY DEF S!Chain, SP!Chain, S!Land, SP!Land, S!LandStray, SP!LandStray,
         S!ExpireStray, SP!ExpireStray, S!Advance, SP!Advance
<1>8. S!Account <=> SP!Account
  BY DEF S!Account, SP!Account, S!AccountStep, SP!AccountStep, S!RpcCatchUp,
         SP!RpcCatchUp, S!Tick, SP!Tick, S!Notify, SP!Notify, S!Resubscribe,
         SP!Resubscribe
<1>9. S!Server <=> SP!Server
  BY DEF S!Server, SP!Server, S!ServerContributes, SP!ServerContributes,
         S!Contribute, SP!Contribute, S!ServerTakesNonce, SP!ServerTakesNonce,
         S!ServerSockets, SP!ServerSockets
<1> QED
  BY <1>1, <1>2, <1>3, <1>5, <1>6, <1>7, <1>8, <1>9 DEF S!Next, SP!Next

-----------------------------------------------------------------------------
(* The invariant *)

\* A task that passed Validate carries a solution of a challenge the chain is at, or
\* has left behind.
TasksTimely ==
    \A t \in Task : taskPc[t] \in {"compare", "insert"} => taskSol[t].challenge <= chain

PoolInv ==
    /\ IP!IntakeInv
    /\ SP!PayoutInv
    /\ MissionsTypeOK
    /\ TasksTimely

\* What the invariant says in the words of Pool.
LEMMA PoolFacts ==
    ASSUME PoolInv
    PROVE  /\ I!TypeOK /\ S!TypeOK /\ MissionsTypeOK
           /\ chain \in Nat /\ proof \in Nat /\ proof <= chain
           /\ \A t \in Task : taskPc[t] = "insert" =>
                 /\ I!MinerOf(t) \in Miner
                 /\ taskSol[t] \in Solution
                 /\ taskSol[t].difficulty > 0
                 /\ taskSol[t].challenge <= chain
<1>1. I!TypeOK /\ S!TypeOK /\ MissionsTypeOK
  BY SameIntake, SameSubmission DEF PoolInv, IP!IntakeInv, SP!PayoutInv, SP!SubmissionInv
<1>2. chain \in Nat /\ proof \in Nat
  BY <1>1, MaxChallengeAssumption DEF S!TypeOK, S!AccountTypeOK, S!Challenge
<1>3. proof <= chain
  BY DEF PoolInv, SP!PayoutInv, SP!AccountInv
<1>4. ASSUME NEW t \in Task, taskPc[t] = "insert"
      PROVE  /\ I!MinerOf(t) \in Miner
             /\ taskSol[t] \in Solution
             /\ taskSol[t].difficulty > 0
             /\ taskSol[t].challenge <= chain
  <2>1. I!MinerOf(t) \in Miner
    BY PoolAssumption DEF I!MinerOf
  <2>2. taskSol[t] \in Solution
    BY <1>1, <1>4 DEF I!TypeOK
  <2>3. taskSol[t].difficulty \in Nat
    BY <2>2, SolutionAssumption
  <2>4. taskSol[t].difficulty >= MinDifficulty
    BY <1>4 DEF PoolInv, IP!IntakeInv, IP!Vetted
  <2> QED
    BY <1>4, <2>1, <2>2, <2>3, <2>4, PoolAssumption DEF PoolInv, TasksTimely
<1> QED
  BY <1>1, <1>2, <1>3, <1>4

-----------------------------------------------------------------------------
(* Each component is the others' environment *)

\* To the handler tasks, whatever the pool does is a step of theirs or one of the
\* environment's.
LEMMA IntakeSideStep ==
    ASSUME PoolInv, [Next]_vars
    PROVE  [I!Next]_(I!vars)
<1> USE DEF I!vars, I!serverVars, I!taskVars, I!epochHashes
<1>1. ASSUME NEW t \in Task, NEW s \in Solution, Submit(t, s) PROVE I!Next
  BY <1>1 DEF Submit, I!Next
<1>2. ASSUME NEW t \in Task, TaskStep(t) PROVE I!Next
  BY <1>2 DEF TaskStep, I!Next
<1>3. CASE MissionStep
  <2>1. CASE Dispatch
    BY <1>3, <2>1 DEF MissionStep, Dispatch, RcReady, RcPaused, RcProof, RcCutoff, RcBest,
       RcChallenge, RcIssue, RcRemove, unchangedServer, accountVars, epochHashes, taskVars
  <2>2. ASSUME NEW x \in sends, SendMission(x) PROVE UNCHANGED I!vars
    BY <1>3, <2>2 DEF MissionStep, SendMission, unchangedServer, accountVars, epochHashes,
       taskVars
  <2>3. ASSUME NEW x \in sends, RecordRange(x) PROVE I!Next
    <3>1. Pubkey[x.client] \in Miner /\ x.mission.chunk \in Chunk
      BY PoolFacts, PoolAssumption DEF MissionsTypeOK, Mission
    <3>2. I!RangeChange
      BY <1>3, <2>3, <3>1 DEF MissionStep, RecordRange, I!RangeChange, unchangedServer,
         accountVars, epochHashes, taskVars
    <3> QED
      BY <3>2 DEF I!Next, I!Server
  <2>4. ASSUME NEW c \in Client, Connect(c) \/ Disconnect(c) PROVE I!Next
    <3>1. I!SocketChange
      BY <1>3, <2>4 DEF MissionStep, Connect, Disconnect, I!SocketChange, accountVars,
         epochHashes, taskVars
    <3> QED
      BY <3>1 DEF I!Next, I!Server
  <2>5. ASSUME NEW c \in Client, Register(c) PROVE UNCHANGED I!vars
    BY <1>3, <2>5 DEF MissionStep, Register, unchangedServer, accountVars, epochHashes,
       taskVars
  <2> QED
    BY <1>3, <2>1, <2>2, <2>3, <2>4, <2>5 DEF MissionStep, SendStep, ClientStep
<1>4. CASE SubmissionStep
  <2>1. UNCHANGED <<nonceRanges, taskPc, taskSol>>
    BY <1>4 DEF SubmissionStep, taskVars
  <2>2. CASE S!ResetEpoch \/ S!AttReset
    <3>1. I!EpochReset
      BY <2>1, <2>2 DEF S!ResetEpoch, S!AttReset, I!EpochReset, S!ResetEpochHashes,
         I!ResetEpochHashes, S!NoBestHash, I!NoBestHash, S!NoContributions,
         I!NoContributions, S!accountVars
    <3> QED
      BY <3>1 DEF I!Next, I!Server
  <2>3. CASE S!StoreRefreshed \/ S!AttStore \/ S!AttWriteBack
    <3>1. proof' \in Challenge
      BY <2>3, PoolFacts DEF S!StoreRefreshed, S!AttStore, S!AttWriteBack, S!TypeOK,
         S!Challenge, Challenge
    <3>2. I!ProofChange
      BY <2>1, <2>3, <3>1 DEF S!StoreRefreshed, S!AttStore, S!AttWriteBack,
         I!ProofChange, S!sharedVars, S!epochHashes
    <3> QED
      BY <3>2 DEF I!Next, I!Server
  <2>4. CASE S!Account
    <3>1. UNCHANGED <<sockets, bestHash, contributions>>
      BY <2>4 DEF S!Account, S!sharedVars, S!epochHashes
    <3>2. CASE S!Notify
      <4>1. notices \in Seq(Challenge) /\ notices # <<>>
        BY <3>2, PoolFacts DEF S!Notify, S!TypeOK, S!AccountTypeOK, S!Challenge, Challenge
      <4>2. proof' \in Challenge
        BY <3>2, <4>1 DEF S!Notify
      <4>3. I!ProofChange
        BY <2>1, <3>1, <4>2 DEF I!ProofChange
      <4> QED
        BY <4>3 DEF I!Next, I!Server
    <3>3. CASE S!RpcCatchUp \/ S!Tick \/ S!Resubscribe
      BY <2>1, <3>1, <3>3 DEF S!RpcCatchUp, S!Tick, S!Resubscribe
    <3> QED
      BY <2>4, <3>2, <3>3 DEF S!Account, S!AccountStep
  <2>5. CASE S!Loop /\ ~S!ResetEpoch /\ ~S!StoreRefreshed
    BY <2>1, <2>5 DEF S!Loop, S!ReadProof, S!CheckCutoff, S!Peek, S!Snapshot, S!Pause,
       S!LoadConfig, S!Send, S!ConfirmRejected, S!ConfirmUnknown, S!ConfirmOk, S!Await,
       S!Refresh, S!ResetNonce, S!Resume, S!accountVars, S!sharedVars, S!epochHashes
  <2>6. CASE S!Attender /\ ~S!AttReset /\ ~S!AttStore /\ ~S!AttWriteBack
    BY <2>1, <2>6 DEF S!Attender, S!AttPoll, S!AttRpc, S!AttRows, S!AttLatest,
       S!AttCredit, S!AttNonce, S!AttResume, S!AttSignal, S!accountVars, S!sharedVars,
       S!epochHashes
  <2>7. CASE S!Chain
    BY <2>1, <2>7 DEF S!Chain, S!Land, S!LandStray, S!ExpireStray, S!accountVars,
       S!sharedVars, S!epochHashes
  <2> QED
    BY <1>4, <2>2, <2>3, <2>4, <2>5, <2>6, <2>7 DEF SubmissionStep
<1>5. CASE UNCHANGED vars
  BY <1>5 DEF vars, accountVars, epochHashes, taskVars
<1> QED
  BY <1>1, <1>2, <1>3, <1>4, <1>5 DEF Next

\* To the submission side, too.
LEMMA SubmissionSideStep ==
    ASSUME PoolInv, [Next]_vars
    PROVE  [S!Next]_(S!vars)
<1> USE DEF S!vars, S!accountVars, S!chainVars, S!sharedVars, S!epochHashes, S!subVars,
            S!localVars, S!txVars, S!attVars
<1>1. ASSUME NEW t \in Task, NEW s \in Solution, Submit(t, s) PROVE UNCHANGED S!vars
  BY <1>1 DEF Submit, I!Receive, I!serverVars, I!epochHashes, chainVars, submissionVars,
     loopVars, attVars
<1>2. ASSUME NEW t \in Task, TaskStep(t) PROVE [S!Next]_(S!vars)
  <2>1. UNCHANGED <<chainVars, appNonce, paused, submissionVars>>
    BY <1>2 DEF TaskStep
  <2>2. CASE I!Insert(t)
    <3>1. /\ taskPc[t] = "insert"
          /\ I!Contribute(I!MinerOf(t), taskSol[t])
          /\ UNCHANGED <<proof, sockets>>
      BY <2>2 DEF I!Insert, I!serverVars
    <3>2. S!Contribute(I!MinerOf(t), taskSol[t])
      BY <3>1 DEF I!Contribute, S!Contribute
    <3>3. S!ServerContributes
      BY <2>1, <3>1, <3>2, PoolFacts DEF S!ServerContributes, chainVars, submissionVars,
         loopVars, attVars
    <3> QED
      BY <3>3 DEF S!Next, S!Server
  <2>3. CASE ~I!Insert(t)
    BY <1>2, <2>1, <2>3 DEF TaskStep, I!TaskStep, I!CheckRange, I!LookupSocket,
       I!Validate, I!Compare, I!serverVars, I!epochHashes, chainVars, submissionVars,
       loopVars, attVars
  <2> QED
    BY <2>2, <2>3
<1>3. CASE MissionStep
  <2>1. UNCHANGED submissionVars
    BY <1>3 DEF MissionStep
  <2>2. ASSUME NEW c \in Client, RcIssue(c) PROVE S!Next
    <3>1. S!ServerTakesNonce
      BY <2>1, <2>2 DEF RcIssue, S!ServerTakesNonce, unchangedServer, accountVars,
         chainVars, epochHashes, submissionVars, loopVars, attVars
    <3> QED
      BY <3>1 DEF S!Next, S!Server
  <2>3. CASE Dispatch /\ ~\E c \in Client : RcIssue(c)
    BY <2>1, <2>3 DEF Dispatch, RcReady, RcPaused, RcProof, RcCutoff, RcBest, RcChallenge,
       RcRemove, unchangedServer, accountVars, chainVars, epochHashes, submissionVars,
       loopVars, attVars
  <2>4. ASSUME NEW x \in sends, SendStep(x) PROVE UNCHANGED S!vars
    BY <2>1, <2>4 DEF SendStep, SendMission, RecordRange, unchangedServer, accountVars,
       chainVars, epochHashes, submissionVars, loopVars, attVars
  <2>5. ASSUME NEW c \in Client, Connect(c) \/ Disconnect(c) PROVE S!Next
    <3>1. S!ServerSockets
      BY <2>1, <2>5 DEF Connect, Disconnect, S!ServerSockets, accountVars, chainVars,
         epochHashes, submissionVars, loopVars, attVars
    <3> QED
      BY <3>1 DEF S!Next, S!Server
  <2>6. ASSUME NEW c \in Client, Register(c) PROVE UNCHANGED S!vars
    BY <2>1, <2>6 DEF Register, unchangedServer, accountVars, chainVars, epochHashes,
       submissionVars, loopVars, attVars
  <2> QED
    BY <1>3, <2>2, <2>3, <2>4, <2>5, <2>6 DEF MissionStep, ClientStep
<1>4. CASE SubmissionStep
  BY <1>4 DEF SubmissionStep, S!Next
<1>5. CASE UNCHANGED vars
  BY <1>5 DEF vars, accountVars, chainVars, epochHashes, submissionVars, loopVars, attVars
<1> QED
  BY <1>1, <1>2, <1>3, <1>4, <1>5 DEF Next

-----------------------------------------------------------------------------
(* The invariant is inductive *)

\* Clients, the mission processor and its sending tasks keep their data well-typed.
LEMMA MissionsTypeStep ==
    ASSUME PoolInv, [Next]_vars
    PROVE  MissionsTypeOK'
<1> USE PoolFacts, PoolAssumption DEF MissionsTypeOK, missionVars, rcVars, clientVars
<1>1. CASE MissionStep
  <2>1. 0 \in Challenge /\ proof \in Challenge /\ Chunk = 0 .. MaxNonce
    BY MaxChallengeAssumption DEF S!TypeOK, S!AccountTypeOK, S!Challenge, Challenge, Chunk
  <2>2. CASE RcReady \/ RcPaused \/ RcProof \/ RcCutoff \/ RcBest \/ RcChallenge
    BY <2>1, <2>2 DEF RcReady, RcPaused, RcProof, RcCutoff, RcBest, RcChallenge, PassEnds
  <2>3. ASSUME NEW c \in Client, RcIssue(c) PROVE MissionsTypeOK'
    <3>1. appNonce + 1 \in Chunk
      BY <2>1, <2>3 DEF RcIssue
    <3>2. [client |-> c, sent |-> FALSE,
           mission |-> [challenge |-> rcChallenge, chunk |-> appNonce]]
             \in [client : Client, mission : Mission, sent : BOOLEAN]
      BY DEF Mission
    <3> QED
      BY <2>3, <3>1, <3>2 DEF RcIssue
  <2>4. CASE RcRemove
    BY <2>1, <2>4 DEF RcRemove, PassEnds
  <2>5. ASSUME NEW x \in sends, SendMission(x) PROVE MissionsTypeOK'
    <3>1. /\ x.client \in Client /\ x.mission \in Mission
          /\ [x EXCEPT !.sent = TRUE] \in [client : Client, mission : Mission,
                                           sent : BOOLEAN]
      OBVIOUS
    <3> QED
      BY <2>5, <3>1 DEF SendMission
  <2>6. ASSUME NEW x \in sends, RecordRange(x) PROVE MissionsTypeOK'
    <3>1. Pubkey[x.client] \in Miner /\ x.mission.chunk \in Chunk
      BY DEF Mission
    <3> QED
      BY <2>6, <3>1 DEF RecordRange
  <2>7. ASSUME NEW c \in Client, ClientStep(c) PROVE MissionsTypeOK'
    BY <2>7 DEF ClientStep, Connect, Disconnect, Register
  <2> QED
    BY <1>1, <2>2, <2>3, <2>4, <2>5, <2>6, <2>7 DEF MissionStep, Dispatch, SendStep
<1>2. CASE ~MissionStep
  <2>1. UNCHANGED missionVars
    BY <1>2 DEF Next, Submit, TaskStep, SubmissionStep, vars
  <2>2. nonceRanges' = nonceRanges
    BY <1>2 DEF Next, Submit, TaskStep, SubmissionStep, vars, I!Receive, I!TaskStep,
       I!CheckRange, I!LookupSocket, I!Validate, I!Compare, I!Insert, I!serverVars
  <2>3. appNonce' \in Chunk
    <3>1. [SP!Next]_(SP!vars)
      BY SubmissionSideStep, SameSubmission
    <3>2. SP!TypeOK'
      BY <3>1, SubmissionConstants, SP!PayoutInvStep
      DEF PoolInv, SP!PayoutInv, SP!SubmissionInv
    <3> QED
      BY <3>2 DEF SP!TypeOK, Chunk
  <2> QED
    BY <2>1, <2>2, <2>3
<1> QED
  BY <1>1, <1>2

\* The account on the chain only goes forward.
LEMMA ChainMonotone ==
    ASSUME PoolInv, [Next]_vars
    PROVE  chain' \in Nat /\ chain <= chain'
<1>1. chain' = chain \/ chain' = chain + 1
  <2>1. CASE SubmissionStep
    BY <2>1 DEF SubmissionStep, S!Loop, S!ReadProof, S!CheckCutoff, S!Peek, S!Snapshot,
       S!Pause, S!LoadConfig, S!Send, S!ConfirmRejected, S!ConfirmUnknown, S!ConfirmOk,
       S!Await, S!Refresh, S!StoreRefreshed, S!ResetNonce, S!ResetEpoch, S!Resume,
       S!Attender, S!AttPoll, S!AttRpc, S!AttStore, S!AttRows, S!AttLatest, S!AttCredit,
       S!AttWriteBack, S!AttNonce, S!AttReset, S!AttResume, S!AttSignal, S!Chain, S!Land,
       S!LandStray, S!ExpireStray, S!Advance, S!Account, S!AccountStep, S!RpcCatchUp,
       S!Tick, S!Notify, S!Resubscribe, S!accountVars, S!chainVars
  <2>2. CASE MissionStep
    BY <2>2 DEF MissionStep, Dispatch, RcReady, RcPaused, RcProof, RcCutoff, RcBest,
       RcChallenge, RcIssue, RcRemove, SendStep, SendMission, RecordRange, ClientStep,
       Connect, Disconnect, Register, unchangedServer, accountVars, chainVars
  <2> QED
    BY <2>1, <2>2 DEF Next, Submit, TaskStep, vars, accountVars, chainVars
<1> QED
  BY <1>1, PoolFacts

\* A task gets past Validate only with a solution of the current copy's challenge.
LEMMA TasksTimelyStep ==
    ASSUME PoolInv, [Next]_vars
    PROVE  TasksTimely'
<1>1. SUFFICES ASSUME NEW u \in Task, taskPc'[u] \in {"compare", "insert"}
               PROVE  taskSol'[u].challenge <= chain'
  BY DEF TasksTimely
<1>2. /\ chain \in Nat /\ chain' \in Nat /\ chain <= chain'
      /\ proof \in Nat /\ proof <= chain
      /\ taskPc \in [Task -> {"idle", "range", "socket", "validate", "compare", "insert"}]
      /\ taskSol \in [Task -> Solution \cup {NoSolution}]
      /\ \A t \in Task : taskPc[t] # "idle" => taskSol[t] \in Solution
  BY PoolFacts, ChainMonotone DEF I!TypeOK
<1>3. taskPc[u] \in {"compare", "insert"} /\ taskSol'[u] = taskSol[u]
      => taskSol'[u].challenge <= chain'
  <2> SUFFICES ASSUME taskPc[u] \in {"compare", "insert"}, taskSol'[u] = taskSol[u]
               PROVE  taskSol'[u].challenge <= chain'
    OBVIOUS
  <2>1. taskSol[u].challenge <= chain
    BY DEF PoolInv, TasksTimely
  <2>2. taskSol[u] \in Solution
    BY <1>2
  <2>3. taskSol[u].challenge \in Nat
    BY <2>2, SolutionAssumption
  <2> QED
    BY <1>2, <2>1, <2>3
<1>4. ASSUME NEW t \in Task, NEW s \in Solution, Submit(t, s)
      PROVE  taskSol'[u].challenge <= chain'
  BY <1>1, <1>2, <1>3, <1>4 DEF Submit, I!Receive
<1>5. ASSUME NEW t \in Task, TaskStep(t)
      PROVE  taskSol'[u].challenge <= chain'
  <2>1. CASE I!Goto(t, "socket") \/ I!Goto(t, "validate") \/ I!Return(t)
    BY <1>1, <1>2, <1>3, <2>1 DEF I!Goto, I!Return
  <2>2. CASE I!Goto(t, "compare") /\ I!Qualifies(taskSol[t])
    BY <1>1, <1>2, <1>3, <2>2 DEF I!Goto, I!Qualifies
  <2>3. CASE I!Goto(t, "insert") /\ taskPc[t] = "compare"
    BY <1>1, <1>2, <1>3, <2>3 DEF I!Goto
  <2> QED
    BY <1>5, <2>1, <2>2, <2>3 DEF TaskStep, I!TaskStep, I!CheckRange, I!LookupSocket,
       I!Validate, I!Compare, I!Insert
<1>6. CASE MissionStep \/ SubmissionStep \/ UNCHANGED vars
  BY <1>1, <1>3, <1>6 DEF MissionStep, SubmissionStep, vars, taskVars
<1> QED
  BY <1>4, <1>5, <1>6 DEF Next

\* The initial state satisfies the invariant.
LEMMA PoolInvInit == Init => PoolInv /\ I!Init /\ S!Init
<1> SUFFICES ASSUME Init PROVE PoolInv /\ I!Init /\ S!Init
  OBVIOUS
<1>1. S!Init
  BY DEF Init
<1>2. I!Init
  BY <1>1, MaxChallengeAssumption DEF Init, MissionsInit, S!Init, S!AccountInit, I!Init,
     S!NoBestHash, I!NoBestHash, S!NoContributions, I!NoContributions, Challenge
<1>3. IP!IntakeInv
  BY <1>2, IntakeConstants, SameIntake, IP!IntakeInit
<1>4. SP!PayoutInv
  BY <1>1, SubmissionConstants, SameSubmission, SP!PayoutInvInit
<1>5. MissionsTypeOK
  BY PoolAssumption, MaxChallengeAssumption DEF Init, MissionsInit, MissionsTypeOK, Chunk,
     Challenge
<1>6. TasksTimely
  BY DEF Init, TasksTimely
<1> QED
  BY <1>1, <1>2, <1>3, <1>4, <1>5, <1>6 DEF PoolInv

\* Every step preserves it.
LEMMA PoolInvStep == PoolInv /\ [Next]_vars => PoolInv'
<1> SUFFICES ASSUME PoolInv, [Next]_vars PROVE PoolInv'
  OBVIOUS
<1>1. IP!IntakeInv'
  <2>1. [IP!Next]_(IP!vars)
    BY IntakeSideStep, SameIntake
  <2> QED
    BY <2>1, IntakeConstants, IP!IntakeInvStep DEF PoolInv
<1>2. SP!PayoutInv'
  <2>1. [SP!Next]_(SP!vars)
    BY SubmissionSideStep, SameSubmission
  <2> QED
    BY <2>1, SubmissionConstants, SP!PayoutInvStep DEF PoolInv
<1> QED
  BY <1>1, <1>2, MissionsTypeStep, TasksTimelyStep DEF PoolInv

-----------------------------------------------------------------------------
(* The theorems *)

\* All state of the pool is well-typed (run "pool").
THEOREM PoolTypeCorrect == Spec => []TypeOK
<1>1. PoolInv => TypeOK
  BY PoolFacts DEF TypeOK
<1> QED
  BY PoolInvInit, PoolInvStep, <1>1, PTL DEF Spec

\* The rest of the pool does nothing to the handler tasks that Intake does not expect of
\* its environment, so what is proved of Intake alone holds in the pool (run "pool").
THEOREM PoolImplementsIntake == Spec => IntakeImplemented
<1>1. PoolInv /\ [Next]_vars => [UNCHANGED I!vars \/ I!Next]_(I!vars)
  BY IntakeSideStep
<1> QED
  BY PoolInvInit, PoolInvStep, <1>1, PTL DEF Spec, IntakeImplemented

\* Nor to the submission loop and its attender that Submission does not expect: above
\* all, only solutions of challenges the chain has reached are contributed (run "pool").
THEOREM PoolImplementsSubmission == Spec => SubmissionImplemented
<1>1. PoolInv /\ [Next]_vars => [UNCHANGED S!vars \/ S!Next]_(S!vars)
  BY SubmissionSideStep
<1> QED
  BY PoolInvInit, PoolInvStep, <1>1, PTL DEF Spec, SubmissionImplemented

\* In the pool as in the submission side alone, rewards are handed on after they were
\* earned and once.
THEOREM PoolPaysOnce == Spec => S!PaysOnce
<1>1. Init => S!P!Init
  BY DEF Init, S!Init, S!AccountInit, S!P!Init
<1>2. ASSUME PoolInv, [Next]_vars PROVE [S!P!Next]_<<chain, SP!Paid>>
  <2>1. SP!PayoutInv /\ [SP!Next]_(SP!vars)
    BY <1>2, SubmissionSideStep, SameSubmission DEF PoolInv
  <2>2. [SP!P!Next]_<<chain, SP!Paid>>
    BY <2>1, SubmissionConstants, SP!PayoutStep
  <2> QED
    BY <2>2 DEF SP!Paid, SP!P!Next, SP!P!Earn, SP!P!Pay, SP!P!Disjoint,
       S!P!Next, S!P!Earn, S!P!Pay, S!P!Disjoint
<1> QED
  BY PoolInvInit, PoolInvStep, <1>1, <1>2, PTL DEF Spec, S!PaysOnce, S!P!Spec, SP!Paid

\* And the ledger can rely on the messages it gets from the pool: in the order of the
\* account states, and with somebody to credit.
THEOREM PoolCreditsFitLedger == Spec => []S!CreditsFitLedger
<1>1. PoolInv => S!CreditsFitLedger
  BY DEF PoolInv, SP!PayoutInv, SP!CreditsInv, SP!CreditsFitLedger, S!CreditsFitLedger
<1> QED
  BY PoolInvInit, PoolInvStep, <1>1, PTL DEF Spec

-----------------------------------------------------------------------------
(* The credit: for serial clients the solution the loop has taken stays on *)
(* record, or is bettered, until the attender copies the contributions.    *)
(* Handover says that nobody resets the epoch meanwhile, StillImproves     *)
(* that no task replaces a contribution by an easier one.                  *)

\* Between the loop's copy of the best solution and the attender's of the contributions.
Taken ==
    \/ subPc \in {"pause", "config", "send", "confirm"}
    \/ attPc \in {"poll", "rpc", "rows", "latest", "credit"}

CreditInv ==
    /\ PoolInv
    /\ IP!SerialInv
    /\ Taken => OnRecord(bestSolution, contributions)
    /\ BestCredited

\* A contribution of a task that has compared it keeps what is on record, or betters it.
LEMMA InsertKeepsRecord ==
    ASSUME PoolInv, IP!SerialInv,
           NEW t \in Task, I!Insert(t),
           NEW b \in Solution, OnRecord(b, contributions)
    PROVE  OnRecord(b, contributions')
<1> DEFINE m == I!MinerOf(t)
           s == taskSol[t]
<1>1. /\ m \in Miner /\ s \in Solution
      /\ contributions \in [Miner -> Solution \cup {NoSolution}]
      /\ contributions' = [contributions EXCEPT ![m] = s]
  BY PoolFacts DEF I!Insert, I!Contribute, I!TypeOK, I!EpochHashesTypeOK
<1>2. contributions[m] # NoSolution => s.difficulty > contributions[m].difficulty
  BY DEF I!Insert, IP!SerialInv, IP!StillImproves, IP!Improves, IP!MinerOf, I!MinerOf
<1>3. s # NoSolution /\ \A x \in Solution : x.difficulty \in Nat
  BY <1>1, SolutionAssumption
<1>4. PICK w \in Miner : /\ contributions[w] # NoSolution
                         /\ contributions[w] = b \/ contributions[w].difficulty > b.difficulty
  BY DEF OnRecord
<1> HIDE DEF m, s
<1>5. CASE w = m
  <2>1. s.difficulty > b.difficulty
    BY <1>1, <1>2, <1>3, <1>4, <1>5
  <2> QED
    BY <1>1, <1>3, <2>1 DEF OnRecord
<1>6. CASE w # m
  BY <1>1, <1>4, <1>6 DEF OnRecord
<1> QED
  BY <1>5, <1>6

\* What the loop has taken stays on record.
LEMMA TakenStep ==
    ASSUME CreditInv, [Next]_vars
    PROVE  Taken' => OnRecord(bestSolution, contributions)'
<1> SUFFICES ASSUME Taken' PROVE OnRecord(bestSolution', contributions')
  BY DEF OnRecord
<1> USE DEF Taken
<1>1. /\ SP!Handover /\ SP!KeepsBest /\ SP!RecheckIsSome
      /\ bestSolution \in Solution \cup {NoSolution}
  BY PoolFacts DEF CreditInv, PoolInv, SP!PayoutInv, SP!SubmissionInv, S!TypeOK
<1>2. CASE Taken /\ UNCHANGED <<bestSolution, contributions>>
  BY <1>2 DEF CreditInv
<1>3. ASSUME NEW t \in Task, NEW s \in Solution, Submit(t, s)
      PROVE  OnRecord(bestSolution', contributions')
  BY <1>2, <1>3 DEF Submit, I!Receive, I!epochHashes, submissionVars, loopVars, attVars
<1>4. ASSUME NEW t \in Task, TaskStep(t)
      PROVE  OnRecord(bestSolution', contributions')
  <2>1. UNCHANGED <<subPc, attPc, bestSolution>>
    BY <1>4 DEF TaskStep, submissionVars, loopVars, attVars
  <2>2. CASE ~I!Insert(t)
    BY <1>2, <1>4, <2>1, <2>2 DEF TaskStep, I!TaskStep, I!CheckRange, I!LookupSocket,
       I!Validate, I!Compare, I!epochHashes
  <2>3. CASE I!Insert(t)
    <3>1. bestSolution \in Solution
      BY <1>1, <2>1 DEF SP!RecheckIsSome, SP!Handover
    <3>2. OnRecord(bestSolution, contributions)
      BY <2>1 DEF CreditInv
    <3> QED
      BY <2>1, <2>3, <3>1, <3>2, InsertKeepsRecord DEF CreditInv
  <2> QED
    BY <2>2, <2>3
<1>5. CASE MissionStep
  <2>1. UNCHANGED <<subPc, attPc, bestSolution>>
    BY <1>5 DEF MissionStep, submissionVars, loopVars, attVars
  <2>2. UNCHANGED contributions
    BY <1>5 DEF MissionStep, Dispatch, RcReady, RcPaused, RcProof, RcCutoff, RcBest,
       RcChallenge, RcIssue, RcRemove, SendStep, SendMission, RecordRange, ClientStep,
       Connect, Disconnect, Register, unchangedServer, epochHashes
  <2> QED
    BY <1>2, <2>1, <2>2
<1>6. CASE S!Snapshot
  <2>1. UNCHANGED <<attPc, contributions>> /\ subPc = "snapshot"
    BY <1>6 DEF S!Snapshot, S!attVars, S!sharedVars, S!epochHashes
  <2>2. bestSolution' = bestHash.solution
    BY <1>1, <1>6, <2>1 DEF S!Snapshot, S!NextIteration, SP!Handover
  <2>3. bestHash.solution # NoSolution
    BY <1>1, <2>1 DEF SP!KeepsBest
  <2>4. \E m \in Miner : contributions[m] = bestHash.solution
    BY <2>3 DEF CreditInv, IP!SerialInv, IP!BestIsContributed
  <2> QED
    BY <2>1, <2>2, <2>3, <2>4 DEF OnRecord
<1>7. CASE S!Loop /\ ~S!Snapshot
  <2> USE DEF S!attVars, S!sharedVars, S!epochHashes, S!localVars, S!txVars
  <2>1. CASE S!ReadProof \/ S!CheckCutoff \/ S!Peek
    BY <1>1, <2>1 DEF S!ReadProof, S!CheckCutoff, S!Peek, S!NextIteration, SP!Handover
  <2>2. CASE S!Pause \/ S!LoadConfig \/ S!Send
    BY <1>2, <2>2 DEF S!Pause, S!LoadConfig, S!Send
  <2>3. CASE S!ConfirmRejected \/ S!ConfirmUnknown \/ S!ConfirmOk
    BY <1>2, <2>3 DEF S!ConfirmRejected, S!ConfirmUnknown, S!ConfirmOk
  <2>4. CASE S!Await \/ S!Refresh \/ S!StoreRefreshed \/ S!ResetNonce \/ S!ResetEpoch
             \/ S!Resume
    BY <1>1, <2>4 DEF S!Await, S!Refresh, S!StoreRefreshed, S!ResetNonce, S!ResetEpoch,
       S!Resume, S!NextIteration, SP!Handover
  <2> QED
    BY <1>7, <2>1, <2>2, <2>3, <2>4 DEF S!Loop
<1>8. CASE S!Attender
  <2> USE DEF S!subVars, S!localVars, S!sharedVars, S!epochHashes
  <2>1. CASE S!AttPoll \/ S!AttRpc \/ S!AttRows \/ S!AttLatest \/ S!AttCredit
    BY <1>2, <2>1 DEF S!AttPoll, S!AttRpc, S!AttRows, S!AttLatest, S!AttCredit
  <2>2. CASE S!AttStore \/ S!AttWriteBack \/ S!AttNonce \/ S!AttReset \/ S!AttResume
             \/ S!AttSignal
    BY <1>1, <2>2 DEF S!AttStore, S!AttWriteBack, S!AttNonce, S!AttReset, S!AttResume,
       S!AttSignal, S!AttEnds, SP!Handover
  <2> QED
    BY <1>8, <2>1, <2>2 DEF S!Attender
<1>9. CASE S!Chain \/ S!Account
  BY <1>2, <1>9 DEF S!Chain, S!Land, S!LandStray, S!ExpireStray, S!Account, S!subVars,
     S!localVars, S!sharedVars, S!epochHashes, S!attVars
<1>10. CASE UNCHANGED vars
  BY <1>2, <1>10 DEF vars, epochHashes, submissionVars, loopVars, attVars
<1> QED
  BY <1>3, <1>4, <1>5, <1>6, <1>7, <1>8, <1>9, <1>10 DEF Next, SubmissionStep

\* What is handed on has it on record.
LEMMA BestCreditedStep ==
    ASSUME CreditInv, [Next]_vars
    PROVE  BestCredited'
<1>1. [SP!Next]_(SP!vars)
  BY SubmissionSideStep, SameSubmission DEF CreditInv
<1>2. CASE UNCHANGED mineSuccess
  BY <1>2 DEF CreditInv, BestCredited, OnRecord
<1>3. CASE SP!AttCredit
  <2> DEFINE credit == [from |-> oldProof, to |-> latestProof, best |-> bestSolution,
                        contributions |-> contributions]
  <2>1. SP!TypeOK
    BY DEF CreditInv, PoolInv, SP!PayoutInv, SP!SubmissionInv
  <2>2. credit \in SP!Message
    BY <2>1 DEF SP!TypeOK, SP!Message, SP!EpochHashesTypeOK
  <2>3. mineSuccess \in Seq(SP!Message) /\ mineSuccess' = Append(mineSuccess, credit)
    BY <1>3, <2>1 DEF SP!AttCredit, SP!TypeOK
  <2>4. /\ DOMAIN mineSuccess' = DOMAIN mineSuccess \cup {Len(mineSuccess) + 1}
        /\ \A i \in DOMAIN mineSuccess : mineSuccess'[i] = mineSuccess[i]
        /\ mineSuccess'[Len(mineSuccess) + 1] = credit
    BY <2>2, <2>3, SP!Appended
  <2>5. OnRecord(credit.best, credit.contributions)
    BY <1>3 DEF SP!AttCredit, CreditInv, Taken
  <2> HIDE DEF credit
  <2>6. ASSUME NEW i \in DOMAIN mineSuccess'
        PROVE  OnRecord(mineSuccess'[i].best, mineSuccess'[i].contributions)
    BY <2>4, <2>5, <2>6 DEF CreditInv, BestCredited
  <2> QED
    BY <2>6 DEF BestCredited, OnRecord
<1>4. UNCHANGED mineSuccess \/ SP!AttCredit
  BY <1>1, SubmissionConstants, SP!ChainAndMessages
<1> QED
  BY <1>2, <1>3, <1>4

\* If every miner has one solution under way at a time, whoever found the solution that
\* landed is among those credited, with it or with a better one, whatever the tasks do
\* between the loop's look at the epoch hashes and the attender's (run "pool").
THEOREM PoolBestCredited == I!Serial => (Spec => []BestCredited)
<1> SUFFICES ASSUME I!Serial PROVE Spec => []BestCredited
  OBVIOUS
<1>1. IP!Serial
  BY DEF I!Serial, IP!Serial, I!MinerOf, IP!MinerOf
<1>2. Init => CreditInv
  <2> SUFFICES ASSUME Init PROVE CreditInv
    OBVIOUS
  <2>1. PoolInv /\ IP!Init
    BY PoolInvInit, SameIntake
  <2>2. IP!SerialInv
    BY <2>1, IntakeConstants, IP!SerialInit
  <2>3. subPc = "proof" /\ attPc = "none" /\ mineSuccess = <<>>
    BY DEF Init, S!Init
  <2> QED
    BY <2>1, <2>2, <2>3 DEF CreditInv, Taken, BestCredited
<1>3. CreditInv /\ [Next]_vars => CreditInv'
  <2> SUFFICES ASSUME CreditInv, [Next]_vars PROVE CreditInv'
    OBVIOUS
  <2>1. PoolInv'
    BY PoolInvStep DEF CreditInv
  <2>2. [IP!Next]_(IP!vars)
    BY IntakeSideStep, SameIntake DEF CreditInv
  <2>3. IP!SerialInv'
    BY <1>1, <2>2, IntakeConstants, IP!SerialInvStep DEF CreditInv
  <2> QED
    BY <2>1, <2>3, TakenStep, BestCreditedStep DEF CreditInv
<1>4. CreditInv => BestCredited
  BY DEF CreditInv
<1> QED
  BY <1>2, <1>3, <1>4, PTL DEF Spec

=============================================================================
