-------------------------- MODULE Submission_proofs --------------------------
(***************************************************************************)
(* The safety of the submission loop and its attender, for any number of   *)
(* landings, attempts, checks, clients and solutions.                      *)
(*                                                                         *)
(* PausedHasWork and RecheckIsSome both rest on the fact that only one of  *)
(* the two tasks resets the epoch at a time (Handover), so that between    *)
(* the loop's first look at the best solution and the reset that ends the  *)
(* iteration there always is one (KeepsBest).                              *)
(***************************************************************************)
EXTENDS Submission, EpochHashes_proofs, FiniteSetTheorems, SequenceTheorems

\* The attender runs only while the loop waits for it, and has not answered yet.
Handover ==
    /\ attPc # "none" => subPc = "await" /\ oneshot = "empty"
    /\ subPc # "await" => oneshot = "empty"

KeepsBest ==
    \/ subPc \in {"snapshot", "pause", "config", "send", "confirm", "refresh", "store",
                  "nonce", "reset"}
    \/ attPc \in {"poll", "rpc", "store", "rows", "latest", "credit", "writeBack",
                  "nonce", "reset"}
    => bestHash.solution # NoSolution

SubmissionInv ==
    /\ TypeOK
    /\ Handover
    /\ KeepsBest
    /\ RecheckIsSome
    /\ PausedHasWork

-----------------------------------------------------------------------------
(* Type correctness *)

\* The type invariant in three parts: the loop's variables, the attender's, and
\* the shared ones.
LocalTypeOK ==
    /\ subPc \in {"proof", "cutoff", "peek", "snapshot", "pause", "config", "send",
                  "confirm", "await", "refresh", "store", "nonce", "reset", "resume"}
    /\ oldProof \in Challenge
    /\ bestSolution \in Solution \cup {NoSolution}
    /\ numActive \in Nat
    /\ numWaiting \in 0 .. WaitLimit
    /\ attempt \in 0 .. SubmitLimit
    /\ refreshed \in Challenge
    /\ tx \in {"none", "sent", "landed"}
    /\ stray \in BOOLEAN

AttTypeOK ==
    /\ attPc \in {"none", "poll", "rpc", "store", "rows", "latest", "credit",
                  "writeBack", "nonce", "reset", "resume", "signal"}
    /\ numChecking \in 0 .. CheckLimit
    /\ latestProof \in Challenge
    /\ oneshot \in {"empty", "sent", "dropped"}
    /\ mineSuccess \in Seq(Message)

SharedTypeOK ==
    /\ EpochHashesTypeOK
    /\ AccountTypeOK
    /\ appNonce \in 0 .. MaxNonce
    /\ paused \in BOOLEAN
    /\ sockets \in SUBSET Client

\* Challenges are numbers, and the first is one of them.
LEMMA ZeroChallenge == 0 \in Challenge
BY MaxChallengeAssumption DEF Challenge

\* There are finitely many connections.
LEMMA SocketsCount == TypeOK => Cardinality(sockets) \in Nat
BY SubmissionAssumption, FS_Subset, FS_CardinalityType DEF TypeOK

\* The steps of the loop keep its variables well-typed.
LEMMA LoopTypeStep ==
    ASSUME TypeOK, Loop
    PROVE  LocalTypeOK'
<1> USE ZeroChallenge, SubmissionAssumption, SolutionAssumption DEF LocalTypeOK, TypeOK, txVars
<1>1. CASE ReadProof
  BY <1>1 DEF ReadProof, AccountTypeOK
<1>2. CASE CheckCutoff
  BY <1>2 DEF CheckCutoff, NextIteration, localVars
<1>3. CASE Peek
  BY <1>3, SocketsCount DEF Peek, NextIteration
<1>4. CASE Snapshot
  BY <1>4 DEF Snapshot, NextIteration, KeepsWaiting, EpochHashesTypeOK
<1>5. CASE Pause
  BY <1>5 DEF Pause
<1>6. CASE LoadConfig
  BY <1>6 DEF LoadConfig, NextAttempt, GiveUp
<1>7. CASE Send
  BY <1>7 DEF Send, NextAttempt
<1>8. CASE ConfirmRejected
  BY <1>8 DEF ConfirmRejected, NextAttempt, GiveUp
<1>9. CASE ConfirmUnknown
  BY <1>9 DEF ConfirmUnknown, NextAttempt
<1>10. CASE ConfirmOk
  BY <1>10 DEF ConfirmOk, localVars
<1>11. CASE Await
  BY <1>11 DEF Await, NextIteration
<1>12. CASE Refresh
  BY <1>12 DEF Refresh, AccountTypeOK
<1>13. CASE StoreRefreshed
  BY <1>13 DEF StoreRefreshed, localVars
<1>14. CASE ResetNonce
  BY <1>14 DEF ResetNonce, localVars
<1>15. CASE ResetEpoch
  BY <1>15 DEF ResetEpoch, localVars
<1>16. CASE Resume
  BY <1>16 DEF Resume, NextIteration
<1> QED
  BY <1>1, <1>2, <1>3, <1>4, <1>5, <1>6, <1>7, <1>8, <1>9, <1>10, <1>11, <1>12, <1>13,
     <1>14, <1>15, <1>16 DEF Loop

\* The steps of the attender keep its variables well-typed.
LEMMA AttenderTypeStep ==
    ASSUME TypeOK, Attender
    PROVE  AttTypeOK'
<1> USE ZeroChallenge, SubmissionAssumption DEF AttTypeOK, TypeOK
<1>1. CASE AttPoll
  BY <1>1 DEF AttPoll, AttEnds
<1>2. CASE AttRpc
  BY <1>2 DEF AttRpc, AccountTypeOK
<1>3. CASE AttStore
  BY <1>3 DEF AttStore
<1>4. CASE AttRows
  BY <1>4 DEF AttRows
<1>5. CASE AttLatest
  BY <1>5 DEF AttLatest, AccountTypeOK
<1>6. CASE AttCredit
  <2> DEFINE credit == [from |-> oldProof, to |-> latestProof, best |-> bestSolution,
                        contributions |-> contributions]
  <2>1. credit \in Message
    BY DEF Message, EpochHashesTypeOK
  <2>2. Append(mineSuccess, credit) \in Seq(Message)
    BY <2>1, AppendProperties
  <2> QED  BY <1>6, <2>2 DEF AttCredit
<1>7. CASE AttWriteBack
  BY <1>7 DEF AttWriteBack
<1>8. CASE AttNonce
  BY <1>8 DEF AttNonce
<1>9. CASE AttReset
  BY <1>9 DEF AttReset
<1>10. CASE AttResume
  BY <1>10 DEF AttResume
<1>11. CASE AttSignal
  BY <1>11 DEF AttSignal, AttEnds
<1> QED
  BY <1>1, <1>2, <1>3, <1>4, <1>5, <1>6, <1>7, <1>8, <1>9, <1>10, <1>11 DEF Attender

\* A landing moves the account to another challenge and notifies the server.
LEMMA AdvanceTypeOK ==
    ASSUME AccountTypeOK, Advance, UNCHANGED proof
    PROVE  AccountTypeOK'
<1>1. chain + 1 \in Challenge
  BY MaxChallengeAssumption DEF Advance, AccountTypeOK, Challenge
<1>2. Append(notices, chain + 1) \in Seq(Challenge)
  BY <1>1, AppendProperties DEF AccountTypeOK
<1> QED  BY <1>1, <1>2 DEF Advance, AccountTypeOK

\* The steps of the account on its own keep it well-typed.
LEMMA AccountStepTypeOK ==
    ASSUME AccountTypeOK, AccountStep
    PROVE  AccountTypeOK'
<1>1. CASE RpcCatchUp \/ Tick
  BY <1>1 DEF RpcCatchUp, Tick, AccountTypeOK
<1>2. CASE Notify
  <2>1. Head(notices) \in Challenge /\ Tail(notices) \in Seq(Challenge)
    BY <1>2, HeadTailProperties DEF Notify, AccountTypeOK
  <2> QED  BY <1>2, <2>1 DEF Notify, AccountTypeOK
<1>3. CASE Resubscribe
  <2>1. << >> \in Seq(Challenge)
    BY EmptySeq
  <2> QED  BY <1>3, <2>1 DEF Resubscribe, AccountTypeOK
<1> QED  BY <1>1, <1>2, <1>3 DEF AccountStep

\* Every step keeps the shared state well-typed.
LEMMA SharedTypeStep ==
    ASSUME TypeOK, [Next]_vars
    PROVE  SharedTypeOK'
<1> USE DEF TypeOK, SharedTypeOK
<1>1. CASE UNCHANGED <<accountVars, sharedVars>>
  BY <1>1 DEF accountVars, chainVars, sharedVars, epochHashes, EpochHashesTypeOK,
              AccountTypeOK
<1>2. CASE StoreRefreshed \/ AttStore \/ AttWriteBack
  BY <1>2 DEF StoreRefreshed, AttStore, AttWriteBack, sharedVars, chainVars, epochHashes,
              EpochHashesTypeOK, AccountTypeOK
<1>3. CASE ResetNonce \/ AttNonce
  BY <1>3, SubmissionAssumption
     DEF ResetNonce, AttNonce, accountVars, chainVars, epochHashes, EpochHashesTypeOK,
         AccountTypeOK
<1>4. CASE ResetEpoch \/ AttReset
  <2>1. EpochHashesTypeOK'
    BY <1>4, ResetTypeOK DEF ResetEpoch, AttReset
  <2> QED  BY <1>4, <2>1 DEF ResetEpoch, AttReset, accountVars, chainVars, AccountTypeOK
<1>5. CASE Pause \/ Resume \/ AttResume
  BY <1>5 DEF Pause, Resume, AttResume, accountVars, chainVars, epochHashes,
              EpochHashesTypeOK, AccountTypeOK
<1>6. CASE Land \/ LandStray
  BY <1>6, AdvanceTypeOK
     DEF Land, LandStray, sharedVars, epochHashes, EpochHashesTypeOK
<1>7. CASE Account
  BY <1>7, AccountStepTypeOK DEF Account, sharedVars, epochHashes, EpochHashesTypeOK
<1>8. CASE ServerContributes
  <2>1. EpochHashesTypeOK'
    BY <1>8, ContributeTypeOK DEF ServerContributes
  <2> QED  BY <1>8, <2>1 DEF ServerContributes, accountVars, chainVars, AccountTypeOK
<1>9. CASE ServerTakesNonce
  BY <1>9, SubmissionAssumption
     DEF ServerTakesNonce, accountVars, chainVars, epochHashes, EpochHashesTypeOK,
         AccountTypeOK
<1>10. CASE ServerSockets
  BY <1>10 DEF ServerSockets, accountVars, chainVars, epochHashes, EpochHashesTypeOK,
               AccountTypeOK
<1>11. CASE ReadProof \/ CheckCutoff \/ Peek \/ Snapshot \/ LoadConfig \/ Send
              \/ ConfirmRejected \/ ConfirmUnknown \/ ConfirmOk \/ Await \/ Refresh
  BY <1>1, <1>11 DEF ReadProof, CheckCutoff, Peek, Snapshot, LoadConfig, Send,
              ConfirmRejected, ConfirmUnknown, ConfirmOk, Await, Refresh
<1>12. CASE AttPoll \/ AttRpc \/ AttRows \/ AttLatest \/ AttCredit \/ AttSignal
  BY <1>1, <1>12 DEF AttPoll, AttRpc, AttRows, AttLatest, AttCredit, AttSignal
<1>13. CASE ExpireStray \/ UNCHANGED vars
  BY <1>1, <1>13 DEF ExpireStray, vars
<1> QED
  BY <1>2, <1>3, <1>4, <1>5, <1>6, <1>7, <1>8, <1>9, <1>10, <1>11, <1>12, <1>13
     DEF Next, Loop, Attender, Chain, Server

\* Type correctness is preserved by every step.
LEMMA SubmissionTypeStep == TypeOK /\ [Next]_vars => TypeOK'
<1> SUFFICES ASSUME TypeOK, [Next]_vars PROVE TypeOK'
  OBVIOUS
<1>1. SharedTypeOK'
  BY SharedTypeStep
<1>2. LocalTypeOK'
  <2>1. CASE Loop
    BY <2>1, LoopTypeStep
  <2>2. CASE UNCHANGED subVars
    BY <2>2 DEF TypeOK, LocalTypeOK, subVars, localVars, txVars
  <2>3. CASE Chain
    BY <2>3 DEF Chain, Land, LandStray, ExpireStray, TypeOK, LocalTypeOK, localVars
  <2> QED
    BY <2>1, <2>2, <2>3
       DEF Next, Account, Server, ServerContributes, ServerTakesNonce, ServerSockets, vars,
           Attender, AttPoll, AttRpc, AttStore, AttRows, AttLatest, AttCredit,
           AttWriteBack, AttNonce, AttReset, AttResume, AttSignal
<1>3. AttTypeOK'
  <2>1. CASE Attender
    BY <2>1, AttenderTypeStep
  <2>2. CASE UNCHANGED attVars
    BY <2>2 DEF TypeOK, AttTypeOK, attVars
  <2>3. CASE ConfirmOk
    BY <2>3 DEF ConfirmOk, TypeOK, AttTypeOK
  <2>4. CASE Await
    BY <2>4 DEF Await, TypeOK, AttTypeOK
  <2> QED
    BY <2>1, <2>2, <2>3, <2>4
       DEF Next, Loop, ReadProof, CheckCutoff, Peek, Snapshot, Pause, LoadConfig, Send,
           ConfirmRejected, ConfirmUnknown, Refresh, StoreRefreshed, ResetNonce,
           ResetEpoch, Resume, Chain, Land, LandStray, ExpireStray, Account, Server,
           ServerContributes, ServerTakesNonce, ServerSockets, vars
<1> QED  BY <1>1, <1>2, <1>3 DEF TypeOK, SharedTypeOK, LocalTypeOK, AttTypeOK

-----------------------------------------------------------------------------
(* Who resets the epoch *)

\* Every step preserves the hand-over between the two tasks.
LEMMA HandoverStep ==
    ASSUME Handover, [Next]_vars
    PROVE  Handover'
<1> USE DEF Handover
<1>1. CASE Loop
  BY <1>1 DEF Loop, NextIteration, NextAttempt, GiveUp, attVars,
              ReadProof, CheckCutoff, Peek, Snapshot, Pause, LoadConfig, Send,
              ConfirmRejected, ConfirmUnknown, ConfirmOk, Await, Refresh, StoreRefreshed,
              ResetNonce, ResetEpoch, Resume
<1>2. CASE Attender
  BY <1>2 DEF Attender, AttEnds, subVars, AttPoll, AttRpc, AttStore, AttRows, AttLatest,
              AttCredit, AttWriteBack, AttNonce, AttReset, AttResume, AttSignal
<1>3. CASE Chain \/ Account \/ Server \/ UNCHANGED vars
  BY <1>3 DEF Chain, Land, LandStray, ExpireStray, Account, Server, ServerContributes,
              ServerTakesNonce, ServerSockets, vars, subVars, attVars
<1> QED  BY <1>1, <1>2, <1>3 DEF Next

\* The best solution is taken away only by the reset of the task that is at it.
LEMMA BestHashStep ==
    ASSUME TypeOK, [Next]_vars
    PROVE  \/ bestHash'.solution = bestHash.solution
           \/ bestHash'.solution # NoSolution /\ ServerContributes
           \/ ResetEpoch
           \/ AttReset
<1>1. ASSUME NEW m \in Miner, NEW s \in Solution, Contribute(m, s)
      PROVE  \/ bestHash'.solution = bestHash.solution
             \/ bestHash'.solution # NoSolution
  BY <1>1, SolutionAssumption DEF Contribute
<1>2. CASE ServerContributes
  BY <1>1, <1>2 DEF ServerContributes
<1>3. CASE UNCHANGED bestHash
  BY <1>3
<1>4. CASE Loop /\ ~ResetEpoch
  BY <1>3, <1>4
     DEF Loop, sharedVars, epochHashes,
         ReadProof, CheckCutoff, Peek, Snapshot, Pause, LoadConfig, Send, ConfirmRejected,
         ConfirmUnknown, ConfirmOk, Await, Refresh, StoreRefreshed, ResetNonce, Resume
<1>5. CASE Attender /\ ~AttReset
  BY <1>3, <1>5
     DEF Attender, sharedVars, epochHashes, AttPoll, AttRpc, AttStore, AttRows, AttLatest,
         AttCredit, AttWriteBack, AttNonce, AttResume, AttSignal
<1>6. CASE Chain \/ Account \/ ServerTakesNonce \/ ServerSockets \/ UNCHANGED vars
  BY <1>3, <1>6
     DEF Chain, Land, LandStray, ExpireStray, Account, ServerTakesNonce, ServerSockets,
         vars, sharedVars, epochHashes
<1> QED  BY <1>2, <1>4, <1>5, <1>6 DEF Next, Server

\* From the loop's first look at the best solution to the reset there is one.
LEMMA KeepsBestStep ==
    ASSUME TypeOK, Handover, KeepsBest, [Next]_vars
    PROVE  KeepsBest'
<1> USE DEF KeepsBest, Handover
<1>1. CASE ResetEpoch
  BY <1>1 DEF ResetEpoch, attVars
<1>2. CASE AttReset
  BY <1>2 DEF AttReset, subVars
<1>3. ASSUME \/ bestHash'.solution = bestHash.solution
             \/ bestHash'.solution # NoSolution
      PROVE  KeepsBest'
  <2>1. CASE Loop
    BY <1>3, <2>1
       DEF Loop, NextIteration, NextAttempt, GiveUp, attVars, ReadProof, CheckCutoff, Peek,
           Snapshot, Pause, LoadConfig, Send, ConfirmRejected, ConfirmUnknown, ConfirmOk,
           Await, Refresh, StoreRefreshed, ResetNonce, ResetEpoch, Resume
  <2>2. CASE Attender
    BY <1>3, <2>2
       DEF Attender, AttEnds, subVars, AttPoll, AttRpc, AttStore, AttRows, AttLatest,
           AttCredit, AttWriteBack, AttNonce, AttReset, AttResume, AttSignal
  <2>3. CASE Chain \/ Account \/ Server \/ UNCHANGED vars
    BY <1>3, <2>3
       DEF Chain, Land, LandStray, ExpireStray, Account, Server, ServerContributes,
           ServerTakesNonce, ServerSockets, vars, subVars, attVars
  <2> QED  BY <2>1, <2>2, <2>3 DEF Next
<1> QED  BY <1>1, <1>2, <1>3, BestHashStep

\* The solution kept at the second look is a solution, and is kept.
LEMMA RecheckStep ==
    ASSUME KeepsBest, RecheckIsSome, [Next]_vars
    PROVE  RecheckIsSome'
<1> USE DEF KeepsBest, RecheckIsSome
<1>1. CASE Loop
  BY <1>1 DEF Loop, NextIteration, NextAttempt, GiveUp, localVars,
              ReadProof, CheckCutoff, Peek, Snapshot, Pause, LoadConfig, Send,
              ConfirmRejected, ConfirmUnknown, ConfirmOk, Await, Refresh, StoreRefreshed,
              ResetNonce, ResetEpoch, Resume
<1>2. CASE Attender
  BY <1>2 DEF Attender, subVars, localVars, AttPoll, AttRpc, AttStore, AttRows, AttLatest,
              AttCredit, AttWriteBack, AttNonce, AttReset, AttResume, AttSignal
<1>3. CASE Chain \/ Account \/ Server \/ UNCHANGED vars
  BY <1>3 DEF Chain, Land, LandStray, ExpireStray, Account, Server, ServerContributes,
              ServerTakesNonce, ServerSockets, vars, subVars, localVars
<1> QED  BY <1>1, <1>2, <1>3 DEF Next

\* Whoever takes the best solution of a paused pool away resumes it.
LEMMA PausedStep ==
    ASSUME TypeOK, Handover, KeepsBest, PausedHasWork, [Next]_vars
    PROVE  PausedHasWork'
<1> USE DEF PausedHasWork
<1>1. CASE ResetEpoch
  BY <1>1 DEF ResetEpoch
<1>2. CASE AttReset
  BY <1>2 DEF AttReset
<1>3. CASE Pause
  BY <1>3 DEF Pause, KeepsBest, epochHashes
<1>4. CASE Resume \/ AttResume
  BY <1>4 DEF Resume, AttResume
<1>5. ASSUME \/ bestHash'.solution = bestHash.solution
             \/ bestHash'.solution # NoSolution,
             paused' = paused, ~Resume, ~AttResume
      PROVE  PausedHasWork'
  <2>1. CASE Loop
    BY <1>5, <2>1
       DEF Loop, NextIteration, NextAttempt, GiveUp, attVars, ReadProof, CheckCutoff, Peek,
           Snapshot, Pause, LoadConfig, Send, ConfirmRejected, ConfirmUnknown, ConfirmOk,
           Await, Refresh, StoreRefreshed, ResetNonce, ResetEpoch, Handover
  <2>2. CASE Attender
    BY <1>5, <2>2
       DEF Attender, AttEnds, subVars, AttPoll, AttRpc, AttStore, AttRows, AttLatest,
           AttCredit, AttWriteBack, AttNonce, AttReset, AttSignal
  <2>3. CASE Chain \/ Account \/ Server \/ UNCHANGED vars
    BY <1>5, <2>3
       DEF Chain, Land, LandStray, ExpireStray, Account, Server, ServerContributes,
           ServerTakesNonce, ServerSockets, vars, subVars, attVars
  <2> QED  BY <2>1, <2>2, <2>3 DEF Next
<1>6. paused' = paused \/ Pause \/ Resume \/ AttResume
  BY DEF Next, Loop, ReadProof, CheckCutoff, Peek, Snapshot, LoadConfig, Send,
         ConfirmRejected, ConfirmUnknown, ConfirmOk, Await, Refresh, StoreRefreshed,
         ResetNonce, ResetEpoch, Attender, AttPoll, AttRpc, AttStore, AttRows, AttLatest,
         AttCredit, AttWriteBack, AttNonce, AttReset, AttSignal, Chain, Land, LandStray,
         ExpireStray, Account, Server, ServerContributes, ServerTakesNonce, ServerSockets,
         vars, sharedVars
<1> QED  BY <1>1, <1>2, <1>3, <1>4, <1>5, <1>6, BestHashStep

-----------------------------------------------------------------------------
(* The theorems *)

\* The initial state satisfies the invariant.
LEMMA SubmissionInit == Init => SubmissionInv
<1> SUFFICES ASSUME Init PROVE SubmissionInv
  OBVIOUS
<1>1. << >> \in Seq(Message) /\ << >> \in Seq(Challenge)
  BY EmptySeq
<1>2. TypeOK
  <2>1. EpochHashesTypeOK
    BY DEF Init, EpochHashesTypeOK, NoBestHash, NoContributions
  <2>2. AccountTypeOK
    BY <1>1, ZeroChallenge DEF Init, AccountInit, AccountTypeOK
  <2>3. 0 \in 0 .. MaxNonce /\ 0 \in 0 .. WaitLimit /\ 0 \in 0 .. SubmitLimit
        /\ 0 \in 0 .. CheckLimit
    BY SubmissionAssumption
  <2>4. NoSolution \in Solution \cup {NoSolution} /\ {} \in SUBSET Client
    OBVIOUS
  <2> QED  BY <1>1, <2>1, <2>2, <2>3, <2>4, ZeroChallenge DEF Init, TypeOK
<1>3. Handover /\ KeepsBest /\ RecheckIsSome /\ PausedHasWork
  BY DEF Init, Handover, KeepsBest, RecheckIsSome, PausedHasWork
<1> QED  BY <1>2, <1>3 DEF SubmissionInv

\* Every step preserves the invariant.
LEMMA SubmissionInvStep == SubmissionInv /\ [Next]_vars => SubmissionInv'
BY SubmissionTypeStep, HandoverStep, KeepsBestStep, RecheckStep, PausedStep
   DEF SubmissionInv

\* The submission loop and its attender keep their data well-typed.
THEOREM SubmissionTypeCorrect == Spec => []TypeOK
<1>1. SubmissionInv => TypeOK
  BY DEF SubmissionInv
<1> QED  BY SubmissionInit, SubmissionInvStep, <1>1, PTL DEF Spec

\* Missions are never paused with nothing to submit and nobody about to resume
\* them, whatever the RPC node, the chain and the other tasks do.
THEOREM SubmissionPausedHasWork == Spec => []PausedHasWork
<1>1. SubmissionInv => PausedHasWork
  BY DEF SubmissionInv
<1> QED  BY SubmissionInit, SubmissionInvStep, <1>1, PTL DEF Spec

\* The second look at the best hash always finds a solution (line 864 is dead).
THEOREM SubmissionRecheckIsSome == Spec => []RecheckIsSome
<1>1. SubmissionInv => RecheckIsSome
  BY DEF SubmissionInv
<1> QED  BY SubmissionInit, SubmissionInvStep, <1>1, PTL DEF Spec

=============================================================================
