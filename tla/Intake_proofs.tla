---------------------------- MODULE Intake_proofs ----------------------------
(***************************************************************************)
(* The safety of the solution path, for any number of clients, tasks,      *)
(* miners and solutions.  None of the properties is inductive: they need   *)
(* what a task found out in an earlier lock section and relies on in a     *)
(* later one (Vetted, and for serial clients StillImproves).               *)
(***************************************************************************)
EXTENDS Intake, EpochHashes_proofs

\* What a task that passed Validate carries is hard enough.
Vetted ==
    \A t \in Task : taskPc[t] \in {"compare", "insert"} =>
        taskSol[t].difficulty >= MinDifficulty

IntakeInv ==
    /\ TypeOK
    /\ BestHashSound
    /\ BestDominates
    /\ Vetted

-----------------------------------------------------------------------------
\* A task that is under way holds a solution and acts for a miner.
LEMMA TaskData ==
    ASSUME TypeOK, NEW t \in Task, taskPc[t] # "idle"
    PROVE  taskSol[t] \in Solution /\ MinerOf(t) \in Miner
BY IntakeAssumption DEF TypeOK, MinerOf

\* Ending a task leaves the task variables well-typed.
LEMMA ReturnTypeOK ==
    ASSUME TypeOK, NEW t \in Task, Return(t)
    PROVE  /\ taskPc' \in [Task -> {"idle", "range", "socket", "validate", "compare",
                                    "insert"}]
           /\ taskSol' \in [Task -> Solution \cup {NoSolution}]
           /\ \A u \in Task : taskSol'[u] = NoSolution <=> taskPc'[u] = "idle"
BY DEF TypeOK, Return

\* So does going on to another lock section.
LEMMA GotoTypeOK ==
    ASSUME TypeOK, NEW t \in Task, taskPc[t] # "idle",
           NEW pc \in {"range", "socket", "validate", "compare", "insert"}, Goto(t, pc)
    PROVE  /\ taskPc' \in [Task -> {"idle", "range", "socket", "validate", "compare",
                                    "insert"}]
           /\ taskSol' \in [Task -> Solution \cup {NoSolution}]
           /\ \A u \in Task : taskSol'[u] = NoSolution <=> taskPc'[u] = "idle"
BY DEF TypeOK, Goto

\* The initial state satisfies the invariant.
LEMMA IntakeInit == Init => IntakeInv
<1> SUFFICES ASSUME Init PROVE IntakeInv
  OBVIOUS
<1>1. TypeOK
  BY SolutionAssumption, IntakeAssumption
  DEF Init, TypeOK, EpochHashesTypeOK, NoBestHash, NoContributions
<1>2. BestHashSound /\ BestDominates
  BY DEF Init, BestHashSound, BestDominates, NoBestHash, NoContributions
<1>3. Vetted
  BY DEF Init, Vetted
<1> QED  BY <1>1, <1>2, <1>3 DEF IntakeInv

-----------------------------------------------------------------------------
\* Type correctness is preserved by every step.
LEMMA IntakeTypeStep == TypeOK /\ [Next]_vars => TypeOK'
<1> SUFFICES ASSUME TypeOK, [Next]_vars PROVE TypeOK'
  OBVIOUS
<1> USE DEF serverVars, taskVars, epochHashes
<1>1. ASSUME NEW t \in Task, NEW s \in Solution, Receive(t, s) PROVE TypeOK'
  <2>1. s # NoSolution
    BY SolutionAssumption
  <2> QED  BY <1>1, <2>1 DEF Receive, TypeOK, EpochHashesTypeOK
<1>2. ASSUME NEW t \in Task, CheckRange(t) PROVE TypeOK'
  <2>1. taskPc[t] # "idle"
    BY <1>2 DEF CheckRange
  <2>2. CASE Goto(t, "socket")
    BY <1>2, <2>1, <2>2, GotoTypeOK DEF CheckRange, TypeOK, EpochHashesTypeOK
  <2>3. CASE Return(t)
    BY <1>2, <2>3, ReturnTypeOK DEF CheckRange, TypeOK, EpochHashesTypeOK
  <2> QED  BY <1>2, <2>2, <2>3 DEF CheckRange
<1>3. ASSUME NEW t \in Task, LookupSocket(t) PROVE TypeOK'
  <2>1. taskPc[t] # "idle"
    BY <1>3 DEF LookupSocket
  <2>2. CASE Goto(t, "validate")
    BY <1>3, <2>1, <2>2, GotoTypeOK DEF LookupSocket, TypeOK, EpochHashesTypeOK
  <2>3. CASE Return(t)
    BY <1>3, <2>3, ReturnTypeOK DEF LookupSocket, TypeOK, EpochHashesTypeOK
  <2> QED  BY <1>3, <2>2, <2>3 DEF LookupSocket
<1>4. ASSUME NEW t \in Task, Validate(t) PROVE TypeOK'
  <2>1. taskPc[t] # "idle"
    BY <1>4 DEF Validate
  <2>2. CASE Goto(t, "compare")
    BY <1>4, <2>1, <2>2, GotoTypeOK DEF Validate, TypeOK, EpochHashesTypeOK
  <2>3. CASE Return(t)
    BY <1>4, <2>3, ReturnTypeOK DEF Validate, TypeOK, EpochHashesTypeOK
  <2> QED  BY <1>4, <2>2, <2>3 DEF Validate
<1>5. ASSUME NEW t \in Task, Compare(t) PROVE TypeOK'
  <2>1. taskPc[t] # "idle"
    BY <1>5 DEF Compare
  <2>2. CASE Goto(t, "insert")
    BY <1>5, <2>1, <2>2, GotoTypeOK DEF Compare, TypeOK, EpochHashesTypeOK
  <2>3. CASE Return(t)
    BY <1>5, <2>3, ReturnTypeOK DEF Compare, TypeOK, EpochHashesTypeOK
  <2> QED  BY <1>5, <2>2, <2>3 DEF Compare
<1>6. ASSUME NEW t \in Task, Insert(t) PROVE TypeOK'
  <2>1. taskSol[t] \in Solution /\ MinerOf(t) \in Miner
    BY <1>6, TaskData DEF Insert
  <2>2. EpochHashesTypeOK'
    BY <1>6, <2>1, ContributeTypeOK DEF Insert, TypeOK
  <2> QED  BY <1>6, <2>2, ReturnTypeOK DEF Insert, TypeOK
<1>7. ASSUME Server PROVE TypeOK'
  <2>1. CASE EpochReset
    BY <2>1, ResetTypeOK DEF EpochReset, TypeOK
  <2>2. CASE ProofChange
    BY <2>2 DEF ProofChange, TypeOK, EpochHashesTypeOK
  <2>3. CASE RangeChange
    BY <2>3 DEF RangeChange, TypeOK, EpochHashesTypeOK
  <2>4. CASE SocketChange
    BY <2>4 DEF SocketChange, TypeOK, EpochHashesTypeOK
  <2> QED  BY <1>7, <2>1, <2>2, <2>3, <2>4 DEF Server
<1>8. CASE UNCHANGED vars
  BY <1>8 DEF vars, TypeOK, EpochHashesTypeOK
<1> QED  BY <1>1, <1>2, <1>3, <1>4, <1>5, <1>6, <1>7, <1>8 DEF Next, TaskStep

-----------------------------------------------------------------------------
\* What a step may do to the epoch hashes: nothing, a contribution of a task that
\* passed Validate and Compare, or a reset.
LEMMA EpochHashesStep ==
    ASSUME TypeOK, Vetted, [Next]_vars
    PROVE  \/ UNCHANGED epochHashes
           \/ ResetEpochHashes
           \/ \E t \in Task : /\ Insert(t)
                            /\ taskSol[t] \in Solution
                            /\ taskSol[t].difficulty > 0
                            /\ MinerOf(t) \in Miner
                            /\ Contribute(MinerOf(t), taskSol[t])
<1>1. ASSUME NEW t \in Task, Insert(t)
      PROVE  /\ taskSol[t] \in Solution
             /\ taskSol[t].difficulty > 0
             /\ MinerOf(t) \in Miner
             /\ Contribute(MinerOf(t), taskSol[t])
  <2>1. taskPc[t] = "insert" /\ Contribute(MinerOf(t), taskSol[t])
    BY <1>1 DEF Insert
  <2>2. taskSol[t] \in Solution /\ MinerOf(t) \in Miner
    BY <2>1, TaskData
  <2>3. taskSol[t].difficulty \in Nat
    BY <2>2, SolutionAssumption
  <2>4. taskSol[t].difficulty >= MinDifficulty
    BY <2>1 DEF Vetted
  <2> QED  BY <2>1, <2>2, <2>3, <2>4, IntakeAssumption
<1>2. CASE \E t \in Task : Insert(t)
  BY <1>1, <1>2
<1>3. CASE EpochReset
  BY <1>3 DEF EpochReset
<1>4. CASE Next /\ ~EpochReset /\ ~(\E t \in Task : Insert(t))
  BY <1>4 DEF Next, TaskStep, Server, Receive, CheckRange, LookupSocket, Validate,
              Compare, ProofChange, RangeChange, SocketChange, epochHashes
<1>5. CASE UNCHANGED vars
  BY <1>5 DEF vars
<1> QED  BY <1>2, <1>3, <1>4, <1>5

\* A task gets past Validate only with a solution that is hard enough, and keeps
\* that solution until it ends.
LEMMA VettedStep ==
    ASSUME TypeOK, Vetted, [Next]_vars
    PROVE  Vetted'
<1>1. SUFFICES ASSUME NEW u \in Task, taskPc'[u] \in {"compare", "insert"}
               PROVE  taskSol'[u].difficulty >= MinDifficulty
  BY DEF Vetted
<1>2. ASSUME NEW t \in Task, NEW s \in Solution, Receive(t, s)
      PROVE  taskSol'[u].difficulty >= MinDifficulty
  BY <1>1, <1>2 DEF Receive, TypeOK, Vetted
<1>3. ASSUME NEW t \in Task, Goto(t, "socket") \/ Goto(t, "validate") \/ Return(t)
      PROVE  taskSol'[u].difficulty >= MinDifficulty
  BY <1>1, <1>3 DEF Goto, Return, TypeOK, Vetted
<1>4. ASSUME NEW t \in Task, Goto(t, "compare"), Qualifies(taskSol[t])
      PROVE  taskSol'[u].difficulty >= MinDifficulty
  BY <1>1, <1>4 DEF Goto, TypeOK, Vetted, Qualifies
<1>5. ASSUME NEW t \in Task, Goto(t, "insert"), taskPc[t] = "compare"
      PROVE  taskSol'[u].difficulty >= MinDifficulty
  BY <1>1, <1>5 DEF Goto, TypeOK, Vetted
<1>6. ASSUME UNCHANGED taskVars
      PROVE  taskSol'[u].difficulty >= MinDifficulty
  BY <1>1, <1>6 DEF Vetted, taskVars
<1>7. ASSUME NEW t \in Task, TaskStep(t)
      PROVE  taskSol'[u].difficulty >= MinDifficulty
  BY <1>3, <1>4, <1>5, <1>7
     DEF TaskStep, CheckRange, LookupSocket, Validate, Compare, Insert
<1>8. Server \/ UNCHANGED vars => UNCHANGED taskVars
  BY DEF Server, ProofChange, RangeChange, SocketChange, EpochReset, vars
<1> QED  BY <1>2, <1>6, <1>7, <1>8 DEF Next

\* Every step preserves the invariant.
LEMMA IntakeInvStep == IntakeInv /\ [Next]_vars => IntakeInv'
<1> SUFFICES ASSUME IntakeInv, [Next]_vars PROVE IntakeInv'
  OBVIOUS
<1>1. TypeOK' /\ Vetted'
  BY IntakeTypeStep, VettedStep DEF IntakeInv
<1>2. ASSUME UNCHANGED epochHashes PROVE BestHashSound' /\ BestDominates'
  BY <1>2 DEF IntakeInv, epochHashes, BestHashSound, BestDominates
<1>3. ASSUME ResetEpochHashes PROVE BestHashSound' /\ BestDominates'
  BY <1>3, ResetSound
<1>4. ASSUME NEW t \in Task, taskSol[t] \in Solution, taskSol[t].difficulty > 0,
             MinerOf(t) \in Miner, Contribute(MinerOf(t), taskSol[t])
      PROVE  BestHashSound' /\ BestDominates'
  BY <1>4, ContributeSound, ContributeDominates DEF IntakeInv, TypeOK
<1>5. BestHashSound' /\ BestDominates'
  BY <1>2, <1>3, <1>4, EpochHashesStep DEF IntakeInv
<1> QED  BY <1>1, <1>5 DEF IntakeInv

\* The lock sections of client_message_processor.rs keep their data well-typed: in
\* particular a task holds a solution exactly as long as it runs.
THEOREM IntakeTypeCorrect == Spec => []TypeOK
<1>1. IntakeInv => TypeOK
  BY DEF IntakeInv
<1> QED  BY IntakeInit, IntakeInvStep, <1>1, PTL DEF Spec

\* The best hash and the contributions are filled and cleared together, for any
\* number of tasks between whose lock sections the epoch may be reset.
THEOREM IntakeBestHashSound == Spec => []BestHashSound
<1>1. IntakeInv => BestHashSound
  BY DEF IntakeInv
<1> QED  BY IntakeInit, IntakeInvStep, <1>1, PTL DEF Spec

\* The solution the pool submits is the hardest of the contributions it has.
THEOREM IntakeBestDominates == Spec => []BestDominates
<1>1. IntakeInv => BestDominates
  BY DEF IntakeInv
<1> QED  BY IntakeInit, IntakeInvStep, <1>1, PTL DEF Spec

-----------------------------------------------------------------------------
(* Serial clients *)

\* What Compare found out is still true when Insert acts on it.
StillImproves ==
    \A t \in Task : taskPc[t] = "insert" => Improves(MinerOf(t), taskSol[t])

SerialInv == IntakeInv /\ StillImproves /\ BestIsContributed

\* The initial state satisfies the invariant of serial clients.
LEMMA SerialInit == Init => SerialInv
BY IntakeInit DEF SerialInv, Init, StillImproves, BestIsContributed, NoBestHash

\* Only a miner's own tasks write its contribution, and it has one at a time.
LEMMA StillImprovesStep ==
    ASSUME Serial, IntakeInv, StillImproves, [Next]_vars
    PROVE  StillImproves'
<1>1. SUFFICES ASSUME NEW u \in Task, taskPc'[u] = "insert"
               PROVE  Improves(MinerOf(u), taskSol[u])'
  BY DEF StillImproves, MinerOf
<1>2. CASE UNCHANGED epochHashes
  <2>1. taskPc[u] = "insert" \/ (Compare(u) /\ Improves(MinerOf(u), taskSol[u]))
    <3> USE DEF IntakeInv, TypeOK, Goto, Return
    <3>1. CASE \E t \in Task : Compare(t)
      BY <1>1, <3>1 DEF Compare
    <3>2. CASE \E t \in Task : CheckRange(t) \/ LookupSocket(t) \/ Validate(t) \/ Insert(t)
      BY <1>1, <3>2 DEF CheckRange, LookupSocket, Validate, Insert
    <3>3. CASE \E t \in Task, s \in Solution : Receive(t, s)
      BY <1>1, <3>3 DEF Receive
    <3>4. CASE Server \/ UNCHANGED vars
      BY <1>1, <3>4 DEF Server, ProofChange, RangeChange, SocketChange, EpochReset,
                        vars, taskVars
    <3> QED  BY <3>1, <3>2, <3>3, <3>4 DEF Next, TaskStep
  <2>2. Improves(MinerOf(u), taskSol[u])
    BY <2>1 DEF StillImproves
  <2>3. taskSol'[u] = taskSol[u]
    <3> USE DEF IntakeInv, TypeOK, Goto, Return
    <3>1. ASSUME NEW t \in Task, TaskStep(t) PROVE taskSol'[u] = taskSol[u]
      BY <1>1, <3>1 DEF TaskStep, CheckRange, LookupSocket, Validate, Compare, Insert
    <3>2. ASSUME NEW t \in Task, NEW s \in Solution, Receive(t, s)
          PROVE  taskSol'[u] = taskSol[u]
      BY <1>1, <3>2 DEF Receive
    <3>3. CASE Server \/ UNCHANGED vars
      BY <3>3 DEF Server, ProofChange, RangeChange, SocketChange, EpochReset,
                  vars, taskVars
    <3> QED  BY <3>1, <3>2, <3>3 DEF Next
  <2> QED  BY <1>2, <2>2, <2>3 DEF Improves, epochHashes, MinerOf
<1>3. CASE ResetEpochHashes
  BY <1>3, IntakeAssumption DEF ResetEpochHashes, NoContributions, Improves, MinerOf
<1>4. ASSUME NEW t \in Task, Insert(t)
      PROVE  Improves(MinerOf(u), taskSol[u])'
  <2>1. u # t
    BY <1>1, <1>4 DEF Insert, Return, IntakeInv, TypeOK
  <2>2. MinerOf(u) # MinerOf(t)
    BY <2>1 DEF Serial
  <2>3. taskPc[u] = "insert" /\ taskSol'[u] = taskSol[u]
    BY <1>1, <1>4, <2>1 DEF Insert, Return, IntakeInv, TypeOK
  <2>4. contributions'[MinerOf(u)] = contributions[MinerOf(u)]
    BY <1>4, <2>2, IntakeAssumption
    DEF Insert, Contribute, IntakeInv, TypeOK, EpochHashesTypeOK, MinerOf
  <2> QED  BY <2>3, <2>4 DEF StillImproves, Improves, MinerOf
<1> QED  BY <1>2, <1>3, <1>4, EpochHashesStep DEF IntakeInv

\* Every step of serial clients preserves the invariant.
LEMMA SerialInvStep ==
    ASSUME Serial
    PROVE  SerialInv /\ [Next]_vars => SerialInv'
<1> SUFFICES ASSUME SerialInv, [Next]_vars PROVE SerialInv'
  OBVIOUS
<1>1. IntakeInv' /\ StillImproves'
  BY IntakeInvStep, StillImprovesStep DEF SerialInv
<1>2. ASSUME UNCHANGED epochHashes PROVE BestIsContributed'
  BY <1>2 DEF SerialInv, BestIsContributed, epochHashes
<1>3. ASSUME ResetEpochHashes PROVE BestIsContributed'
  BY <1>3, ResetSound
<1>4. ASSUME NEW t \in Task, Insert(t), taskSol[t] \in Solution, MinerOf(t) \in Miner,
             Contribute(MinerOf(t), taskSol[t])
      PROVE  BestIsContributed'
  <2>1. Improves(MinerOf(t), taskSol[t])
    BY <1>4 DEF Insert, SerialInv, StillImproves
  <2> QED  BY <1>4, <2>1, ContributeKeepsBest DEF SerialInv, IntakeInv, TypeOK
<1>5. BestIsContributed'
  BY <1>2, <1>3, <1>4, EpochHashesStep DEF SerialInv, IntakeInv
<1> QED  BY <1>1, <1>5 DEF SerialInv

\* If every miner has one solution under way at a time, the best solution is always
\* somebody's contribution: the ledger of an epoch can be closed.
THEOREM SerialBestIsContributed == Serial => (Spec => []BestIsContributed)
<1> SUFFICES ASSUME Serial PROVE Spec => []BestIsContributed
  OBVIOUS
<1>1. SerialInv => BestIsContributed
  BY DEF SerialInv
<1> QED  BY SerialInit, SerialInvStep, <1>1, PTL DEF Spec

\* And no contribution is ever replaced by one that is easier, as the log says.
THEOREM SerialLowerDifficultyDiscarded == Serial => (Spec => LowerDifficultyDiscarded)
<1> SUFFICES ASSUME Serial PROVE Spec => LowerDifficultyDiscarded
  OBVIOUS
<1> DEFINE Kept == \A m \in Miner :
                      contributions[m] # NoSolution /\ contributions'[m] # NoSolution =>
                         contributions'[m].difficulty >= contributions[m].difficulty
<1>1. SerialInv /\ [Next]_vars => [Kept]_vars
  <2> SUFFICES ASSUME SerialInv, [Next]_vars,
                      NEW m \in Miner,
                      contributions[m] # NoSolution, contributions'[m] # NoSolution
               PROVE  contributions'[m].difficulty >= contributions[m].difficulty
    OBVIOUS
  <2>1. contributions[m].difficulty \in Nat
    BY SolutionAssumption DEF SerialInv, IntakeInv, TypeOK, EpochHashesTypeOK
  <2>2. CASE contributions'[m] = contributions[m]
    BY <2>1, <2>2
  <2>3. CASE ResetEpochHashes
    BY <2>3 DEF ResetEpochHashes, NoContributions
  <2>4. ASSUME NEW t \in Task, Insert(t), taskSol[t] \in Solution,
               contributions'[m] # contributions[m]
        PROVE  contributions'[m].difficulty >= contributions[m].difficulty
    <3>1. m = MinerOf(t) /\ contributions'[m] = taskSol[t]
      BY <2>4 DEF Insert, Contribute, SerialInv, IntakeInv, TypeOK, EpochHashesTypeOK
    <3>2. Improves(m, taskSol[t])
      BY <2>4, <3>1 DEF Insert, SerialInv, StillImproves
    <3>3. taskSol[t].difficulty \in Nat
      BY <2>4, SolutionAssumption
    <3> QED  BY <2>1, <3>1, <3>2, <3>3 DEF Improves
  <2> QED  BY <2>2, <2>3, <2>4, EpochHashesStep DEF SerialInv, IntakeInv, epochHashes
<1> QED  BY SerialInit, SerialInvStep, <1>1, PTL DEF Spec, LowerDifficultyDiscarded

=============================================================================
