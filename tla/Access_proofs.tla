--------------------------- MODULE Access_proofs ----------------------------
(***************************************************************************)
(* What logins leave in the database, for any number of clients, wallets   *)
(* and failures, and that connections and time change nothing about it;    *)
(* and of the connections, that tasks wait for the lock where they say and *)
(* that a client that answers every ping is only taken out of the map when *)
(* sends to others were blocked for too long.                              *)
(***************************************************************************)
EXTENDS Access, SequenceTheorems, TLAPS

-----------------------------------------------------------------------------
(* The invariant *)

\* The login that inserted a miner is the only one of its wallet under way to a
\* reward row, and finds none.
EnrollingAlone ==
    \A c \in Client : Enrolling(c) =>
        /\ Pubkey[c] \in minerRows
        /\ rewardRows[Pubkey[c]] = 0
        /\ \A d \in Client : Enrolling(d) /\ Pubkey[d] = Pubkey[c] => d = c

\* A reward row follows a miner's row.
RewardsOfMiners == \A m \in Miner : rewardRows[m] > 0 => m \in minerRows

\* Only who inserted a miner gets to the insertion of a reward row.
RewardIfAdded == \A c \in Client : loginPc[c] = "reward" => minerAdded[c]

EnrollmentInv ==
    /\ EnrollmentTypeOK
    /\ RewardIfAdded
    /\ EnrollingAlone
    /\ RewardsOfMiners
    /\ RewardRowsUnique

\* Before anything fails, a miner's row comes with a reward row or a login that is
\* about to insert it.
Rewarded(m) == rewardRows[m] > 0 \/ \E d \in Client : Pubkey[d] = m /\ Enrolling(d)

\* What a login has found out about its wallet.
PastLookup(c) == loginPc[c] \in {"lookup", "pool", "reward", "verify", "admitted"}

RewardInv ==
    dbms /\ failures = 0 =>
        /\ \A m \in minerRows : Rewarded(m)
        /\ \A c \in Client : PastLookup(c) => Pubkey[c] \in minerRows

\* Whether the wallet is connected is asked without a database only.
AskedWithout == dbms => \A c \in Client : loginPc[c] # "connected"

-----------------------------------------------------------------------------
(* Types *)

LEMMA PubkeyOf == ASSUME NEW c \in Client PROVE Pubkey[c] \in Miner
  BY EnrollmentAssumption

LEMMA EnrollmentTypeInit == EnrollmentInit => EnrollmentTypeOK
  BY EnrollmentAssumption DEF EnrollmentInit, EnrollmentTypeOK

LoginPc == {"out", "get", "add", "lookup", "pool", "reward", "connected", "verify", "admitted"}

\* Goto leaves the login with nothing added.
LEMMA GotoType ==
  ASSUME EnrollmentTypeOK, NEW c \in Client, NEW pc \in LoginPc, Goto(c, pc)
  PROVE  /\ loginPc' \in [Client -> LoginPc]
         /\ minerAdded' \in [Client -> BOOLEAN]
         /\ \A d \in Client : minerAdded'[d] => loginPc'[d] \in {"lookup", "pool", "reward"}
<1> USE DEF EnrollmentTypeOK, Goto, LoginPc
<1>1. loginPc' \in [Client -> LoginPc] /\ minerAdded' \in [Client -> BOOLEAN]
  OBVIOUS
<1>2. ASSUME NEW d \in Client, minerAdded'[d]
      PROVE  loginPc'[d] \in {"lookup", "pool", "reward"}
  <2>1. d # c
    BY <1>2
  <2>2. loginPc'[d] = loginPc[d] /\ minerAdded[d]
    BY <2>1, <1>2
  <2> QED
    BY <2>2
<1> QED
  BY <1>1, <1>2

LEMMA FailsType ==
  ASSUME EnrollmentTypeOK, UNCHANGED failures \/ Fails
  PROVE  failures' \in 0 .. MaxFailures
  BY EnrollmentAssumption DEF EnrollmentTypeOK, Fails

LEMMA EnrollmentTypeStep ==
  EnrollmentTypeOK /\ [EnrollmentNext]_enrollmentVars => EnrollmentTypeOK'
<1> SUFFICES ASSUME EnrollmentTypeOK, [EnrollmentNext]_enrollmentVars
             PROVE  EnrollmentTypeOK'
  OBVIOUS
\* A step that only moves the login on.
<1>1. ASSUME NEW c \in Client, NEW pc \in LoginPc, Goto(c, pc),
             UNCHANGED failures \/ Fails, UNCHANGED <<dbms, minerRows, rewardRows>>
      PROVE  EnrollmentTypeOK'
  BY <1>1, GotoType, FailsType DEF EnrollmentTypeOK, LoginPc
<1>2. ASSUME NEW c \in Client, Login(c) PROVE EnrollmentTypeOK'
  BY <1>1, <1>2 DEF Login, LoginPc
<1>3. ASSUME NEW c \in Client, GetMiner(c) PROVE EnrollmentTypeOK'
  BY <1>1, <1>3 DEF GetMiner, LoginPc
<1>4. ASSUME NEW c \in Client, AddMiner(c) PROVE EnrollmentTypeOK'
  <2>1. failures' \in 0 .. MaxFailures
    BY <1>4, FailsType DEF AddMiner
  <2>2. minerRows' \in SUBSET Miner
    BY <1>4, PubkeyOf DEF AddMiner, EnrollmentTypeOK
  <2>3. minerAdded' \in [Client -> BOOLEAN]
    BY <1>4 DEF AddMiner, EnrollmentTypeOK
  <2>4. \A d \in Client : minerAdded'[d] => loginPc'[d] \in {"lookup", "pool", "reward"}
    BY <1>4 DEF AddMiner, EnrollmentTypeOK
  <2> QED
    BY <1>4, <2>1, <2>2, <2>3, <2>4 DEF AddMiner, EnrollmentTypeOK
<1>5. ASSUME NEW c \in Client, LookupAdded(c) PROVE EnrollmentTypeOK'
  <2>1. CASE loginPc' = [loginPc EXCEPT ![c] = "pool"] /\ UNCHANGED <<minerAdded, failures>>
    BY <1>5, <2>1 DEF LookupAdded, EnrollmentTypeOK
  <2>2. CASE Goto(c, "out") /\ (UNCHANGED failures \/ Fails)
    BY <1>1, <1>5, <2>2 DEF LookupAdded, LoginPc
  <2> QED
    BY <1>5, <2>1, <2>2 DEF LookupAdded
<1>6. ASSUME NEW c \in Client, GetPool(c) PROVE EnrollmentTypeOK'
  <2>1. CASE loginPc' = [loginPc EXCEPT ![c] = "reward"] /\ UNCHANGED <<minerAdded, failures>>
    BY <1>6, <2>1 DEF GetPool, EnrollmentTypeOK
  <2>2. CASE Goto(c, "out") /\ (UNCHANGED failures \/ Fails)
    BY <1>1, <1>6, <2>2 DEF GetPool, LoginPc
  <2> QED
    BY <1>6, <2>1, <2>2 DEF GetPool
<1>7. ASSUME NEW c \in Client, AddReward(c) PROVE EnrollmentTypeOK'
  <2>1. CASE Goto(c, "verify") /\ UNCHANGED failures
             /\ rewardRows' = [rewardRows EXCEPT ![Pubkey[c]] = @ + 1]
    <3>1. rewardRows' \in [Miner -> Nat]
      BY <2>1, PubkeyOf DEF EnrollmentTypeOK
    <3> QED
      BY <1>7, <2>1, <3>1, GotoType DEF AddReward, EnrollmentTypeOK, LoginPc
  <2>2. CASE Goto(c, "out") /\ Fails /\ UNCHANGED rewardRows
    BY <1>1, <1>7, <2>2 DEF AddReward, LoginPc
  <2> QED
    BY <1>7, <2>1, <2>2 DEF AddReward
<1>8. ASSUME NEW c \in Client, Refuse(c) \/ Admit(c) PROVE EnrollmentTypeOK'
  BY <1>1, <1>8 DEF Refuse, Admit, LoginPc
<1>9. ASSUME NEW c \in Client, Drop(c) PROVE EnrollmentTypeOK'
  BY <1>1, <1>9 DEF Drop, LoginPc
<1>10. ASSUME NEW c \in Client, NEW k \in BOOLEAN, CheckConnected(c, k)
       PROVE  EnrollmentTypeOK'
  BY <1>1, <1>10 DEF CheckConnected, LoginPc
<1>11. CASE UNCHANGED enrollmentVars
  BY <1>11 DEF enrollmentVars, EnrollmentTypeOK
<1> QED
  BY <1>2, <1>3, <1>4, <1>5, <1>6, <1>7, <1>8, <1>9, <1>10, <1>11
  DEF EnrollmentNext, LoginStep

\* The type invariant of the logins (run "access").
THEOREM EnrollmentTypeCorrect == EnrollmentSpec => []EnrollmentTypeOK
  BY EnrollmentTypeInit, EnrollmentTypeStep, PTL DEF EnrollmentSpec

-----------------------------------------------------------------------------
(* At most one reward row *)

LEMMA EnrollingIsAdded ==
  ASSUME EnrollmentTypeOK, NEW c \in Client PROVE Enrolling(c) <=> minerAdded[c]
  BY DEF EnrollmentTypeOK, Enrolling

LEMMA EnrollingIsAddedNext ==
  ASSUME EnrollmentTypeOK', NEW c \in Client PROVE Enrolling(c)' <=> minerAdded'[c]
  BY DEF EnrollmentTypeOK, Enrolling

LEMMA EnrollmentInvInit == EnrollmentInit => EnrollmentInv
<1> SUFFICES ASSUME EnrollmentInit PROVE EnrollmentInv
  OBVIOUS
<1> QED
  BY EnrollmentTypeInit DEF EnrollmentInit, EnrollmentInv, RewardIfAdded, EnrollingAlone,
     Enrolling, RewardsOfMiners, RewardRowsUnique

\* A login that goes on without rows: it does not reach the reward row unless it
\* inserted the miner, and nobody has inserted a miner who had not before.
LEMMA EnrollmentNoRows ==
  ASSUME EnrollmentInv, EnrollmentTypeOK', UNCHANGED <<minerRows, rewardRows>>,
         \A d \in Client : minerAdded'[d] => minerAdded[d],
         RewardIfAdded'
  PROVE  EnrollmentInv'
<1>1. EnrollingAlone'
  BY EnrollingIsAdded, EnrollingIsAddedNext DEF EnrollmentInv, EnrollingAlone
<1> QED
  BY <1>1 DEF EnrollmentInv, RewardsOfMiners, RewardRowsUnique

LEMMA GotoInv ==
  ASSUME EnrollmentInv, EnrollmentTypeOK', UNCHANGED <<minerRows, rewardRows>>,
         NEW c \in Client, NEW pc \in LoginPc \ {"reward"}, Goto(c, pc)
  PROVE  EnrollmentInv'
<1>1. \A d \in Client : minerAdded'[d] => d # c /\ minerAdded[d]
  BY DEF Goto, EnrollmentInv, EnrollmentTypeOK
<1>2. \A d \in Client : loginPc'[d] = "reward" =>
          d # c /\ loginPc[d] = "reward" /\ minerAdded'[d] = minerAdded[d]
  BY DEF Goto, EnrollmentInv, EnrollmentTypeOK
<1>3. RewardIfAdded'
  BY <1>2 DEF EnrollmentInv, RewardIfAdded
<1> QED
  BY <1>1, <1>3, EnrollmentNoRows

LEMMA AddMinerInv ==
  ASSUME EnrollmentInv, EnrollmentTypeOK', NEW c \in Client, AddMiner(c)
  PROVE  EnrollmentInv'
<1>1. RewardIfAdded'
  <2> SUFFICES ASSUME NEW d \in Client, loginPc'[d] = "reward" PROVE minerAdded'[d]
    BY DEF RewardIfAdded
  <2>1. d # c /\ loginPc[d] = "reward"
    BY DEF AddMiner, EnrollmentInv, EnrollmentTypeOK
  <2> QED
    BY <2>1 DEF AddMiner, EnrollmentInv, EnrollmentTypeOK, RewardIfAdded
<1>2. CASE UNCHANGED <<minerRows, minerAdded>>
  BY <1>1, <1>2, EnrollmentNoRows DEF AddMiner
<1>3. CASE /\ Pubkey[c] \notin minerRows
           /\ minerRows' = minerRows \cup {Pubkey[c]}
           /\ minerAdded' = [minerAdded EXCEPT ![c] = TRUE]
  <2>1. rewardRows' = rewardRows /\ rewardRows[Pubkey[c]] = 0
    BY <1>3, PubkeyOf DEF AddMiner, EnrollmentInv, RewardsOfMiners, EnrollmentTypeOK
  \* Nobody of the wallet was enrolling, for the miner had no row.
  <2>2. \A d \in Client : minerAdded[d] => Pubkey[d] # Pubkey[c]
    BY <1>3, EnrollingIsAdded DEF EnrollmentInv, EnrollingAlone
  <2>3. \A d \in Client : minerAdded'[d] => d = c \/ minerAdded[d]
    BY <1>3 DEF EnrollmentInv, EnrollmentTypeOK
  <2>4. EnrollingAlone'
    <3> SUFFICES ASSUME NEW d \in Client, minerAdded'[d]
                 PROVE  /\ Pubkey[d] \in minerRows'
                        /\ rewardRows'[Pubkey[d]] = 0
                        /\ \A e \in Client : minerAdded'[e] /\ Pubkey[e] = Pubkey[d] => e = d
      BY EnrollingIsAddedNext DEF EnrollingAlone
    <3>1. CASE d = c
      BY <3>1, <1>3, <2>1, <2>2, <2>3
    <3>2. CASE d # c
      BY <3>2, <1>3, <2>1, <2>2, <2>3, EnrollingIsAdded DEF EnrollmentInv, EnrollingAlone
    <3> QED
      BY <3>1, <3>2
  <2>5. RewardsOfMiners' /\ RewardRowsUnique'
    BY <1>3, <2>1 DEF EnrollmentInv, RewardsOfMiners, RewardRowsUnique
  <2> QED
    BY <1>1, <2>4, <2>5 DEF EnrollmentInv
<1> QED
  BY <1>2, <1>3 DEF AddMiner

LEMMA AddRewardInv ==
  ASSUME EnrollmentInv, EnrollmentTypeOK', NEW c \in Client, AddReward(c)
  PROVE  EnrollmentInv'
<1>1. CASE UNCHANGED rewardRows /\ Goto(c, "out")
  BY <1>1, GotoInv DEF AddReward, LoginPc
<1>2. CASE Goto(c, "verify") /\ rewardRows' = [rewardRows EXCEPT ![Pubkey[c]] = @ + 1]
  \* It is the only login of its wallet, and finds no row.
  <2>1. minerAdded[c] /\ Enrolling(c)
    BY EnrollingIsAdded DEF AddReward, EnrollmentInv, RewardIfAdded
  <2>2. Pubkey[c] \in minerRows /\ rewardRows[Pubkey[c]] = 0
    BY <2>1 DEF EnrollmentInv, EnrollingAlone
  <2>3. rewardRows'[Pubkey[c]] = 1
    BY <1>2, <2>2, PubkeyOf DEF EnrollmentInv, EnrollmentTypeOK
  <2>4. \A m \in Miner : m # Pubkey[c] => rewardRows'[m] = rewardRows[m]
    BY <1>2 DEF EnrollmentInv, EnrollmentTypeOK
  <2>5. \A d \in Client : minerAdded'[d] => minerAdded[d] /\ d # c
    BY <1>2 DEF Goto, EnrollmentInv, EnrollmentTypeOK
  <2>6. \A d \in Client : minerAdded'[d] => Pubkey[d] # Pubkey[c]
    BY <2>1, <2>5, EnrollingIsAdded DEF EnrollmentInv, EnrollingAlone
  <2>7. minerRows' = minerRows
    BY DEF AddReward
  <2>8. EnrollingAlone'
    <3> SUFFICES ASSUME NEW d \in Client, minerAdded'[d]
                 PROVE  /\ Pubkey[d] \in minerRows'
                        /\ rewardRows'[Pubkey[d]] = 0
                        /\ \A e \in Client : minerAdded'[e] /\ Pubkey[e] = Pubkey[d] => e = d
      BY EnrollingIsAddedNext DEF EnrollingAlone
    <3>1. Enrolling(d) /\ \A e \in Client : minerAdded'[e] => Enrolling(e)
      BY <2>5, EnrollingIsAdded DEF EnrollmentInv
    <3>2. Pubkey[d] \in minerRows /\ rewardRows[Pubkey[d]] = 0
      BY <3>1 DEF EnrollmentInv, EnrollingAlone
    <3>3. rewardRows'[Pubkey[d]] = 0
      BY <3>2, <2>4, <2>6, PubkeyOf
    <3> QED
      BY <3>1, <3>2, <3>3, <2>7 DEF EnrollmentInv, EnrollingAlone
  <2>9. RewardIfAdded'
    <3> SUFFICES ASSUME NEW d \in Client, loginPc'[d] = "reward" PROVE minerAdded'[d]
      BY DEF RewardIfAdded
    <3>1. d # c /\ loginPc[d] = "reward"
      BY <1>2 DEF Goto, EnrollmentInv, EnrollmentTypeOK
    <3> QED
      BY <3>1, <1>2 DEF Goto, EnrollmentInv, EnrollmentTypeOK, RewardIfAdded
  <2>10. RewardsOfMiners' /\ RewardRowsUnique'
    BY <2>2, <2>3, <2>4, <2>7 DEF EnrollmentInv, RewardsOfMiners, RewardRowsUnique
  <2> QED
    BY <2>8, <2>9, <2>10 DEF EnrollmentInv
<1> QED
  BY <1>1, <1>2 DEF AddReward

LEMMA EnrollmentInvStep == EnrollmentInv /\ [EnrollmentNext]_enrollmentVars => EnrollmentInv'
<1> SUFFICES ASSUME EnrollmentInv, [EnrollmentNext]_enrollmentVars
             PROVE  EnrollmentInv'
  OBVIOUS
<1>1. EnrollmentTypeOK /\ EnrollmentTypeOK'
  BY EnrollmentTypeStep DEF EnrollmentInv
<1>2. ASSUME NEW c \in Client, Login(c) PROVE EnrollmentInv'
  BY <1>1, <1>2, GotoInv DEF Login, LoginPc
<1>3. ASSUME NEW c \in Client, GetMiner(c) PROVE EnrollmentInv'
  BY <1>1, <1>3, GotoInv DEF GetMiner, LoginPc
<1>4. ASSUME NEW c \in Client, AddMiner(c) PROVE EnrollmentInv'
  BY <1>1, <1>4, AddMinerInv
<1>5. ASSUME NEW c \in Client, LookupAdded(c) PROVE EnrollmentInv'
  <2>1. CASE Goto(c, "out")
    BY <1>1, <1>5, <2>1, GotoInv DEF LookupAdded, LoginPc
  <2>2. CASE loginPc' = [loginPc EXCEPT ![c] = "pool"] /\ UNCHANGED minerAdded
    <3>1. RewardIfAdded'
      BY <1>1, <2>2 DEF EnrollmentTypeOK, EnrollmentInv, RewardIfAdded
    <3> QED
      BY <1>1, <1>5, <2>2, <3>1, EnrollmentNoRows DEF LookupAdded
  <2> QED
    BY <1>5, <2>1, <2>2 DEF LookupAdded
<1>6. ASSUME NEW c \in Client, GetPool(c) PROVE EnrollmentInv'
  <2>1. CASE Goto(c, "out")
    BY <1>1, <1>6, <2>1, GotoInv DEF GetPool, LoginPc
  <2>2. CASE minerAdded[c] /\ loginPc' = [loginPc EXCEPT ![c] = "reward"]
             /\ UNCHANGED minerAdded
    <3>1. RewardIfAdded'
      BY <1>1, <2>2 DEF EnrollmentTypeOK, EnrollmentInv, RewardIfAdded
    <3> QED
      BY <1>1, <1>6, <2>2, <3>1, EnrollmentNoRows DEF GetPool
  <2> QED
    BY <1>6, <2>1, <2>2 DEF GetPool
<1>7. ASSUME NEW c \in Client, AddReward(c) PROVE EnrollmentInv'
  BY <1>1, <1>7, AddRewardInv
<1>8. ASSUME NEW c \in Client, Refuse(c) \/ Admit(c) PROVE EnrollmentInv'
  BY <1>1, <1>8, GotoInv DEF Refuse, Admit, LoginPc
<1>9. ASSUME NEW c \in Client, Drop(c) PROVE EnrollmentInv'
  BY <1>1, <1>9, GotoInv DEF Drop, LoginPc
<1>10. ASSUME NEW c \in Client, NEW k \in BOOLEAN, CheckConnected(c, k)
       PROVE  EnrollmentInv'
  BY <1>1, <1>10, GotoInv DEF CheckConnected, LoginPc
<1>11. CASE UNCHANGED enrollmentVars
  BY <1>11 DEF enrollmentVars, EnrollmentInv, EnrollmentTypeOK, RewardIfAdded,
     EnrollingAlone, Enrolling, RewardsOfMiners, RewardRowsUnique
<1> QED
  BY <1>2, <1>3, <1>4, <1>5, <1>6, <1>7, <1>8, <1>9, <1>10, <1>11
  DEF EnrollmentNext, LoginStep

\* However many logins of a wallet there are at the same time, and whatever fails,
\* no miner gets a second reward row (run "access").
THEOREM EnrollmentUnique == EnrollmentSpec => []RewardRowsUnique
<1>1. EnrollmentInv => RewardRowsUnique
  BY DEF EnrollmentInv
<1> QED
  BY <1>1, EnrollmentInvInit, EnrollmentInvStep, PTL DEF EnrollmentSpec

-----------------------------------------------------------------------------
(* A reward row for everyone who is let in *)

RewardedInv == EnrollmentInv /\ AskedWithout /\ RewardInv

LEMMA RewardedInvInit == EnrollmentInit => RewardedInv
<1> SUFFICES ASSUME EnrollmentInit PROVE RewardedInv
  OBVIOUS
<1> QED
  BY EnrollmentInvInit DEF EnrollmentInit, RewardedInv, AskedWithout, RewardInv, PastLookup

\* A login goes on, and ends no insertion; it is past its lookup with a row.
LEMMA RewardGoto ==
  ASSUME RewardedInv, EnrollmentTypeOK', UNCHANGED <<dbms, minerRows, rewardRows, failures>>,
         NEW c \in Client, NEW pc \in LoginPc, loginPc' = [loginPc EXCEPT ![c] = pc],
         \A d \in Client : minerAdded[d] => minerAdded'[d],
         dbms /\ failures = 0 /\ pc \in {"lookup", "pool", "reward", "verify", "admitted"} =>
             Pubkey[c] \in minerRows
  PROVE  RewardInv'
<1> SUFFICES ASSUME dbms, failures = 0 PROVE RewardInv'
  BY DEF RewardInv
<1>1. ASSUME NEW m \in minerRows PROVE Rewarded(m)'
  BY EnrollingIsAdded, EnrollingIsAddedNext DEF RewardedInv, RewardInv, Rewarded, EnrollmentInv
<1>2. ASSUME NEW d \in Client, PastLookup(d)' PROVE Pubkey[d] \in minerRows
  BY <1>2 DEF PastLookup, RewardedInv, RewardInv, EnrollmentInv, EnrollmentTypeOK
<1> QED
  BY <1>1, <1>2 DEF RewardInv

\* A step that fails leaves nothing to be shown.
LEMMA RewardFails == ASSUME EnrollmentTypeOK, Fails PROVE RewardInv'
<1>1. failures' # 0
  BY EnrollmentAssumption DEF EnrollmentTypeOK, Fails
<1> QED
  BY <1>1 DEF RewardInv

LEMMA RewardedInvStep == RewardedInv /\ [EnrollmentNext]_enrollmentVars => RewardedInv'
<1> SUFFICES ASSUME RewardedInv, [EnrollmentNext]_enrollmentVars
             PROVE  AskedWithout' /\ RewardInv'
  BY EnrollmentInvStep DEF RewardedInv
<1>1. EnrollmentTypeOK /\ EnrollmentTypeOK'
  BY EnrollmentTypeStep DEF RewardedInv, EnrollmentInv
\* What a login moves to by Goto, that has inserted nothing before.
<1>2. ASSUME NEW c \in Client, NEW pc \in LoginPc, Goto(c, pc), ~minerAdded[c],
             UNCHANGED <<dbms, minerRows, rewardRows, failures>>,
             dbms /\ failures = 0 /\ pc \in {"lookup", "pool", "reward", "verify", "admitted"} =>
                 Pubkey[c] \in minerRows
      PROVE  RewardInv'
  <2>1. loginPc' = [loginPc EXCEPT ![c] = pc]
        /\ \A d \in Client : minerAdded[d] => minerAdded'[d]
    BY <1>1, <1>2 DEF Goto, EnrollmentTypeOK
  <2> QED
    BY <1>1, <1>2, <2>1, RewardGoto
<1>3. ASSUME NEW c \in Client, loginPc[c] \notin {"lookup", "pool", "reward"}
      PROVE  ~minerAdded[c]
  BY <1>1, <1>3 DEF EnrollmentTypeOK
<1>4. ASSUME NEW c \in Client, PastLookup(c), dbms, failures = 0
      PROVE  Pubkey[c] \in minerRows
  BY <1>4 DEF RewardedInv, RewardInv
\* Nobody asks whether the wallet is connected unless the login begins without a
\* database.
<1>5. ASSUME NEW c \in Client, NEW pc \in LoginPc, UNCHANGED dbms,
             loginPc' = [loginPc EXCEPT ![c] = pc], pc = "connected" => ~dbms
      PROVE  AskedWithout'
  BY <1>1, <1>5 DEF AskedWithout, RewardedInv, EnrollmentTypeOK
<1>6. ASSUME NEW c \in Client, Login(c) PROVE AskedWithout' /\ RewardInv'
  <2>1. RewardInv'
    BY <1>2, <1>3, <1>6 DEF Login, LoginPc
  <2> QED
    BY <1>5, <1>6, <2>1 DEF Login, Goto, LoginPc
<1>7. ASSUME NEW c \in Client, GetMiner(c) PROVE AskedWithout' /\ RewardInv'
  <2>1. RewardInv'
    BY <1>1, <1>2, <1>3, <1>7, RewardFails DEF GetMiner, LoginPc
  <2> QED
    BY <1>5, <1>7, <2>1 DEF GetMiner, Goto, LoginPc
<1>8. ASSUME NEW c \in Client, AddMiner(c) PROVE AskedWithout' /\ RewardInv'
  <2>1. ASSUME Fails PROVE RewardInv'
    BY <1>1, <2>1, RewardFails
  <2>2. ASSUME Pubkey[c] \in minerRows /\ UNCHANGED <<minerRows, minerAdded, failures>>
       PROVE  RewardInv'
    BY <1>1, <1>8, <2>2, RewardGoto DEF AddMiner, LoginPc
  <2>3. ASSUME minerRows' = minerRows \cup {Pubkey[c]},
               minerAdded' = [minerAdded EXCEPT ![c] = TRUE],
               UNCHANGED failures
       PROVE  RewardInv'
    <3> SUFFICES ASSUME dbms, failures = 0 PROVE RewardInv'
      BY <1>8, <2>3 DEF RewardInv, AddMiner
    <3>1. ASSUME NEW m \in minerRows' PROVE Rewarded(m)'
      <4>1. rewardRows' = rewardRows /\ Enrolling(c)'
        BY <1>1, <1>8, <2>3, EnrollingIsAddedNext DEF AddMiner, EnrollmentTypeOK
      <4>2. \A d \in Client : Enrolling(d) => Enrolling(d)'
        BY <1>1, <2>3, EnrollingIsAdded, EnrollingIsAddedNext DEF EnrollmentTypeOK
      <4>3. CASE m = Pubkey[c]
        BY <4>1, <4>3 DEF Rewarded
      <4>4. CASE m \in minerRows
        BY <4>1, <4>2, <4>4 DEF Rewarded, RewardedInv, RewardInv
      <4> QED
        BY <2>3, <3>1, <4>3, <4>4
    <3>2. ASSUME NEW d \in Client, PastLookup(d)' PROVE Pubkey[d] \in minerRows'
      BY <1>1, <1>4, <1>8, <2>3, <3>2 DEF AddMiner, PastLookup, EnrollmentTypeOK
    <3> QED
      BY <3>1, <3>2 DEF RewardInv
  <2>4. RewardInv'
    BY <1>8, <2>1, <2>2, <2>3 DEF AddMiner
  <2> QED
    BY <1>5, <1>8, <2>4 DEF AddMiner, LoginPc
<1>9. ASSUME NEW c \in Client, LookupAdded(c) PROVE AskedWithout' /\ RewardInv'
  <2>1. ASSUME Fails PROVE RewardInv'
    BY <1>1, <2>1, RewardFails
  <2>2. ASSUME loginPc' = [loginPc EXCEPT ![c] = "pool"],
               Pubkey[c] \in minerRows,
               UNCHANGED <<minerAdded, failures>>
       PROVE  RewardInv'
    BY <1>1, <1>9, <2>2, RewardGoto DEF LookupAdded, LoginPc
  \* The row that is not there shows that something has failed.
  <2>3. ASSUME Pubkey[c] \notin minerRows /\ UNCHANGED failures PROVE RewardInv'
    BY <1>4, <1>9, <2>3 DEF LookupAdded, PastLookup, RewardInv
  <2>4. RewardInv'
    BY <1>9, <2>1, <2>2, <2>3 DEF LookupAdded
  <2> QED
    BY <1>5, <1>9, <2>4 DEF LookupAdded, Goto, LoginPc
<1>10. ASSUME NEW c \in Client, GetPool(c) PROVE AskedWithout' /\ RewardInv'
  <2>1. ASSUME Fails PROVE RewardInv'
    BY <1>1, <2>1, RewardFails
  <2>2. ASSUME loginPc' = [loginPc EXCEPT ![c] = "reward"] /\ UNCHANGED <<minerAdded, failures>>
       PROVE  RewardInv'
    BY <1>1, <1>4, <1>10, <2>2, RewardGoto DEF GetPool, LoginPc, PastLookup
  <2>3. ASSUME ~minerAdded[c] /\ Goto(c, "out") /\ UNCHANGED failures PROVE RewardInv'
    BY <1>2, <1>10, <2>3 DEF GetPool, LoginPc
  <2>4. RewardInv'
    BY <1>10, <2>1, <2>2, <2>3 DEF GetPool
  <2> QED
    BY <1>5, <1>10, <2>4 DEF GetPool, Goto, LoginPc
<1>11. ASSUME NEW c \in Client, AddReward(c) PROVE AskedWithout' /\ RewardInv'
  <2>1. ASSUME Fails PROVE RewardInv'
    BY <1>1, <2>1, RewardFails
  <2>2. ASSUME rewardRows' = [rewardRows EXCEPT ![Pubkey[c]] = @ + 1],
               Goto(c, "verify"),
               UNCHANGED failures
       PROVE  RewardInv'
    <3> SUFFICES ASSUME dbms, failures = 0 PROVE RewardInv'
      BY <1>11, <2>2 DEF RewardInv, AddReward
    <3>1. ASSUME NEW m \in minerRows PROVE Rewarded(m)'
      <4>1. m \in Miner /\ Rewarded(m)
        BY <1>1 DEF RewardedInv, RewardInv, EnrollmentTypeOK
      <4>2. CASE m = Pubkey[c]
        BY <1>1, <2>2, <4>1, <4>2 DEF Rewarded, EnrollmentTypeOK
      <4>3. CASE m # Pubkey[c]
        <5>1. rewardRows'[m] = rewardRows[m]
          BY <1>1, <2>2, <4>1, <4>3 DEF EnrollmentTypeOK
        <5>2. \A d \in Client : Pubkey[d] = m /\ Enrolling(d) => Enrolling(d)'
          BY <1>1, <2>2, <4>3, EnrollingIsAdded, EnrollingIsAddedNext
          DEF Goto, EnrollmentTypeOK
        <5> QED
          BY <4>1, <5>1, <5>2 DEF Rewarded
      <4> QED
        BY <4>2, <4>3
    <3>2. ASSUME NEW d \in Client, PastLookup(d)' PROVE Pubkey[d] \in minerRows
      BY <1>1, <1>4, <1>11, <2>2, <3>2 DEF AddReward, PastLookup, Goto, EnrollmentTypeOK
    <3> QED
      BY <1>11, <3>1, <3>2 DEF RewardInv, AddReward
  <2>3. RewardInv'
    BY <1>11, <2>1, <2>2 DEF AddReward
  <2> QED
    BY <1>5, <1>11, <2>3 DEF AddReward, Goto, LoginPc
<1>12. ASSUME NEW c \in Client, Refuse(c) \/ Admit(c) PROVE AskedWithout' /\ RewardInv'
  <2>1. RewardInv'
    BY <1>2, <1>3, <1>4, <1>12 DEF Refuse, Admit, LoginPc, PastLookup
  <2> QED
    BY <1>5, <1>12, <2>1 DEF Refuse, Admit, Goto, LoginPc
<1>13. ASSUME NEW c \in Client, Drop(c) PROVE AskedWithout' /\ RewardInv'
  <2>1. RewardInv'
    BY <1>1, <1>13, RewardFails DEF Drop
  <2> QED
    BY <1>5, <1>13, <2>1 DEF Drop, Goto, LoginPc
<1>14. ASSUME NEW c \in Client, NEW k \in BOOLEAN, CheckConnected(c, k)
       PROVE  AskedWithout' /\ RewardInv'
  <2>1. ~dbms
    BY <1>14 DEF CheckConnected, RewardedInv, AskedWithout
  <2> QED
    BY <1>14, <2>1 DEF CheckConnected, AskedWithout, RewardInv
<1>15. CASE UNCHANGED enrollmentVars
  BY <1>15 DEF enrollmentVars, RewardedInv, AskedWithout, RewardInv, Rewarded, Enrolling,
     PastLookup
<1> QED
  BY <1>6, <1>7, <1>8, <1>9, <1>10, <1>11, <1>12, <1>13, <1>14, <1>15
  DEF EnrollmentNext, LoginStep

\* Whoever is let in by a server with a database has a reward row, or will have one
\* when the login of the same wallet that inserted it is through, as long as no call
\* failed and no login was dropped (run "access").
THEOREM EnrollmentRewarded == EnrollmentSpec => []AdmittedHasReward
<1>1. RewardedInv => AdmittedHasReward
  BY DEF RewardedInv, RewardInv, Rewarded, PastLookup, AdmittedHasReward
<1> QED
  BY <1>1, RewardedInvInit, RewardedInvStep, PTL DEF EnrollmentSpec

-----------------------------------------------------------------------------
(* With the connections *)

\* Whatever connections and time do, a step of logins is one of Enrollment.
LEMMA LoginsAlone == [Next]_vars => [EnrollmentNext]_enrollmentVars
<1> SUFFICES ASSUME [Next]_vars PROVE [EnrollmentNext]_enrollmentVars
  OBVIOUS
<1>1. ASSUME NEW c \in Client, LogIn(c) PROVE EnrollmentNext
  BY <1>1 DEF LogIn, EnrollmentNext
<1>2. ASSUME NEW c \in Client, LookForWallet(c) PROVE EnrollmentNext
  BY <1>2 DEF LookForWallet, EnrollmentNext
<1>3. ASSUME NEW c \in Client, Connect(c) PROVE EnrollmentNext
  BY <1>3 DEF Connect, EnrollmentNext
<1>4. CASE UNCHANGED vars
  BY <1>4 DEF vars
<1> QED
  BY <1>1, <1>2, <1>3, <1>4 DEF Next, Tasks, Replies, Environment, Time

\* Whatever connections and time do, logins only do what Enrollment says.
THEOREM AccessImplementsEnrollment == Spec => EnrollmentSpec
<1>1. Init => EnrollmentInit
  BY DEF Init
<1> QED
  BY <1>1, LoginsAlone, PTL DEF Spec, EnrollmentSpec

\* No miner gets a second reward row, in the system with its connections.
THEOREM AccessUnique == Spec => []RewardRowsUnique
  BY AccessImplementsEnrollment, EnrollmentUnique, PTL

\* A client that is let in can be credited, in the system with its connections.
THEOREM AccessRewarded == Spec => []AdmittedHasReward
  BY AccessImplementsEnrollment, EnrollmentRewarded, PTL

-----------------------------------------------------------------------------
(* Connections: types *)

\* The types of the variables other than the lock's queue.
PlainTypeOK ==
    /\ link \in [Client -> {"open", "stalled", "lost", "closed"}]
    /\ pongDue \in SUBSET Client
    /\ handlerPc \in [Client -> {"none", "ping", "enter", "read", "leave", "gone"}]
    /\ sockets \in SUBSET Client
    /\ pongs \in [Client -> Pong]
    /\ reply \in [Client -> {"none", "locked", "sending"}]
    /\ pingTask \in [Client -> {"none", "waiting", "sending", "ok", "failed"}]
    /\ pingTarget \in Client \cup {Nobody}
    /\ pingTimer \in 0 .. PingPeriod
    /\ trackPongs \in [Client -> Pong]
    /\ trackTarget \in Client \cup {Nobody}
    /\ trackTimer \in 0 .. PongPeriod
    /\ held \in [Client -> Age] /\ trackHeld \in [Client -> Age]

QueueUnique == \A i, j \in DOMAIN lockQueue : lockQueue[i] = lockQueue[j] => i = j

QueueTypeOK == lockQueue \in Seq(Request) /\ QueueUnique

\* Whoever waits for the lock is where it asked for it.
WaitersInPlace ==
    /\ \A c \in Client :
          /\ handlerPc[c] = "enter" <=> Queued(<<"enter", c>>)
          /\ handlerPc[c] = "leave" <=> Queued(<<"leave", c>>)
          /\ Queued(<<"silent", c>>) => trackTarget = c
          /\ Queued(<<"check", c>>) => loginPc[c] = "connected"
          /\ Queued(<<"failed", c>>) => pingTarget = c /\ pingTask[c] = "failed"
    /\ Queued(<<"round", Nobody>>) => pingTarget = Nobody

AdmittedConnected == \A c \in Client : handlerPc[c] # "none" <=> loginPc[c] = "admitted"

AccessInv ==
    EnrollmentTypeOK /\ PlainTypeOK /\ QueueTypeOK /\ WaitersInPlace /\ AdmittedConnected

\* A request more: it is at the end.
LEMMA AskQueue ==
    ASSUME QueueTypeOK, NEW r \in Request, ~Queued(r), Ask(r)
    PROVE  QueueTypeOK' /\ \A s : Queued(s)' <=> Queued(s) \/ s = r
<1> DEFINE n == Len(lockQueue)
<1>1. lockQueue' = Append(lockQueue, r) /\ lockQueue \in Seq(Request) /\ QueueUnique
  BY DEF Ask, QueueTypeOK
<1>2. /\ n \in Nat /\ DOMAIN lockQueue = 1 .. n /\ DOMAIN lockQueue' = 1 .. n + 1
      /\ lockQueue'[n + 1] = r /\ \A i \in 1 .. n : lockQueue'[i] = lockQueue[i]
      /\ lockQueue' \in Seq(Request)
  BY <1>1
<1> HIDE DEF n
<1>3. \A i \in 1 .. n : lockQueue[i] # r
  BY <1>2 DEF Queued
<1>4. QueueUnique'
  BY <1>1, <1>2, <1>3 DEF QueueUnique
<1>5. ASSUME NEW s PROVE Queued(s)' <=> Queued(s) \/ s = r
  BY <1>2 DEF Queued
<1> QED
  BY <1>2, <1>4, <1>5 DEF QueueTypeOK

\* A request less: it was at the head, and nowhere else.
LEMMA GrantedQueue ==
    ASSUME QueueTypeOK, NEW r, Granted(r)
    PROVE  /\ QueueTypeOK' /\ Queued(r)
           /\ \A s : Queued(s)' <=> Queued(s) /\ s # r
<1> DEFINE n == Len(lockQueue)
<1>1. /\ lockQueue # <<>> /\ Head(lockQueue) = r /\ lockQueue' = Tail(lockQueue)
      /\ lockQueue \in Seq(Request) /\ QueueUnique
  BY DEF Granted, QueueTypeOK
<1>2. /\ n \in Nat \ {0} /\ DOMAIN lockQueue = 1 .. n /\ DOMAIN lockQueue' = 1 .. n - 1
      /\ lockQueue[1] = r /\ \A i \in 1 .. n - 1 : lockQueue'[i] = lockQueue[i + 1]
      /\ lockQueue' \in Seq(Request)
  BY <1>1
<1> HIDE DEF n
<1>3. QueueUnique'
  BY <1>1, <1>2 DEF QueueUnique
<1>4. ASSUME NEW s PROVE Queued(s)' <=> Queued(s) /\ s # r
  <2>1. ASSUME Queued(s)' PROVE Queued(s) /\ s # r
    <3>1. PICK i \in 1 .. n - 1 : lockQueue'[i] = s
      BY <1>2, <2>1 DEF Queued
    <3>2. i + 1 \in 1 .. n /\ lockQueue[i + 1] = s /\ i + 1 # 1 /\ 1 \in 1 .. n
      BY <1>2, <3>1
    <3> QED
      BY <1>1, <1>2, <3>2 DEF Queued, QueueUnique
  <2>2. ASSUME Queued(s), s # r PROVE Queued(s)'
    <3>1. PICK i \in 1 .. n : lockQueue[i] = s
      BY <1>2, <2>2 DEF Queued
    <3>2. i - 1 \in 1 .. n - 1 /\ lockQueue'[i - 1] = s
      BY <1>2, <2>2, <3>1
    <3> QED
      BY <1>2, <3>2 DEF Queued
  <2> QED
    BY <2>1, <2>2
<1>5. Queued(r)
  BY <1>2 DEF Queued
<1> QED
  BY <1>2, <1>3, <1>4, <1>5 DEF QueueTypeOK

\* No request more or less.
LEMMA SameQueue ==
    ASSUME QueueTypeOK, UNCHANGED lockQueue
    PROVE  QueueTypeOK' /\ \A s : Queued(s)' <=> Queued(s)
BY DEF QueueTypeOK, QueueUnique, Queued

\* What the tasks ask for are requests, and different ones.
LEMMA Requests ==
    /\ \A c \in Client : \A k \in {"enter", "leave", "reply", "check", "failed", "silent"} :
          <<k, c>> \in Request
    /\ <<"round", Nobody>> \in Request
    /\ \A j, k, c, d : <<j, c>> = <<k, d>> <=> j = k /\ c = d
BY DEF Request

\* Ages and timers stay within their bounds.
LEMMA PongType ==
    /\ 0 \in Age /\ 0 \in Pong /\ NoPong \in Pong
    /\ \A h \in Age : Older(h) \in Age
    /\ \A p \in Pong : Older(p) \in Pong
    /\ \A n \in Nat : \A t \in 0 .. n : Less(t) \in 0 .. n
<1> USE ConnectionsAssumption
<1>1. 0 \in Age /\ 0 \in Pong /\ NoPong \in Pong
  BY DEF Pong, Age
<1>2. /\ \A h \in Age : Older(h) \in Age
      /\ \A p \in Pong : Older(p) \in Pong
  BY DEF Age, Pong, Older
<1>3. \A n \in Nat : \A t \in 0 .. n : Less(t) \in 0 .. n
  BY DEF Less
<1> QED
  BY <1>1, <1>2, <1>3

\* Nothing is connected at the start, and nobody waits.
LEMMA ConnectionsInitInv == Init => AccessInv
<1> SUFFICES ASSUME Init PROVE AccessInv
  OBVIOUS
<1>1. EnrollmentTypeOK
  BY EnrollmentTypeInit DEF Init
<1>2. PlainTypeOK
  BY PongType, ConnectionsAssumption DEF Init, ConnectionsInit, PlainTypeOK
<1>3. \A r : ~Queued(r)
  BY DEF Init, ConnectionsInit, Queued
<1>4. QueueTypeOK
  BY DEF Init, ConnectionsInit, QueueTypeOK, QueueUnique
<1>5. WaitersInPlace /\ AdmittedConnected
  BY <1>3, EnrollmentAssumption DEF Init, ConnectionsInit, EnrollmentInit, WaitersInPlace,
     AdmittedConnected
<1> QED
  BY <1>1, <1>2, <1>4, <1>5 DEF AccessInv

ConnInv == PlainTypeOK /\ QueueTypeOK /\ WaitersInPlace /\ AdmittedConnected

\* A handler that goes on, with its request if it has one now, and no other change.
LEMMA HandlerWaiters ==
    ASSUME ConnInv, NEW c \in Client, NEW pc, HandlerGoto(c, pc),
           UNCHANGED <<loginPc, pingTask, pingTarget, trackTarget>>,
           Queued(<<"enter", c>>)' <=> pc = "enter",
           Queued(<<"leave", c>>)' <=> pc = "leave",
           \A s : s # <<"enter", c>> /\ s # <<"leave", c>> => (Queued(s)' <=> Queued(s))
    PROVE  WaitersInPlace'
<1>1. handlerPc \in [Client -> {"none", "ping", "enter", "read", "leave", "gone"}]
  BY DEF ConnInv, PlainTypeOK
<1>2. ASSUME NEW d \in Client
      PROVE  /\ handlerPc'[d] = "enter" <=> Queued(<<"enter", d>>)'
             /\ handlerPc'[d] = "leave" <=> Queued(<<"leave", d>>)'
  <2>1. CASE d = c
    <3>1. handlerPc'[c] = pc
      BY <1>1 DEF HandlerGoto
    <3> QED
      BY <2>1, <3>1
  <2>2. CASE d # c
    <3>1. handlerPc'[d] = handlerPc[d]
      BY <1>1, <2>2 DEF HandlerGoto
    <3>2. \A k : Queued(<<k, d>>)' <=> Queued(<<k, d>>)
      BY <2>2
    <3>3. /\ handlerPc[d] = "enter" <=> Queued(<<"enter", d>>)
          /\ handlerPc[d] = "leave" <=> Queued(<<"leave", d>>)
      BY DEF ConnInv, WaitersInPlace
    <3> QED
      BY <3>1, <3>2, <3>3
  <2> QED
    BY <2>1, <2>2
<1>3. \A d : \A k \in {"silent", "check", "failed", "round"} :
            Queued(<<k, d>>)' <=> Queued(<<k, d>>)
  <2>1. \A d : \A k \in {"silent", "check", "failed", "round"} :
           <<k, d>> # <<"enter", c>> /\ <<k, d>> # <<"leave", c>>
    OBVIOUS
  <2> QED
    BY <2>1
<1> QED
  BY <1>2, <1>3 DEF ConnInv, WaitersInPlace

\* The steps of a connection's handler.
LEMMA HandlerSteps ==
    ASSUME ConnInv, NEW c \in Client, UNCHANGED enrollmentVars,
           FirstPing(c) \/ Enter(c) \/ ReadEnd(c) \/ Leave(c)
    PROVE  ConnInv'
<1> USE DEF ConnInv
<1>1. CASE FirstPing(c)
  <2>1. CASE UNCHANGED lockQueue /\ HandlerGoto(c, "gone") /\ UNCHANGED pongDue
    <3>1. QueueTypeOK' /\ \A s : Queued(s)' <=> Queued(s)
      BY <2>1, SameQueue
    <3>2. PlainTypeOK'
      BY <1>1, <2>1 DEF FirstPing, HandlerGoto, handlerFrame, pingVars, trackVars, history, PlainTypeOK
    <3>3. WaitersInPlace'
      BY <1>1, <2>1, <3>1, HandlerWaiters, Requests
      DEF FirstPing, handlerFrame, pingVars, trackVars, enrollmentVars, WaitersInPlace
    <3>4. AdmittedConnected'
      BY <1>1, <2>1 DEF FirstPing, HandlerGoto, AdmittedConnected, PlainTypeOK, enrollmentVars
    <3> QED
      BY <3>1, <3>2, <3>3, <3>4
  <2>2. CASE Pinged(c) /\ HandlerGoto(c, "enter") /\ Ask(<<"enter", c>>)
    <3>1. ~Queued(<<"enter", c>>)
      BY <1>1 DEF FirstPing, WaitersInPlace
    <3>2. QueueTypeOK' /\ \A s : Queued(s)' <=> Queued(s) \/ s = <<"enter", c>>
      BY <2>2, <3>1, AskQueue, Requests
    <3>3. PlainTypeOK'
      BY <1>1, <2>2 DEF FirstPing, Pinged, HandlerGoto, handlerFrame, pingVars, trackVars,
         history, PlainTypeOK
    <3>4. WaitersInPlace'
      BY <1>1, <2>2, <3>2, HandlerWaiters, Requests
      DEF FirstPing, handlerFrame, pingVars, trackVars, enrollmentVars, WaitersInPlace
    <3>5. AdmittedConnected'
      BY <1>1, <2>2 DEF FirstPing, HandlerGoto, AdmittedConnected, PlainTypeOK, enrollmentVars
    <3> QED
      BY <3>2, <3>3, <3>4, <3>5
  <2> QED
    BY <1>1, <2>1, <2>2 DEF FirstPing
<1>2. CASE Enter(c)
  <2>1. /\ QueueTypeOK' /\ Queued(<<"enter", c>>)
        /\ \A s : Queued(s)' <=> Queued(s) /\ s # <<"enter", c>>
    BY <1>2, GrantedQueue DEF Enter
  <2>2. PlainTypeOK'
    BY <1>2 DEF Enter, HandlerGoto, handlerFrame, pingVars, trackVars, history, PlainTypeOK
  <2>3. WaitersInPlace'
    BY <1>2, <2>1, HandlerWaiters, Requests
    DEF Enter, handlerFrame, pingVars, trackVars, enrollmentVars, WaitersInPlace
  <2>4. AdmittedConnected'
    BY <1>2, <2>1 DEF Enter, HandlerGoto, AdmittedConnected, WaitersInPlace, PlainTypeOK,
       enrollmentVars
  <2> QED
    BY <2>1, <2>2, <2>3, <2>4
<1>3. CASE ReadEnd(c)
  <2>1. ~Queued(<<"leave", c>>)
    BY <1>3 DEF ReadEnd, WaitersInPlace
  <2>2. QueueTypeOK' /\ \A s : Queued(s)' <=> Queued(s) \/ s = <<"leave", c>>
    BY <1>3, <2>1, AskQueue, Requests DEF ReadEnd
  <2>3. PlainTypeOK'
    BY <1>3 DEF ReadEnd, HandlerGoto, handlerFrame, pingVars, trackVars, history, PlainTypeOK
  <2>4. WaitersInPlace'
    BY <1>3, <2>2, HandlerWaiters, Requests
    DEF ReadEnd, handlerFrame, pingVars, trackVars, enrollmentVars, WaitersInPlace
  <2>5. AdmittedConnected'
    BY <1>3 DEF ReadEnd, HandlerGoto, AdmittedConnected, PlainTypeOK, enrollmentVars
  <2> QED
    BY <2>2, <2>3, <2>4, <2>5
<1>4. CASE Leave(c)
  <2>1. /\ QueueTypeOK' /\ Queued(<<"leave", c>>)
        /\ \A s : Queued(s)' <=> Queued(s) /\ s # <<"leave", c>>
    BY <1>4, GrantedQueue DEF Leave
  <2>2. PlainTypeOK'
    BY <1>4 DEF Leave, HandlerGoto, handlerFrame, pingVars, trackVars, history, PlainTypeOK
  <2>3. WaitersInPlace'
    BY <1>4, <2>1, HandlerWaiters, Requests
    DEF Leave, handlerFrame, pingVars, trackVars, enrollmentVars, WaitersInPlace
  <2>4. AdmittedConnected'
    BY <1>4, <2>1 DEF Leave, HandlerGoto, AdmittedConnected, WaitersInPlace, PlainTypeOK,
       enrollmentVars
  <2> QED
    BY <2>1, <2>2, <2>3, <2>4
<1> QED
  BY <1>1, <1>2, <1>3, <1>4

\* The steps of the message processor, and the requests that it answers.
LEMMA MessageSteps ==
    ASSUME ConnInv, NEW c \in Client, UNCHANGED enrollmentVars,
           RecordPong(c) \/ ReplyLock(c) \/ ReplySend(c) \/ Invalid(c)
    PROVE  ConnInv'
<1> USE DEF ConnInv
<1>1. UNCHANGED <<link, handlerPc, sockets, pingVars, trackVars, trackHeld>>
  BY DEF RecordPong, ReplyLock, ReplySend, Invalid, messageFrame
<1>2. AdmittedConnected'
  BY <1>1 DEF AdmittedConnected, enrollmentVars
<1>3. PlainTypeOK'
  <2>1. CASE RecordPong(c)
    BY <1>1, <2>1, PongType DEF RecordPong, pingVars, trackVars, PlainTypeOK
  <2>2. CASE ReplyLock(c)
    BY <1>1, <2>2 DEF ReplyLock, Replying, pingVars, trackVars, PlainTypeOK
  <2>3. CASE ReplySend(c)
    BY <1>1, <2>3 DEF ReplySend, Replying, pingVars, trackVars, PlainTypeOK
  <2>4. CASE Invalid(c)
    BY <1>1, <2>4 DEF Invalid, pingVars, trackVars, PlainTypeOK
  <2> QED
    BY <2>1, <2>2, <2>3, <2>4
<1>4. QueueTypeOK' /\ \A s : (\A d \in Client : s # <<"reply", d>>) => (Queued(s)' <=> Queued(s))
  <2>1. CASE RecordPong(c) \/ ReplySend(c)
    BY <2>1, SameQueue DEF RecordPong, ReplySend
  <2>2. CASE ReplyLock(c)
    BY <2>2, GrantedQueue DEF ReplyLock
  <2>3. CASE Invalid(c)
    <3>1. QueueTypeOK' /\ \A s : Queued(s)' <=> Queued(s) \/ s = <<"reply", c>>
      BY <2>3, AskQueue, Requests DEF Invalid
    <3> QED
      BY <3>1
  <2> QED
    BY <2>1, <2>2, <2>3
<1>5. WaitersInPlace'
  BY <1>1, <1>4, Requests DEF WaitersInPlace, pingVars, trackVars, enrollmentVars
<1> QED
  BY <1>2, <1>3, <1>4, <1>5

\* The next task of a round is one that was spawned, or there is none.
LEMMA PingNextType ==
    ASSUME NEW tasks \in [Client -> {"none", "waiting", "sending", "ok", "failed"}],
           PingNext(tasks)
    PROVE  /\ pingTask' \in [Client -> {"none", "waiting", "sending", "ok", "failed"}]
           /\ pingTarget' \in Client \cup {Nobody}
           /\ pingTimer' \in 0 .. PingPeriod
BY ConnectionsAssumption DEF PingNext

\* The steps of the ping loop and of the tasks it spawns.
LEMMA PingSteps ==
    ASSUME ConnInv, UNCHANGED enrollmentVars,
           PingWake \/ PingRound \/ PingResult
             \/ \E c \in Client : PingSend(c) \/ PingFailed(c)
    PROVE  ConnInv'
<1> USE DEF ConnInv
<1>1. UNCHANGED <<link, handlerPc, pongs, reply, trackVars, history>>
  BY DEF PingWake, PingRound, PingResult, PingSend, PingFailed, pingFrame
<1>2. AdmittedConnected'
  BY <1>1 DEF AdmittedConnected, enrollmentVars
<1>3. Nobody \notin Client
  BY ConnectionsAssumption
<1>4. CASE PingWake
  <2>1. QueueTypeOK' /\ \A s : Queued(s)' <=> Queued(s) \/ s = <<"round", Nobody>>
    BY <1>4, AskQueue, Requests DEF PingWake
  <2>2. PlainTypeOK'
    BY <1>1, <1>4 DEF PingWake, pingVars, trackVars, history, PlainTypeOK
  <2>3. WaitersInPlace'
    BY <1>1, <1>4, <2>1, Requests DEF PingWake, pingVars, trackVars, enrollmentVars,
       WaitersInPlace
  <2> QED
    BY <1>2, <2>1, <2>2, <2>3
<1>5. CASE PingRound
  <2>1. /\ QueueTypeOK' /\ Queued(<<"round", Nobody>>)
        /\ \A s : Queued(s)' <=> Queued(s) /\ s # <<"round", Nobody>>
    BY <1>5, GrantedQueue DEF PingRound
  <2>2. PlainTypeOK'
    <3>1. [c \in Client |-> IF c \in sockets THEN "waiting" ELSE "none"]
            \in [Client -> {"none", "waiting", "sending", "ok", "failed"}]
      OBVIOUS
    <3> QED
      BY <1>1, <1>5, <3>1, PingNextType DEF PingRound, trackVars, history, PlainTypeOK
  <2>3. \A c \in Client : ~Queued(<<"failed", c>>)
    BY <1>3, <2>1 DEF WaitersInPlace
  <2>4. WaitersInPlace'
    BY <1>1, <2>1, <2>3, Requests DEF trackVars, enrollmentVars, WaitersInPlace
  <2> QED
    BY <1>2, <2>1, <2>2, <2>4
<1>6. CASE PingResult
  <2>1. pingTarget \in Client /\ ~Queued(<<"round", Nobody>>)
    BY <1>6 DEF PingResult, PlainTypeOK, WaitersInPlace
  <2>2. CASE /\ pingTask[pingTarget] = "ok"
             /\ PingNext([pingTask EXCEPT ![pingTarget] = "none"])
             /\ UNCHANGED lockQueue
    <3>1. QueueTypeOK' /\ \A s : Queued(s)' <=> Queued(s)
      BY <2>2, SameQueue
    <3>2. PlainTypeOK'
      <4>1. [pingTask EXCEPT ![pingTarget] = "none"]
              \in [Client -> {"none", "waiting", "sending", "ok", "failed"}]
        BY DEF PlainTypeOK
      <4> QED
        BY <1>1, <1>6, <2>2, <4>1, PingNextType DEF PingResult, trackVars, history, PlainTypeOK
    <3>3. \A c \in Client : ~Queued(<<"failed", c>>)
      BY <2>2 DEF WaitersInPlace
    <3>4. WaitersInPlace'
      BY <1>1, <2>1, <3>1, <3>3 DEF trackVars, enrollmentVars, WaitersInPlace
    <3> QED
      BY <1>2, <3>1, <3>2, <3>4
  <2>3. CASE /\ pingTask[pingTarget] = "failed"
             /\ ~Queued(<<"failed", pingTarget>>)
             /\ Ask(<<"failed", pingTarget>>)
             /\ UNCHANGED pingVars
    <3>1. QueueTypeOK' /\ \A s : Queued(s)' <=> Queued(s) \/ s = <<"failed", pingTarget>>
      BY <2>1, <2>3, AskQueue, Requests
    <3>2. PlainTypeOK'
      BY <1>1, <1>6, <2>3 DEF PingResult, pingVars, trackVars, history, PlainTypeOK
    <3>3. WaitersInPlace'
      BY <1>1, <2>1, <2>3, <3>1, Requests DEF pingVars, trackVars, enrollmentVars,
         WaitersInPlace
    <3> QED
      BY <1>2, <3>1, <3>2, <3>3
  <2> QED
    BY <1>6, <2>2, <2>3 DEF PingResult
<1>7. ASSUME NEW c \in Client, PingSend(c) PROVE ConnInv'
  <2>1. QueueTypeOK' /\ \A s : Queued(s)' <=> Queued(s)
    BY <1>7, SameQueue DEF PingSend
  <2>2. \E r \in {"sending", "ok", "failed"} : pingTask' = [pingTask EXCEPT ![c] = r]
    BY <1>7 DEF PingSend
  <2>3. PlainTypeOK'
    BY <1>1, <1>7, <2>2 DEF PingSend, Pinged, trackVars, history, PlainTypeOK
  <2>4. ASSUME NEW d \in Client, Queued(<<"failed", d>>) PROVE pingTask'[d] = "failed"
    <3>1. pingTask[d] = "failed"
      BY <2>4 DEF WaitersInPlace
    <3>2. c # d
      BY <1>7, <3>1 DEF PingSend, PingHasMutex
    <3> QED
      BY <2>2, <3>1, <3>2 DEF PlainTypeOK
  <2>5. WaitersInPlace'
    BY <1>1, <1>7, <2>1, <2>4 DEF PingSend, trackVars, enrollmentVars, WaitersInPlace
  <2> QED
    BY <1>2, <2>1, <2>3, <2>5
<1>8. ASSUME NEW c \in Client, PingFailed(c) PROVE ConnInv'
  <2>1. /\ QueueTypeOK' /\ Queued(<<"failed", c>>)
        /\ \A s : Queued(s)' <=> Queued(s) /\ s # <<"failed", c>>
    BY <1>8, GrantedQueue DEF PingFailed
  <2>2. PlainTypeOK'
    <3>1. [pingTask EXCEPT ![c] = "none"]
            \in [Client -> {"none", "waiting", "sending", "ok", "failed"}]
      BY DEF PlainTypeOK
    <3>2. PingNext([pingTask EXCEPT ![c] = "none"])
      BY <1>8 DEF PingFailed
    <3>3. /\ pingTask' \in [Client -> {"none", "waiting", "sending", "ok", "failed"}]
          /\ pingTarget' \in Client \cup {Nobody}
          /\ pingTimer' \in 0 .. PingPeriod
      BY <3>1, <3>2, PingNextType
    <3> QED
      BY <1>1, <1>8, <3>3 DEF PingFailed, trackVars, history, PlainTypeOK
  <2>3. ~Queued(<<"round", Nobody>>) /\ \A d \in Client : d # c => ~Queued(<<"failed", d>>)
    BY <1>3, <2>1 DEF WaitersInPlace
  <2>4. WaitersInPlace'
    BY <1>1, <2>1, <2>3, Requests DEF trackVars, enrollmentVars, WaitersInPlace
  <2> QED
    BY <1>2, <2>1, <2>2, <2>4
<1> QED
  BY <1>4, <1>5, <1>6, <1>7, <1>8

\* The steps of the pong tracker.
LEMMA TrackSteps ==
    ASSUME ConnInv, UNCHANGED enrollmentVars,
           TrackPass \/ TrackForget \/ \E c \in Client : TrackEntry(c) \/ TrackRemove(c)
    PROVE  ConnInv'
<1> USE DEF ConnInv
<1>1. UNCHANGED <<link, pongDue, handlerPc, reply, pingVars>>
  BY DEF TrackPass, TrackForget, TrackEntry, TrackRemove, trackFrame
<1>2. AdmittedConnected'
  BY <1>1 DEF AdmittedConnected, enrollmentVars
<1>3. ASSUME NEW entries \in [Client -> Pong], NEW d \in Client \cup {Nobody},
             TrackNext(entries, d)
      PROVE  /\ trackPongs' \in [Client -> Pong] /\ trackTarget' \in Client \cup {Nobody}
             /\ trackTimer' \in 0 .. PongPeriod
  BY <1>3, ConnectionsAssumption DEF TrackNext
<1> DEFINE AgesOK == held' \in [Client -> Age] /\ trackHeld' \in [Client -> Age]
<1>4. CASE TrackPass
  <2>1. QueueTypeOK' /\ \A s : Queued(s)' <=> Queued(s)
    BY <1>4, SameQueue DEF TrackPass
  <2>2. PlainTypeOK'
    <3>1. pongs \in [Client -> Pong]
      BY DEF PlainTypeOK
    <3>2. TrackNext(pongs, Nobody) /\ UNCHANGED <<pongs, sockets>>
      BY <1>4 DEF TrackPass
    <3>3. AgesOK
      BY <1>4 DEF TrackPass, PlainTypeOK
    <3> QED
      BY <1>1, <1>3, <3>1, <3>2, <3>3 DEF pingVars, PlainTypeOK
  <2>3. trackTarget' = trackTarget
    BY <1>4 DEF TrackPass, TrackIdle, TrackNext
  <2>4. WaitersInPlace'
    BY <1>1, <2>1, <2>3 DEF pingVars, enrollmentVars, WaitersInPlace
  <2> QED
    BY <1>2, <2>1, <2>2, <2>4
<1>5. CASE TrackForget
  <2>1. QueueTypeOK' /\ \A s : Queued(s)' <=> Queued(s)
    BY <1>5, SameQueue DEF TrackForget
  <2>2. PlainTypeOK'
    <3>1. trackPongs \in [Client -> Pong] /\ pongs' \in [Client -> Pong]
      BY <1>5, PongType DEF TrackForget, PlainTypeOK
    <3>2. TrackNext(trackPongs, Nobody) /\ UNCHANGED sockets
      BY <1>5 DEF TrackForget
    <3>3. AgesOK
      BY <1>5, PongType DEF TrackForget, PlainTypeOK
    <3> QED
      BY <1>1, <1>3, <3>1, <3>2, <3>3 DEF pingVars, PlainTypeOK
  <2>3. \A c \in Client : ~Queued(<<"silent", c>>)
    BY <1>5 DEF TrackForget, WaitersInPlace
  <2>4. WaitersInPlace'
    BY <1>1, <2>1, <2>3 DEF pingVars, enrollmentVars, WaitersInPlace
  <2> QED
    BY <1>2, <2>1, <2>2, <2>4
<1>6. ASSUME NEW c \in Client, TrackEntry(c) PROVE ConnInv'
  <2> DEFINE rest == [trackPongs EXCEPT ![c] = NoPong]
  <2>1. rest \in [Client -> Pong]
    BY PongType DEF PlainTypeOK
  <2>2. \A d \in Client : ~Queued(<<"silent", d>>)
    BY <1>6, ConnectionsAssumption DEF TrackEntry, WaitersInPlace
  <2>3. UNCHANGED <<pongs, sockets>> /\ AgesOK
    BY <1>6, PongType DEF TrackEntry, PlainTypeOK
  <2>4. CASE TrackNext(rest, c) /\ Ask(<<"silent", c>>)
    <3>1. QueueTypeOK' /\ \A s : Queued(s)' <=> Queued(s) \/ s = <<"silent", c>>
      BY <2>2, <2>4, AskQueue, Requests
    <3>2. PlainTypeOK'
      BY <1>1, <1>3, <2>1, <2>3, <2>4 DEF pingVars, PlainTypeOK
    <3>3. trackTarget' = c
      BY <2>4 DEF TrackNext
    <3>4. WaitersInPlace'
      BY <1>1, <2>2, <3>1, <3>3, Requests DEF pingVars, enrollmentVars, WaitersInPlace
    <3> QED
      BY <1>2, <3>1, <3>2, <3>4
  <2>5. CASE TrackNext(rest, Nobody) /\ UNCHANGED lockQueue
    <3>1. QueueTypeOK' /\ \A s : Queued(s)' <=> Queued(s)
      BY <2>5, SameQueue
    <3>2. PlainTypeOK'
      BY <1>1, <1>3, <2>1, <2>3, <2>5 DEF pingVars, PlainTypeOK
    <3>3. WaitersInPlace'
      BY <1>1, <2>2, <3>1 DEF pingVars, enrollmentVars, WaitersInPlace
    <3> QED
      BY <1>2, <3>1, <3>2, <3>3
  <2> QED
    BY <1>6, <2>4, <2>5 DEF TrackEntry
<1>7. ASSUME NEW c \in Client, TrackRemove(c) PROVE ConnInv'
  <2>1. QueueTypeOK' /\ \A s : Queued(s)' <=> Queued(s) /\ s # <<"silent", c>>
    BY <1>7, GrantedQueue DEF TrackRemove
  <2>2. PlainTypeOK'
    BY <1>1, <1>7 DEF TrackRemove, pingVars, trackVars, history, PlainTypeOK
  <2>3. WaitersInPlace'
    BY <1>1, <1>7, <2>1, Requests DEF TrackRemove, trackVars, pingVars, enrollmentVars,
       WaitersInPlace
  <2> QED
    BY <1>2, <2>1, <2>2, <2>3
<1> QED
  BY <1>4, <1>5, <1>6, <1>7

\* Links that fail and recover, and time, move no task.
LEMMA OutsideSteps ==
    ASSUME ConnInv, UNCHANGED enrollmentVars,
           Tick \/ \E c \in Client : LinkFails(c) \/ LinkRecovers(c)
    PROVE  ConnInv'
<1> USE DEF ConnInv
<1>1. UNCHANGED <<handlerPc, sockets, lockQueue, reply, pingTask, pingTarget, trackTarget>>
  BY DEF Tick, handlerVars, LinkFails, LinkRecovers, linkFrame, pingVars, trackVars
<1>2. AdmittedConnected'
  BY <1>1 DEF AdmittedConnected, enrollmentVars
<1>3. QueueTypeOK' /\ \A s : Queued(s)' <=> Queued(s)
  BY <1>1, SameQueue
<1>4. WaitersInPlace'
  BY <1>1, <1>3 DEF WaitersInPlace, enrollmentVars
<1>5. CASE Tick
  <2>1. held' \in [Client -> Age] /\ trackHeld' \in [Client -> Age]
    BY <1>5, PongType DEF Tick, Held, PlainTypeOK
  <2>2. pingTimer' \in 0 .. PingPeriod /\ trackTimer' \in 0 .. PongPeriod
    BY <1>5, PongType, ConnectionsAssumption DEF Tick, PlainTypeOK
  <2>3. pongs' \in [Client -> Pong] /\ trackPongs' \in [Client -> Pong]
    BY <1>5, PongType DEF Tick, PlainTypeOK
  <2>4. PlainTypeOK'
    BY <1>1, <1>5, <2>1, <2>2, <2>3 DEF Tick, handlerVars, PlainTypeOK
  <2> QED
    BY <1>2, <1>3, <1>4, <2>4
<1>6. ASSUME NEW c \in Client, LinkFails(c) \/ LinkRecovers(c) PROVE ConnInv'
  <2>1. UNCHANGED <<pongs, trackPongs, held, trackHeld, pingTimer, trackTimer>>
    BY <1>6 DEF LinkFails, LinkRecovers, linkFrame, pingVars, trackVars, history
  <2>2. PlainTypeOK'
    BY <1>1, <1>6, <2>1 DEF LinkFails, LinkRecovers, PlainTypeOK
  <2> QED
    BY <1>2, <1>3, <1>4, <2>2
<1> QED
  BY <1>5, <1>6

\* A login that goes on, with its request if it has one now, and no other change.
LEMMA LoginWaiters ==
    ASSUME ConnInv, NEW c \in Client, UNCHANGED <<pingVars, trackVars>>,
           \A d \in Client : /\ handlerPc'[d] = "enter" <=> handlerPc[d] = "enter"
                             /\ handlerPc'[d] = "leave" <=> handlerPc[d] = "leave",
           \A d \in Client : d # c => loginPc'[d] = loginPc[d],
           Queued(<<"check", c>>)' => loginPc'[c] = "connected",
           \A s : s # <<"check", c>> => (Queued(s)' <=> Queued(s))
    PROVE  WaitersInPlace'
<1>1. \A d : \A k \in {"enter", "leave", "silent", "failed", "round"} :
         Queued(<<k, d>>)' <=> Queued(<<k, d>>)
  <2>1. \A d : \A k \in {"enter", "leave", "silent", "failed", "round"} :
           <<k, d>> # <<"check", c>>
    OBVIOUS
  <2> QED
    BY <2>1
<1>2. ASSUME NEW d \in Client, Queued(<<"check", d>>)' PROVE loginPc'[d] = "connected"
  <2>1. CASE d = c
    BY <1>2, <2>1
  <2>2. CASE d # c
    <3>1. <<"check", d>> # <<"check", c>>
      BY <2>2
    <3>2. Queued(<<"check", d>>)
      BY <1>2, <3>1
    <3> QED
      BY <2>2, <3>2 DEF ConnInv, WaitersInPlace
  <2> QED
    BY <2>1, <2>2
<1> QED
  BY <1>1, <1>2 DEF ConnInv, WaitersInPlace, pingVars, trackVars

\* The steps of a login.  One that asks for the lock was not under way before.
LEMMA LoginSteps ==
    ASSUME ConnInv, EnrollmentTypeOK, NEW c \in Client,
           LogIn(c) \/ LookForWallet(c) \/ Connect(c)
    PROVE  ConnInv'
<1> USE DEF ConnInv
<1>1. CASE LogIn(c)
  <2>1. UNCHANGED <<link, pongDue, handlerPc, sockets, pongs, reply,
                    pingVars, trackVars, history>>
    BY <1>1 DEF LogIn
  <2>2. /\ \A d \in Client : d # c => loginPc'[d] = loginPc[d]
        /\ loginPc[c] \notin {"admitted", "connected"} /\ loginPc'[c] # "admitted"
    BY <1>1 DEF LogIn, LoginStep, Login, GetMiner, AddMiner, LookupAdded, GetPool, AddReward,
       Refuse, Drop, Goto, EnrollmentTypeOK
  <2>3. ~Queued(<<"check", c>>)
    BY <2>2 DEF WaitersInPlace
  <2>4. PlainTypeOK'
    BY <2>1 DEF pingVars, trackVars, history, PlainTypeOK
  <2>5. AdmittedConnected'
    BY <2>1, <2>2 DEF AdmittedConnected
  <2>6. QueueTypeOK' /\ WaitersInPlace'
    <3>1. CASE loginPc'[c] = "connected" /\ Ask(<<"check", c>>)
      <4>1. QueueTypeOK' /\ \A s : Queued(s)' <=> Queued(s) \/ s = <<"check", c>>
        BY <2>3, <3>1, AskQueue, Requests
      <4>2. WaitersInPlace'
        BY <2>1, <2>2, <3>1, <4>1, LoginWaiters
      <4> QED
        BY <4>1, <4>2
    <3>2. CASE UNCHANGED lockQueue
      <4>1. QueueTypeOK' /\ \A s : Queued(s)' <=> Queued(s)
        BY <3>2, SameQueue
      <4>2. WaitersInPlace'
        BY <2>1, <2>2, <2>3, <4>1, LoginWaiters
      <4> QED
        BY <4>1, <4>2
    <3> QED
      BY <1>1, <3>1, <3>2 DEF LogIn
  <2> QED
    BY <2>4, <2>5, <2>6
<1>2. CASE LookForWallet(c)
  <2>1. UNCHANGED <<link, pongDue, handlerPc, sockets, pongs, reply,
                    pingVars, trackVars, history>>
    BY <1>2 DEF LookForWallet
  <2>2. /\ \A d \in Client : d # c => loginPc'[d] = loginPc[d]
        /\ loginPc[c] # "admitted" /\ loginPc'[c] # "admitted"
    BY <1>2 DEF LookForWallet, CheckConnected, Goto, EnrollmentTypeOK
  <2>3. QueueTypeOK' /\ \A s : Queued(s)' <=> Queued(s) /\ s # <<"check", c>>
    BY <1>2, GrantedQueue DEF LookForWallet
  <2>4. PlainTypeOK'
    BY <2>1 DEF pingVars, trackVars, history, PlainTypeOK
  <2>5. AdmittedConnected'
    BY <2>1, <2>2 DEF AdmittedConnected
  <2>6. WaitersInPlace'
    BY <2>1, <2>2, <2>3, LoginWaiters
  <2> QED
    BY <2>3, <2>4, <2>5, <2>6
<1>3. CASE Connect(c)
  <2>1. /\ UNCHANGED <<link, pongDue, sockets, lockQueue, pongs, reply,
                       pingVars, trackVars, history>>
        /\ HandlerGoto(c, "ping") /\ handlerPc[c] = "none"
    BY <1>3 DEF Connect, Upgrade, handlerFrame
  <2>2. /\ \A d \in Client : d # c => loginPc'[d] = loginPc[d]
        /\ loginPc[c] = "verify" /\ loginPc'[c] = "admitted"
    BY <1>3 DEF Connect, Admit, Goto, EnrollmentTypeOK
  <2>3. QueueTypeOK' /\ \A s : Queued(s)' <=> Queued(s)
    BY <2>1, SameQueue
  <2>4. PlainTypeOK'
    BY <2>1 DEF HandlerGoto, pingVars, trackVars, history, PlainTypeOK
  <2>5. /\ \A d \in Client : d # c => handlerPc'[d] = handlerPc[d]
        /\ handlerPc'[c] = "ping"
    BY <2>1 DEF HandlerGoto, PlainTypeOK
  <2>6. AdmittedConnected'
    BY <2>2, <2>5 DEF AdmittedConnected
  <2>7. WaitersInPlace'
    <3>1. \A d \in Client : /\ handlerPc'[d] = "enter" <=> handlerPc[d] = "enter"
                            /\ handlerPc'[d] = "leave" <=> handlerPc[d] = "leave"
      BY <2>1, <2>5
    <3>2. ~Queued(<<"check", c>>)
      BY <2>2 DEF WaitersInPlace
    <3> QED
      BY <2>1, <2>2, <2>3, <3>1, <3>2, LoginWaiters
  <2> QED
    BY <2>3, <2>4, <2>6, <2>7
<1> QED
  BY <1>1, <1>2, <1>3

\* Every step of the system keeps the invariant.
LEMMA AccessInvStep == AccessInv /\ [Next]_vars => AccessInv'
<1> SUFFICES ASSUME AccessInv, [Next]_vars PROVE AccessInv'
  OBVIOUS
<1>1. EnrollmentTypeOK'
  BY LoginsAlone, EnrollmentTypeStep DEF AccessInv
<1>2. ConnInv
  BY DEF AccessInv, ConnInv
<1> SUFFICES ConnInv'
  BY <1>1 DEF AccessInv, ConnInv
<1>3. ASSUME NEW c \in Client, LogIn(c) \/ LookForWallet(c) \/ Connect(c) PROVE ConnInv'
  BY <1>2, <1>3, LoginSteps DEF AccessInv
<1>4. CASE Tasks
  <2>1. ASSUME NEW c \in Client, Handler(c) \/ PingSend(c) \/ RecordPong(c) PROVE ConnInv'
    BY <1>2, <1>4, <2>1, HandlerSteps, MessageSteps, PingSteps DEF Tasks, Handler
  <2>2. CASE PingLoop \/ Tracker
    BY <1>2, <1>4, <2>2, PingSteps, TrackSteps DEF Tasks, PingLoop, Tracker
  <2> QED
    BY <1>4, <2>1, <2>2 DEF Tasks
<1>5. CASE Replies \/ Environment
  <2>1. ASSUME NEW c \in Client, Reply(c) \/ RecordPong(c) \/ Invalid(c) PROVE ConnInv'
    BY <1>2, <1>5, <2>1, MessageSteps DEF Replies, Environment, Reply
  <2>2. ASSUME NEW c \in Client, LinkFails(c) \/ LinkRecovers(c) PROVE ConnInv'
    BY <1>2, <1>5, <2>2, OutsideSteps DEF Replies, Environment
  <2> QED
    BY <1>5, <2>1, <2>2 DEF Replies, Environment, ClientStep
<1>6. CASE Time
  BY <1>2, <1>6, OutsideSteps DEF Time
<1>7. CASE UNCHANGED vars
  <2>1. QueueTypeOK' /\ \A s : Queued(s)' <=> Queued(s)
    BY <1>2, <1>7, SameQueue DEF ConnInv, vars, connectionVars, handlerVars
  <2>2. PlainTypeOK'
    BY <1>2, <1>7
    DEF ConnInv, PlainTypeOK, vars, connectionVars, handlerVars, pingVars, trackVars, history
  <2>3. WaitersInPlace' /\ AdmittedConnected'
    BY <1>2, <1>7, <2>1 DEF ConnInv, WaitersInPlace, AdmittedConnected, vars, enrollmentVars,
       connectionVars, handlerVars, pingVars, trackVars
  <2> QED
    BY <2>1, <2>2, <2>3 DEF ConnInv
<1> QED
  BY <1>3, <1>4, <1>5, <1>6, <1>7 DEF Next

\* The type invariant of logins and connections, for any number of clients and any
\* periods: nobody waits twice for the lock on app_state, a handler waits for it where
\* its program counter says, and exactly the admitted clients are connected (run
\* "access").
THEOREM AccessTypeCorrect == Spec => []TypeOK
<1>1. AccessInv => TypeOK
  BY DEF AccessInv, TypeOK, ConnectionsTypeOK, PlainTypeOK, QueueTypeOK, QueueUnique,
     WaitersInPlace, AdmittedConnected
<1> QED
  BY <1>1, ConnectionsInitInv, AccessInvStep, PTL DEF Spec

-----------------------------------------------------------------------------
(* Clients that answer every ping *)

\* A client that reads and answers at once can only be removed for a pong that is too
\* old, and as long as its connection is open: its pings are sent, it is owed no reply,
\* and it is read from while it is in the map.  Before that there is no pong of it.
Undisturbed(c) ==
    /\ reply[c] = "none"
    /\ pingTask[c] \notin {"sending", "failed"}
    /\ \A k \in {"reply", "failed"} : ~Queued(<<k, c>>)
    /\ handlerPc[c] \notin {"leave", "gone"}
    /\ c \in sockets => handlerPc[c] = "read"
    /\ handlerPc[c] # "read" =>
          pongs[c] = NoPong /\ trackPongs[c] = NoPong /\ trackTarget # c
    /\ trackTarget = c => trackPongs[c] = NoPong

\* Ticks since the end of the last round of pings, when none is under way.
SinceRound == IF pingTarget = Nobody THEN PingPeriod - pingTimer ELSE 0

\* Blocked sends made the pong that the tracker looked at too old.
Spent(c) == PingPeriod + trackHeld[c] > PongTimeout

\* Its last pong is from the last round, unless this round has reached it already
\* or is about to: only ticks in which sends are blocked make a round longer.  The
\* tracker's copy ages in these ticks only, too.
Fresh(c) ==
    /\ \/ pongs[c] = NoPong
       \/ c \in pongDue
       \/ pingTask[c] = "waiting"
       \/ pongs[c] <= held[c] + SinceRound
    /\ pongs[c] # NoPong => pongs[c] <= held[c] + PingPeriod
    /\ trackPongs[c] # NoPong => trackPongs[c] <= trackHeld[c] + PingPeriod
    /\ trackTarget = c => Spent(c)

\* Once it has been removed, its pongs may grow old.
Cared(c) == Undisturbed(c) /\ (c \in sockets => Fresh(c))

ResponsiveInv == \A c \in Responsive : link[c] # "stalled" /\ (link[c] = "open" => Cared(c))

\* What is to be shown of a step.
Kept(c) == Cared(c)' /\ (c \in sockets => c \in sockets' \/ Spent(c))

\* While no send is blocked, time passes only between two rounds and two passes.
LEMMA QuietUnblocked ==
    ASSUME ConnInv, Quiet, ~SendBlocked
    PROVE  pingTarget = Nobody /\ pingTimer > 0 /\ \A c \in Client : trackPongs[c] = NoPong
<1>1. \A c \in Client : pingTask[c] # "sending" /\ reply[c] # "sending"
  BY DEF SendBlocked
<1>2. \A c \in Client : pingTask[c] # "waiting" /\ reply[c] # "locked"
  BY <1>1 DEF Quiet, MutexFree
<1>3. Readers = {}
  BY <1>1, <1>2 DEF ConnInv, PlainTypeOK, Readers
<1>4. lockQueue = <<>>
  BY <1>3 DEF Quiet
<1>5. \A r : ~Queued(r)
  BY <1>4 DEF Queued
<1>6. pingTarget = Nobody
  BY <1>1, <1>2, <1>5 DEF Quiet, ConnInv, PlainTypeOK
<1> QED
  BY <1>5, <1>6 DEF Quiet, TrackIdle

\* The steps of handlers.
LEMMA HandlerKeeps ==
    ASSUME ConnInv, NEW c \in Responsive, link[c] = "open", Cared(c), NEW d \in Client,
           FirstPing(d) \/ Enter(d) \/ ReadEnd(d) \/ Leave(d)
    PROVE  Kept(c)
<1> USE DEF Cared
<1>1. UNCHANGED <<link, pongs, reply, pingVars, trackVars, history>> /\ c \in Client
  BY ConnectionsAssumption DEF FirstPing, Enter, ReadEnd, Leave, handlerFrame
<1>2. c \in pongDue => c \in pongDue'
  <2>1. Leave(d) => d # c
    BY GrantedQueue DEF Leave, ConnInv, WaitersInPlace, Undisturbed
  <2> QED
    BY <2>1 DEF FirstPing, Pinged, Enter, ReadEnd, Leave
<1>3. c \in sockets' => Fresh(c)'
  <2>1. c \in sockets => Fresh(c)'
    BY <1>1, <1>2 DEF Fresh, Spent, SinceRound, pingVars, trackVars, history
  \* When it enters the map, there is no pong of it.
  <2>2. c \in sockets' /\ c \notin sockets => handlerPc[c] # "read"
    BY GrantedQueue DEF FirstPing, Enter, ReadEnd, Leave, ConnInv, WaitersInPlace
  <2>3. handlerPc[c] # "read" => Fresh(c)'
    BY <1>1 DEF Undisturbed, Fresh, pingVars, trackVars
  <2> QED
    BY <2>1, <2>2, <2>3
<1>4. \A k \in {"reply", "failed"} : ~Queued(<<k, c>>)'
  <2>1. FirstPing(d) \/ ReadEnd(d) => \A k \in {"reply", "failed"} : ~Queued(<<k, c>>)'
    <3>1. CASE FirstPing(d) /\ UNCHANGED lockQueue
      BY <3>1 DEF Undisturbed, Queued
    <3>2. CASE FirstPing(d) /\ Ask(<<"enter", d>>)
      <4>1. ~Queued(<<"enter", d>>)
        BY <3>2 DEF FirstPing, ConnInv, WaitersInPlace
      <4>2. \A s : Queued(s)' <=> Queued(s) \/ s = <<"enter", d>>
        BY <3>2, <4>1, AskQueue, Requests DEF ConnInv
      <4> QED
        BY <4>2, Requests DEF Undisturbed
    <3>3. CASE ReadEnd(d)
      <4>1. ~Queued(<<"leave", d>>) /\ Ask(<<"leave", d>>)
        BY <3>3 DEF ReadEnd, ConnInv, WaitersInPlace
      <4>2. \A s : Queued(s)' <=> Queued(s) \/ s = <<"leave", d>>
        BY <4>1, AskQueue, Requests DEF ConnInv
      <4> QED
        BY <4>2, Requests DEF Undisturbed
    <3> QED
      BY <3>1, <3>2, <3>3 DEF FirstPing
  <2>2. ASSUME NEW r, Granted(r) PROVE \A k \in {"reply", "failed"} : ~Queued(<<k, c>>)'
    BY <2>2, GrantedQueue DEF ConnInv, Undisturbed
  <2> QED
    BY <2>1, <2>2 DEF Enter, Leave
<1>5. /\ c \in sockets' => handlerPc'[c] = "read"
      /\ handlerPc'[c] \notin {"leave", "gone"}
      /\ handlerPc'[c] # "read" => handlerPc[c] # "read"
      /\ c \in sockets => c \in sockets'
  <2>1. handlerPc \in [Client -> {"none", "ping", "enter", "read", "leave", "gone"}]
    BY DEF ConnInv, PlainTypeOK
  <2>2. CASE FirstPing(d)
    BY <1>1, <2>1, <2>2 DEF FirstPing, SendFails, HandlerGoto, Undisturbed
  <2>3. CASE Enter(d)
    BY <1>1, <2>1, <2>3 DEF Enter, HandlerGoto, Undisturbed
  <2>4. CASE ReadEnd(d)
    BY <1>1, <2>1, <2>4 DEF ReadEnd, HandlerGoto, Undisturbed
  <2>5. CASE Leave(d)
    <3>1. d # c
      BY <2>5, GrantedQueue DEF Leave, ConnInv, WaitersInPlace, Undisturbed
    <3> QED
      BY <1>1, <2>1, <2>5, <3>1 DEF Leave, HandlerGoto, Undisturbed
  <2> QED
    BY <2>2, <2>3, <2>4, <2>5
<1> QED
  BY <1>1, <1>3, <1>4, <1>5 DEF Kept, Undisturbed, pingVars, trackVars

\* The steps of the message processor.
LEMMA MessageKeeps ==
    ASSUME ConnInv, NEW c \in Responsive, link[c] = "open", Cared(c), NEW d \in Client,
           RecordPong(d) \/ ReplyLock(d) \/ ReplySend(d) \/ Invalid(d)
    PROVE  Kept(c)
<1> USE DEF Cared
<1>1. UNCHANGED <<link, handlerPc, sockets, pingVars, trackVars, trackHeld>> /\ c \in Client
  BY ConnectionsAssumption DEF RecordPong, ReplyLock, ReplySend, Invalid, messageFrame
<1>2. CASE RecordPong(d)
  <2>1. \A s : Queued(s)' <=> Queued(s)
    BY <1>2, SameQueue DEF RecordPong, ConnInv
  <2>2. CASE d = c
    <3>1. handlerPc[c] = "read" /\ pongs'[c] = 0 /\ held'[c] = 0 /\ reply' = reply
      BY <1>1, <1>2, <2>2 DEF RecordPong, Undisturbed, ConnInv, PlainTypeOK
    <3>2. 0 <= 0 + SinceRound /\ 0 <= 0 + PingPeriod
      BY ConnectionsAssumption DEF SinceRound, ConnInv, PlainTypeOK
    <3>3. c \in sockets => Fresh(c)'
      BY <1>1, <3>1, <3>2 DEF Fresh, Spent, SinceRound, pingVars, trackVars
    <3> QED
      BY <1>1, <2>1, <3>1, <3>3 DEF Kept, Undisturbed, pingVars, trackVars
  <2>3. CASE d # c
    <3>1. /\ pongs'[c] = pongs[c] /\ held'[c] = held[c] /\ reply' = reply
          /\ c \in pongDue => c \in pongDue'
      BY <1>1, <1>2, <2>3 DEF RecordPong, ConnInv, PlainTypeOK
    <3>2. c \in sockets => Fresh(c)'
      BY <1>1, <3>1 DEF Fresh, Spent, SinceRound, pingVars, trackVars
    <3> QED
      BY <1>1, <2>1, <3>1, <3>2 DEF Kept, Undisturbed, pingVars, trackVars
  <2> QED
    BY <2>2, <2>3
<1>3. ASSUME d # c, reply'[c] = reply[c], UNCHANGED <<pongDue, pongs, held>>,
             \A s : s # <<"reply", d>> => (Queued(s)' <=> Queued(s))
      PROVE  Kept(c)
  <2>1. c \in sockets => Fresh(c)'
    BY <1>1, <1>3 DEF Fresh, Spent, SinceRound, pingVars, trackVars
  <2>2. \A k \in {"reply", "failed"} : ~Queued(<<k, c>>)'
    BY <1>3, Requests DEF Undisturbed
  <2> QED
    BY <1>1, <1>3, <2>1, <2>2 DEF Kept, Undisturbed, pingVars, trackVars
<1>4. CASE ReplyLock(d)
  <2>1. Queued(<<"reply", d>>) /\ \A s : Queued(s)' <=> Queued(s) /\ s # <<"reply", d>>
    BY <1>4, GrantedQueue DEF ReplyLock, ConnInv
  <2>2. d # c
    BY <2>1 DEF Undisturbed
  <2>3. reply'[c] = reply[c] /\ UNCHANGED <<pongDue, pongs, held>>
    BY <1>1, <1>4, <2>2 DEF ReplyLock, ConnInv, PlainTypeOK
  <2> QED
    BY <1>3, <2>1, <2>2, <2>3
<1>5. CASE ReplySend(d)
  <2>1. \A s : Queued(s)' <=> Queued(s)
    BY <1>5, SameQueue DEF ReplySend, ConnInv
  <2>2. d # c
    BY <1>5 DEF ReplySend, Undisturbed
  <2>3. reply'[c] = reply[c] /\ UNCHANGED <<pongDue, pongs, held>>
    BY <1>1, <1>5, <2>2 DEF ReplySend, ConnInv, PlainTypeOK
  <2> QED
    BY <1>3, <2>1, <2>2, <2>3
<1>6. CASE Invalid(d)
  <2>1. \A s : Queued(s)' <=> Queued(s) \/ s = <<"reply", d>>
    BY <1>6, AskQueue, Requests DEF Invalid, ConnInv
  <2>2. d # c /\ UNCHANGED <<reply, pongDue, pongs, held>>
    BY <1>6 DEF Invalid
  <2> QED
    BY <1>3, <2>1, <2>2
<1> QED
  BY <1>2, <1>4, <1>5, <1>6

\* The steps of the ping loop and of its tasks.
LEMMA PingKeeps ==
    ASSUME ConnInv, NEW c \in Responsive, link[c] = "open", Cared(c),
           PingWake \/ PingRound \/ PingResult
             \/ \E d \in Client : PingSend(d) \/ PingFailed(d)
    PROVE  Kept(c)
<1> USE DEF Cared
<1>1. UNCHANGED <<link, handlerPc, pongs, reply, trackVars, history>> /\ c \in Client
  BY ConnectionsAssumption
  DEF PingWake, PingRound, PingResult, PingSend, PingFailed, pingFrame
<1>2. /\ held \in [Client -> Age] /\ pingTimer \in 0 .. PingPeriod /\ PingPeriod \in Nat
      /\ pingTask \in [Client -> {"none", "waiting", "sending", "ok", "failed"}]
      /\ pingTarget \in Client \cup {Nobody} /\ pongs \in [Client -> Pong]
      /\ Nobody \notin Client
  BY ConnectionsAssumption DEF ConnInv, PlainTypeOK
\* What is left to be shown of a step.
<1>3. ASSUME pingTask'[c] \notin {"sending", "failed"},
             c \in sockets' <=> c \in sockets,
             \A k \in {"reply", "failed"} : ~Queued(<<k, c>>)',
             c \in sockets => Fresh(c)'
      PROVE  Kept(c)
  BY <1>1, <1>3 DEF Kept, Undisturbed, trackVars
\* A round that goes on, or comes to its end.
<1>4. ASSUME NEW d \in Client, pingTarget # Nobody,
             pingTask[d] # "waiting", pingTask' = [pingTask EXCEPT ![d] = "none"],
             pingTarget' # Nobody \/ pingTimer' = PingPeriod,
             UNCHANGED pongDue, c \in sockets
      PROVE  Fresh(c)'
  <2>1. SinceRound = 0 /\ SinceRound' = 0
    BY <1>2, <1>4 DEF SinceRound
  <2>2. pingTask[c] = "waiting" => pingTask'[c] = "waiting"
    BY <1>1, <1>2, <1>4
  <2> QED
    BY <1>1, <1>4, <2>1, <2>2 DEF Fresh, Spent, trackVars, history
<1>5. CASE PingWake
  <2>1. \A s : Queued(s)' <=> Queued(s) \/ s = <<"round", Nobody>>
    BY <1>5, AskQueue, Requests DEF PingWake, ConnInv
  <2>2. c \in sockets => Fresh(c)'
    BY <1>1, <1>5 DEF PingWake, pingVars, trackVars, history, Fresh, Spent, SinceRound
  <2> QED
    BY <1>3, <1>5, <2>1, <2>2, Requests DEF PingWake, pingVars, Undisturbed
<1>6. CASE PingRound
  <2>1. \A s : Queued(s)' <=> Queued(s) /\ s # <<"round", Nobody>>
    BY <1>6, GrantedQueue DEF PingRound, ConnInv
  <2>2. pingTask'[c] = IF c \in sockets THEN "waiting" ELSE "none"
    BY <1>1, <1>6 DEF PingRound, PingNext
  <2>3. c \in sockets => Fresh(c)'
    BY <1>1, <2>2, <1>6 DEF PingRound, Fresh, Spent, Undisturbed, trackVars, history
  <2> QED
    BY <1>3, <1>6, <2>1, <2>2, <2>3 DEF PingRound, Undisturbed
<1>7. CASE PingResult
  <2>1. pingTarget \in Client
    BY <1>2, <1>7 DEF PingResult
  <2>2. CASE /\ pingTask[pingTarget] = "ok"
             /\ PingNext([pingTask EXCEPT ![pingTarget] = "none"])
             /\ UNCHANGED lockQueue
    <3>1. \A s : Queued(s)' <=> Queued(s)
      BY <2>2, SameQueue DEF ConnInv
    <3>2. c \in sockets => Fresh(c)'
      BY <1>2, <1>4, <1>7, <2>1, <2>2 DEF PingResult, PingNext
    <3>3. pingTask'[c] \notin {"sending", "failed"}
      BY <1>1, <1>2, <2>1, <2>2 DEF PingNext, Undisturbed
    <3> QED
      BY <1>3, <1>7, <3>1, <3>2, <3>3 DEF PingResult, Undisturbed
  <2>3. CASE /\ pingTask[pingTarget] = "failed"
             /\ ~Queued(<<"failed", pingTarget>>)
             /\ Ask(<<"failed", pingTarget>>)
             /\ UNCHANGED pingVars
    <3>1. pingTarget # c
      BY <2>3 DEF Undisturbed
    <3>2. \A s : Queued(s)' <=> Queued(s) \/ s = <<"failed", pingTarget>>
      BY <2>1, <2>3, AskQueue, Requests DEF ConnInv
    <3>3. c \in sockets => Fresh(c)'
      BY <1>1, <1>7, <2>3 DEF PingResult, pingVars, trackVars, history, Fresh, Spent, SinceRound
    <3>4. \A k \in {"reply", "failed"} : ~Queued(<<k, c>>)'
      BY <3>1, <3>2, Requests DEF Undisturbed
    <3> QED
      BY <1>3, <1>7, <2>3, <3>3, <3>4 DEF PingResult, pingVars, Undisturbed
  <2> QED
    BY <1>7, <2>2, <2>3 DEF PingResult
<1>8. ASSUME NEW d \in Client, PingSend(d) PROVE Kept(c)
  <2>1. \A s : Queued(s)' <=> Queued(s)
    BY <1>8, SameQueue DEF PingSend, ConnInv
  <2>2. CASE d = c
    <3>1. pingTask' = [pingTask EXCEPT ![c] = "ok"] /\ pongDue' = pongDue \cup {c}
      BY <1>8, <2>2 DEF PingSend, Pinged, Blocked, SendFails, Undisturbed
    <3>2. c \in sockets => Fresh(c)'
      BY <1>1, <3>1 DEF Fresh, Spent, trackVars, history
    <3> QED
      BY <1>1, <1>2, <1>3, <1>8, <2>1, <3>1, <3>2 DEF PingSend, Undisturbed
  <2>3. CASE d # c
    <3>1. pingTask'[c] = pingTask[c] /\ (c \in pongDue => c \in pongDue')
      BY <1>1, <1>2, <1>8, <2>3 DEF PingSend, Pinged
    <3>2. c \in sockets => Fresh(c)'
      BY <1>1, <1>8, <3>1 DEF PingSend, Fresh, Spent, SinceRound, trackVars, history
    <3> QED
      BY <1>1, <1>3, <1>8, <2>1, <3>1, <3>2 DEF PingSend, Undisturbed
  <2> QED
    BY <2>2, <2>3
<1>9. ASSUME NEW d \in Client, PingFailed(d) PROVE Kept(c)
  <2>1. Queued(<<"failed", d>>) /\ \A s : Queued(s)' <=> Queued(s) /\ s # <<"failed", d>>
    BY <1>9, GrantedQueue DEF PingFailed, ConnInv
  <2>2. d # c
    BY <2>1 DEF Undisturbed
  <2>3. pingTarget = d /\ pingTask[d] = "failed"
    BY <2>1 DEF ConnInv, WaitersInPlace
  <2>4. c \in sockets => Fresh(c)'
    BY <1>2, <1>4, <1>9, <2>3 DEF PingFailed, PingNext
  <2>5. pingTask'[c] = pingTask[c]
    BY <1>1, <1>2, <1>9, <2>2 DEF PingFailed, PingNext
  <2> QED
    BY <1>3, <1>9, <2>1, <2>2, <2>4, <2>5 DEF PingFailed, Undisturbed
<1> QED
  BY <1>5, <1>6, <1>7, <1>8, <1>9

\* The steps of the tracker: if a copy is too old, blocked sends are the reason.
LEMMA TrackKeeps ==
    ASSUME ConnInv, NEW c \in Responsive, link[c] = "open", Cared(c),
           TrackPass \/ TrackForget \/ \E d \in Client : TrackEntry(d) \/ TrackRemove(d)
    PROVE  Kept(c)
<1> USE DEF Cared
<1>1. UNCHANGED <<link, pongDue, handlerPc, reply, pingVars>> /\ c \in Client
  BY ConnectionsAssumption DEF TrackPass, TrackForget, TrackEntry, TrackRemove, trackFrame
<1>2. /\ held \in [Client -> Age] /\ trackHeld \in [Client -> Age]
      /\ pongs \in [Client -> Pong] /\ trackPongs \in [Client -> Pong]
      /\ Nobody \notin Client /\ PingPeriod \in Nat /\ PongTimeout \in Nat
  BY ConnectionsAssumption DEF ConnInv, PlainTypeOK
\* What is left to be shown of a step that removes another client, or none.
<1>3. ASSUME c \in sockets' <=> c \in sockets,
             \A k \in {"reply", "failed"} : ~Queued(<<k, c>>)',
             handlerPc[c] # "read" =>
                 pongs'[c] = NoPong /\ trackPongs'[c] = NoPong /\ trackTarget' # c,
             trackTarget' = c => trackPongs'[c] = NoPong,
             c \in sockets => Fresh(c)'
      PROVE  Kept(c)
  BY <1>1, <1>3 DEF Kept, Undisturbed, pingVars
<1>4. CASE TrackPass
  <2>1. \A s : Queued(s)' <=> Queued(s)
    BY <1>4, SameQueue DEF TrackPass, ConnInv
  <2>2. /\ UNCHANGED <<pongs, held, sockets>>
        /\ trackPongs' = pongs /\ trackHeld' = held /\ trackTarget' = Nobody
    BY <1>4 DEF TrackPass, TrackNext
  <2>3. c \in sockets => Fresh(c)'
    BY <1>1, <1>2, <2>2 DEF Fresh, SinceRound, pingVars
  <2> QED
    BY <1>1, <1>2, <1>3, <2>1, <2>2, <2>3 DEF Undisturbed
<1>5. CASE TrackForget
  <2>1. \A s : Queued(s)' <=> Queued(s)
    BY <1>5, SameQueue DEF TrackForget, ConnInv
  <2>2. UNCHANGED <<trackPongs, sockets>> /\ trackTarget' = Nobody
    BY <1>5 DEF TrackForget, TrackNext
  <2>3. CASE trackTarget = c
    <3>1. pongs'[c] = NoPong /\ trackPongs[c] = NoPong
      BY <1>1, <1>2, <1>5, <2>3 DEF TrackForget, Undisturbed
    <3>2. Fresh(c)'
      BY <1>1, <1>2, <2>2, <3>1 DEF Fresh
    <3> QED
      BY <1>1, <1>2, <1>3, <2>1, <2>2, <3>1, <3>2 DEF Undisturbed
  <2>4. CASE trackTarget # c
    <3>1. pongs'[c] = pongs[c] /\ held'[c] = held[c] /\ trackHeld'[c] = trackHeld[c]
      BY <1>1, <1>2, <1>5, <2>4 DEF TrackForget
    <3>2. c \in sockets => Fresh(c)'
      BY <1>1, <1>2, <2>2, <3>1 DEF Fresh, SinceRound, pingVars
    <3> QED
      BY <1>1, <1>2, <1>3, <2>1, <2>2, <3>1, <3>2 DEF Undisturbed
  <2> QED
    BY <2>3, <2>4
<1>6. ASSUME NEW d \in Client, TrackEntry(d) PROVE Kept(c)
  <2>1. /\ \A e \in Client : ~Queued(<<"silent", e>>)
        /\ trackPongs' = [trackPongs EXCEPT ![d] = NoPong]
        /\ trackTarget = Nobody /\ trackPongs[d] # NoPong
        /\ UNCHANGED <<pongs, sockets, held>>
    BY <1>2, <1>6 DEF TrackEntry, TrackNext, ConnInv, WaitersInPlace
  <2>2. CASE trackTarget' = d /\ trackPongs[d] > PongTimeout /\ Ask(<<"silent", d>>)
             /\ UNCHANGED trackHeld
    <3>1. \A s : Queued(s)' <=> Queued(s) \/ s = <<"silent", d>>
      BY <2>1, <2>2, AskQueue, Requests DEF ConnInv
    <3>2. \A k \in {"reply", "failed"} : ~Queued(<<k, c>>)'
      BY <3>1, Requests DEF Undisturbed
    <3>3. ASSUME c \in sockets, d = c PROVE Spent(c)
      <4>1. trackPongs[c] <= trackHeld[c] + PingPeriod /\ trackPongs[c] \in Age
        BY <1>1, <1>2, <2>1, <3>3 DEF Fresh, Pong
      <4> QED
        BY <1>1, <1>2, <2>2, <3>3, <4>1 DEF Spent, Age
    <3>4. c \in sockets => Fresh(c)'
      BY <1>1, <1>2, <2>1, <2>2, <3>3 DEF Fresh, Spent, SinceRound, pingVars
    <3> QED
      BY <1>1, <1>2, <1>3, <2>1, <2>2, <3>2, <3>4 DEF Undisturbed
  <2>3. CASE trackTarget' = Nobody /\ UNCHANGED lockQueue
             /\ trackHeld' = [trackHeld EXCEPT ![d] = 0]
    <3>1. \A s : Queued(s)' <=> Queued(s)
      BY <2>3, SameQueue DEF ConnInv
    <3>2. d # c => trackHeld'[c] = trackHeld[c] /\ trackPongs'[c] = trackPongs[c]
      BY <1>1, <1>2, <2>1, <2>3
    <3>3. d = c => trackPongs'[c] = NoPong
      BY <1>1, <1>2, <2>1
    <3>4. c \in sockets => Fresh(c)'
      BY <1>1, <1>2, <2>1, <2>3, <3>2, <3>3 DEF Fresh, SinceRound, pingVars
    <3> QED
      BY <1>1, <1>2, <1>3, <2>1, <2>3, <3>1, <3>2, <3>3, <3>4 DEF Undisturbed
  <2> QED
    BY <1>6, <2>2, <2>3 DEF TrackEntry, TrackNext
<1>7. ASSUME NEW d \in Client, TrackRemove(d) PROVE Kept(c)
  <2>1. Queued(<<"silent", d>>) /\ \A s : Queued(s)' <=> Queued(s) /\ s # <<"silent", d>>
    BY <1>7, GrantedQueue DEF TrackRemove, ConnInv
  <2>2. trackTarget = d /\ sockets' = sockets \ {d} /\ UNCHANGED <<pongs, trackVars, history>>
    BY <1>7, <2>1 DEF TrackRemove, ConnInv, WaitersInPlace
  <2>3. c \in sockets => Fresh(c)'
    BY <1>1, <2>2 DEF Fresh, Spent, SinceRound, pingVars, trackVars, history
  <2>4. c \in sockets => c \in sockets' \/ Spent(c)
    BY <2>2 DEF Fresh
  <2> QED
    BY <1>1, <2>1, <2>2, <2>3, <2>4 DEF Kept, Undisturbed, pingVars, trackVars
<1> QED
  BY <1>4, <1>5, <1>6, <1>7

\* An age is a tick more, up to the bound, and one that is not known stays so.
LEMMA OlderPong ==
    /\ \A p \in Pong : /\ Older(p) = NoPong <=> p = NoPong
                       /\ p # NoPong => p \in Age /\ Older(p) \in Age
    /\ \A p \in Age : p <= Older(p) /\ Older(p) <= p + 1
    /\ \A p, h \in Age : \A n \in Nat : p <= h + n => Older(p) <= Older(h) + n
BY ConnectionsAssumption DEF Pong, Age, Older

LEMMA TickKeeps ==
    ASSUME ConnInv, NEW c \in Responsive, link[c] = "open", Cared(c), Tick
    PROVE  Kept(c)
<1> USE DEF Cared
<1>1. /\ UNCHANGED <<link, handlerVars, reply, pingTask, pingTarget, trackTarget>>
      /\ c \in Client
  BY ConnectionsAssumption DEF Tick
<1>2. /\ held \in [Client -> Age] /\ trackHeld \in [Client -> Age]
      /\ pingTimer \in 0 .. PingPeriod /\ PingPeriod \in Nat /\ PongTimeout \in Nat
      /\ pongs \in [Client -> Pong] /\ trackPongs \in [Client -> Pong]
  BY ConnectionsAssumption DEF ConnInv, PlainTypeOK
<1>3. pongs'[c] = Older(pongs[c]) /\ trackPongs'[c] = Older(trackPongs[c])
  BY <1>1 DEF Tick
<1>4. /\ pongs[c] \in Pong /\ trackPongs[c] \in Pong
      /\ held[c] \in Age /\ trackHeld[c] \in Age
  BY <1>1, <1>2
<1>5. SinceRound \in 0 .. PingPeriod /\ SinceRound' \in 0 .. PingPeriod
  BY <1>1, <1>2 DEF SinceRound, Tick, Less
<1>6. /\ pongs[c] = NoPong => pongs'[c] = NoPong
      /\ trackPongs[c] = NoPong => trackPongs'[c] = NoPong
  BY <1>3, <1>4, OlderPong
<1>7. \A s : Queued(s)' <=> Queued(s)
  BY <1>1, SameQueue DEF handlerVars, ConnInv
<1>8. Undisturbed(c)'
  BY <1>1, <1>6, <1>7 DEF Undisturbed, handlerVars
<1>9. ASSUME c \in sockets PROVE Fresh(c)'
  \* Its pong has been processed, and its ping sent.
  <2>1. pongs[c] # NoPong => pongs[c] <= held[c] + SinceRound
    BY <1>1, <1>9 DEF Tick, Quiet, MutexFree, Undisturbed, Fresh
  <2>2. trackPongs[c] # NoPong => trackPongs[c] <= trackHeld[c] + PingPeriod
    BY <1>9 DEF Fresh
  <2>3. /\ pongs'[c] # NoPong => pongs'[c] <= held'[c] + SinceRound'
        /\ trackPongs'[c] # NoPong => trackPongs'[c] <= trackHeld'[c] + PingPeriod
        /\ trackHeld'[c] \in Age /\ trackHeld[c] <= trackHeld'[c]
        /\ held'[c] \in Age
    <3>1. CASE SendBlocked
      <4>1. /\ held'[c] = IF pongs[c] # NoPong THEN Older(held[c]) ELSE held[c]
            /\ trackHeld'[c] = IF trackPongs[c] # NoPong THEN Older(trackHeld[c])
                               ELSE trackHeld[c]
        BY <1>1, <3>1 DEF Tick, Held
      <4>2. SinceRound <= SinceRound'
        BY <1>1, <1>2 DEF SinceRound, Tick, Less
      <4>3. pongs'[c] # NoPong => pongs'[c] <= held'[c] + SinceRound'
        <5> SUFFICES ASSUME pongs'[c] # NoPong PROVE pongs'[c] <= held'[c] + SinceRound'
          OBVIOUS
        <5>1. pongs[c] \in Age /\ pongs[c] <= held[c] + SinceRound /\ SinceRound \in Nat
          BY <1>3, <1>4, <1>5, <2>1, OlderPong
        <5>2. Older(pongs[c]) <= Older(held[c]) + SinceRound
          BY <1>4, <5>1, OlderPong
        <5>3. pongs'[c] = Older(pongs[c]) /\ held'[c] = Older(held[c])
          BY <1>3, <1>6, <4>1
        <5>4. Older(pongs[c]) \in Nat /\ Older(held[c]) \in Nat
          BY <1>4, <5>1, PongType DEF Age
        <5> QED
          BY <1>5, <4>2, <5>2, <5>3, <5>4
      <4>4. trackPongs'[c] # NoPong => trackPongs'[c] <= trackHeld'[c] + PingPeriod
        BY <1>2, <1>3, <1>4, <1>6, <2>2, <4>1, OlderPong
      <4>5. \A h \in Age : Older(h) \in Age /\ h <= Older(h) /\ h <= h
        BY PongType, OlderPong DEF Age
      <4> QED
        BY <1>4, <4>1, <4>3, <4>4, <4>5
    <3>2. CASE ~SendBlocked
      <4>1. held'[c] = held[c] /\ trackHeld'[c] = trackHeld[c]
        BY <1>1, <3>2 DEF Tick, Held
      <4>2. pingTarget = Nobody /\ pingTimer > 0 /\ trackPongs[c] = NoPong
        BY <1>1, <3>2, QuietUnblocked DEF Tick
      <4>3. SinceRound' = SinceRound + 1
        BY <1>1, <1>2, <4>2 DEF SinceRound, Tick, Less
      <4>4. pongs'[c] # NoPong => pongs'[c] <= held'[c] + SinceRound'
        BY <1>3, <1>4, <1>5, <2>1, <4>1, <4>3, OlderPong DEF Age
      <4>5. trackHeld[c] <= trackHeld[c]
        BY <1>4 DEF Age
      <4> QED
        BY <1>4, <1>6, <4>1, <4>2, <4>4, <4>5
    <3> QED
      BY <3>1, <3>2
  <2>4. pongs'[c] # NoPong => pongs'[c] <= held'[c] + PingPeriod
    BY <1>2, <1>3, <1>4, <1>5, <2>3, OlderPong DEF Age
  <2>5. trackTarget' = c => Spent(c)'
    BY <1>1, <1>2, <1>4, <1>9, <2>3 DEF Fresh, Spent, Age
  <2> QED
    BY <2>3, <2>4, <2>5 DEF Fresh
<1> QED
  BY <1>1, <1>8, <1>9 DEF Kept, handlerVars

\* Links that fail are those of other clients, and logins do nothing to it.
LEMMA OthersKeep ==
    ASSUME ConnInv, NEW c \in Responsive, link[c] = "open", Cared(c), NEW d \in Client,
           (LinkFails(d) /\ d # c) \/ LinkRecovers(d)
             \/ LogIn(d) \/ LookForWallet(d) \/ Connect(d)
    PROVE  Kept(c)
<1> USE DEF Cared
<1>1. c \in Client
  BY ConnectionsAssumption
<1>2. UNCHANGED <<sockets, pongs, reply, pingVars, trackVars, history>>
  BY DEF LinkFails, LinkRecovers, linkFrame, LogIn, LookForWallet, Connect, Upgrade,
     handlerFrame
<1>3. c \in pongDue => c \in pongDue'
  BY DEF LinkFails, LinkRecovers, LogIn, LookForWallet, Connect, Upgrade
<1>4. handlerPc'[c] \notin {"leave", "gone"} /\ (handlerPc'[c] = "read" <=> handlerPc[c] = "read")
  <2>1. CASE UNCHANGED handlerPc
    BY <2>1 DEF Undisturbed
  <2>2. CASE Connect(d)
    BY <1>1, <2>2 DEF Connect, Upgrade, HandlerGoto, Undisturbed, ConnInv, PlainTypeOK
  <2> QED
    BY <2>1, <2>2 DEF LinkFails, LinkRecovers, linkFrame, LogIn, LookForWallet
<1>5. \A k \in {"reply", "failed"} : ~Queued(<<k, c>>)'
  <2>1. CASE UNCHANGED lockQueue
    BY <2>1, SameQueue DEF ConnInv, Undisturbed
  <2>2. CASE LookForWallet(d)
    BY <2>2, GrantedQueue DEF LookForWallet, ConnInv, Undisturbed
  <2>3. CASE LogIn(d) /\ Ask(<<"check", d>>)
    <3>1. loginPc[d] # "connected"
      BY <2>3 DEF LogIn, LoginStep, Login, GetMiner, AddMiner, LookupAdded, GetPool,
         AddReward, Refuse, Drop
    <3>2. \A s : Queued(s)' <=> Queued(s) \/ s = <<"check", d>>
      BY <2>3, <3>1, AskQueue, Requests DEF ConnInv, WaitersInPlace
    <3> QED
      BY <3>2, Requests DEF Undisturbed
  <2> QED
    BY <2>1, <2>2, <2>3 DEF LinkFails, LinkRecovers, linkFrame, LogIn, Connect, Upgrade
<1>6. c \in sockets => Fresh(c)'
  BY <1>2, <1>3 DEF Fresh, Spent, SinceRound, pingVars, trackVars, history
<1> QED
  BY <1>2, <1>4, <1>5, <1>6 DEF Kept, Undisturbed, pingVars, trackVars

\* A client that reads at once never blocks a send, and a connection that is lost or
\* closed stays so; and what ends a connection removes nothing yet.
LEMMA ResponsiveLink ==
    ASSUME ConnInv, [Next]_vars, NEW c \in Responsive, link[c] # "stalled"
    PROVE  /\ link'[c] # "stalled" /\ (link'[c] = "open" => link[c] = "open")
           /\ link'[c] = link[c] \/ UNCHANGED sockets
<1>1. c \in Client /\ link \in [Client -> {"open", "stalled", "lost", "closed"}]
  BY ConnectionsAssumption DEF ConnInv, PlainTypeOK
<1>2. ASSUME NEW d \in Client, LinkFails(d)
      PROVE  /\ link'[c] # "stalled" /\ (link'[c] = "open" => link[c] = "open")
             /\ UNCHANGED sockets
  BY <1>1, <1>2 DEF LinkFails, linkFrame
<1>3. ASSUME NEW d \in Client, LinkRecovers(d) PROVE link'[c] = link[c]
  BY <1>1, <1>3 DEF LinkRecovers
<1>4. CASE UNCHANGED link
  BY <1>4
<1>5. ASSUME NEW d \in Client, LogIn(d) \/ LookForWallet(d) \/ Connect(d) PROVE UNCHANGED link
  BY <1>5 DEF LogIn, LookForWallet, Connect, Upgrade, handlerFrame
<1>6. CASE Tasks
  <2>1. ASSUME NEW d \in Client, Handler(d) \/ PingSend(d) \/ RecordPong(d)
        PROVE  UNCHANGED link
    BY <2>1 DEF Handler, FirstPing, Enter, ReadEnd, Leave, handlerFrame, PingSend, pingFrame,
       RecordPong, messageFrame
  <2>2. PingLoop \/ Tracker => UNCHANGED link
    BY DEF PingLoop, PingWake, PingRound, PingResult, PingFailed, pingFrame, Tracker, TrackPass,
       TrackForget, TrackEntry, TrackRemove, trackFrame
  <2> QED
    BY <1>4, <1>6, <2>1, <2>2 DEF Tasks
<1>7. CASE Replies \/ Environment
  <2>1. ASSUME NEW d \in Client, Reply(d) \/ RecordPong(d) \/ Invalid(d) PROVE UNCHANGED link
    BY <2>1 DEF Reply, ReplyLock, ReplySend, RecordPong, Invalid, messageFrame
  <2> QED
    BY <1>2, <1>3, <1>4, <1>7, <2>1 DEF Replies, Environment, ClientStep
<1>8. Time \/ UNCHANGED vars => UNCHANGED link
  BY DEF Time, Tick, vars, connectionVars
<1> QED
  BY <1>4, <1>5, <1>6, <1>7, <1>8 DEF Next

\* No step but the removal that is said disturbs an open connection.
LEMMA ResponsiveStep ==
    ASSUME AccessInv, [Next]_vars, NEW c \in Responsive,
           link[c] = "open", link'[c] = "open", Cared(c)
    PROVE  Kept(c)
<1>1. ConnInv
  BY DEF AccessInv, ConnInv
<1>2. ASSUME NEW d \in Client, LogIn(d) \/ LookForWallet(d) \/ Connect(d) PROVE Kept(c)
  BY <1>1, <1>2, OthersKeep
<1>3. CASE Tasks
  <2>1. ASSUME NEW d \in Client, Handler(d) \/ PingSend(d) \/ RecordPong(d) PROVE Kept(c)
    BY <1>1, <2>1, HandlerKeeps, MessageKeeps, PingKeeps DEF Handler
  <2>2. CASE PingLoop \/ Tracker
    BY <1>1, <2>2, PingKeeps, TrackKeeps DEF PingLoop, Tracker
  <2> QED
    BY <1>3, <2>1, <2>2 DEF Tasks
<1>4. CASE Replies \/ Environment
  <2>1. ASSUME NEW d \in Client, Reply(d) \/ RecordPong(d) \/ Invalid(d) PROVE Kept(c)
    BY <1>1, <2>1, MessageKeeps DEF Reply
  <2>2. ASSUME NEW d \in Client, LinkFails(d) \/ LinkRecovers(d) PROVE Kept(c)
    <3>1. LinkFails(d) => d # c
      BY ConnectionsAssumption DEF LinkFails, ConnInv, PlainTypeOK, AccessInv
    <3> QED
      BY <1>1, <2>2, <3>1, OthersKeep
  <2> QED
    BY <1>4, <2>1, <2>2 DEF Replies, Environment, ClientStep
<1>5. CASE Time
  BY <1>1, <1>5, TickKeeps DEF Time
<1>6. CASE UNCHANGED vars
  BY <1>1, <1>6, SameQueue
  DEF Kept, Cared, Undisturbed, Fresh, Spent, SinceRound, ConnInv, vars, connectionVars,
      handlerVars, pingVars, trackVars, history
<1> QED
  BY <1>2, <1>3, <1>4, <1>5, <1>6 DEF Next

\* At the start nothing is connected, and no pong has come.
LEMMA ResponsiveInit == Init => ResponsiveInv
<1> SUFFICES ASSUME Init, NEW c \in Responsive PROVE link[c] # "stalled" /\ Cared(c)
  BY DEF ResponsiveInv
<1>1. c \in Client /\ Nobody \notin Client
  BY ConnectionsAssumption
<1>2. \A r : ~Queued(r)
  BY DEF Init, ConnectionsInit, Queued
<1> QED
  BY <1>1, <1>2 DEF Init, ConnectionsInit, Cared, Undisturbed

\* Whatever other clients do, for any number of them and any periods, a client whose
\* connection is open, and that reads and answers every ping, is only taken out of the
\* map for a pong in whose age sends to others were blocked for more than the timeout
\* less the sleep between two rounds (run "access").  With the periods of the code, 30
\* and 45 seconds, that is two ticks of 15 seconds or more; nothing else that the ping
\* loop, the tracker or the lock do costs such a client its connection.
THEOREM AccessKeepsResponsive == Spec => ResponsiveKept
<1>1. ASSUME AccessInv, ResponsiveInv, [Next]_vars, NEW c \in Responsive
      PROVE  /\ link'[c] # "stalled" /\ (link'[c] = "open" => Cared(c)')
             /\ c \in sockets /\ link[c] = "open" /\ c \notin sockets' => Spent(c)
  <2>1. /\ link'[c] # "stalled" /\ (link'[c] = "open" => link[c] = "open")
        /\ link'[c] = link[c] \/ UNCHANGED sockets
    BY <1>1, ResponsiveLink DEF AccessInv, ConnInv, ResponsiveInv
  <2>2. CASE link'[c] = "open"
    BY <1>1, <2>1, <2>2, ResponsiveStep DEF ResponsiveInv, Kept
  <2>3. CASE link'[c] # "open"
    BY <2>1, <2>3
  <2> QED
    BY <2>2, <2>3
<1>2. AccessInv /\ ResponsiveInv /\ [Next]_vars => ResponsiveInv'
  BY <1>1 DEF ResponsiveInv
<1>3. AccessInv /\ ResponsiveInv /\ [Next]_vars
        => [\A c \in Responsive \cap sockets :
               link[c] = "open" /\ c \notin sockets' => PingPeriod + trackHeld[c] > PongTimeout]_vars
  BY <1>1 DEF Spent
<1> QED
  BY <1>2, <1>3, ResponsiveInit, ConnectionsInitInv, AccessInvStep, PTL
  DEF Spec, ResponsiveKept

=============================================================================
