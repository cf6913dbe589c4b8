--------------------------- MODULE Ledger_proofs ---------------------------
(***************************************************************************)
(* For any number of miners, challenges, rows and restarts, and whichever  *)
(* database calls fail: what is booked refers to a row of its challenge    *)
(* (RowsReferred), and nobody earns twice on a challenge (EarnedOnce).     *)
(*                                                                         *)
(* Neither depends on amounts, which are sums over sets: see               *)
(* Amounts_proofs.                                                         *)
(***************************************************************************)
EXTENDS Ledger, SequenceTheorems, WellFoundedInduction, TLAPS

Row == [challenge : Challenge, contribution : ContributionRow \cup {None}]

\* The types of everything but amounts.
LedgerTypeOK ==
    /\ challenges \in Seq(Row)
    /\ contributionRows \in Seq(SUBSET ContributionRow)
    /\ \E S : earnings \in Seq(S)
    /\ attPc \in {"startup", "idle", "old", "new", "send"}
    /\ oldChallenge \in Challenge
    /\ newChallenge \in Challenge
    /\ challengeId \in Nat
    /\ unrecorded \in SUBSET Challenge
    /\ mineSuccess \in Seq(Message)
    /\ pc \in {"recv", "earnings", "rewards", "contributions", "pool", "lookup", "close"}
    /\ pc # "recv" => msg \in Message
    /\ pc = "close" => contributionId \in ContributionRow

\* Rows are only ever added, and keep their challenge.
RowsKept ==
    /\ DOMAIN challenges \subseteq DOMAIN challenges'
    /\ \A i \in DOMAIN challenges : challenges'[i].challenge = challenges[i].challenge

-----------------------------------------------------------------------------
\* Arithmetic the solver does not find inside larger terms.
LEMMA TimesMonotonic ==
    ASSUME NEW a \in Nat, NEW b \in Nat, NEW c \in Nat, a <= b
    PROVE  a * c <= b * c
OBVIOUS

LEMMA NatTimes ==
    ASSUME NEW a \in Nat, NEW b \in Nat
    PROVE  a * b \in Nat
OBVIOUS

\* Rounding down twice never gives a miner more than its part of the reward.
THEOREM ShareAtMostProportional ==
    ASSUME NEW hashpower \in Nat, NEW total \in Nat \ {0}, NEW reward \in Nat
    PROVE  /\ Share(hashpower, total, reward) \in Nat
           /\ Share(hashpower, total, reward) * total <= hashpower * reward
<1> DEFINE p == (hashpower * Percent) \div total
           s == (p * reward) \div Percent
<1>1. Percent \in Nat /\ Percent > 0
  BY LedgerAssumption
<1>2. p \in Nat /\ p * total <= hashpower * Percent
  BY <1>1
<1> HIDE DEF p
<1>3. s \in Nat /\ s * Percent <= p * reward
  BY <1>1, <1>2
<1>4. Share(hashpower, total, reward) = s
  BY DEF Share, p
<1> HIDE DEF s
<1>5. (s * Percent) * total <= (p * reward) * total
  <2>1. s * Percent \in Nat /\ p * reward \in Nat
    BY <1>1, <1>2, <1>3, NatTimes
  <2> QED
    BY <1>3, <2>1, TimesMonotonic
<1>6. (p * total) * reward <= (hashpower * Percent) * reward
  BY <1>1, <1>2
<1>7. (s * total) * Percent <= (hashpower * reward) * Percent
  BY <1>1, <1>2, <1>3, <1>5, <1>6
<1>8. s * total <= hashpower * reward
  BY <1>1, <1>2, <1>3, <1>7
<1> QED
  BY <1>3, <1>4, <1>8

\* A row is added, or not.
LEMMA EnsureRowTyped ==
    ASSUME challenges \in Seq(Row), NEW c \in Challenge, EnsureRow(c)
    PROVE  challenges' \in Seq(Row) /\ RowsKept
<1>1. CASE AddRow(c)
  <2> DEFINE r == [challenge |-> c, contribution |-> None]
  <2>1. r \in Row
    BY DEF Row
  <2>2. challenges' = Append(challenges, r)
    BY <1>1 DEF AddRow
  <2>3. /\ challenges' \in Seq(Row)
        /\ Len(challenges') = Len(challenges) + 1
        /\ \A i \in 1 .. Len(challenges) : challenges'[i] = challenges[i]
    BY <2>1, <2>2
  <2> QED
    BY <2>3, LenProperties DEF RowsKept
<1>2. CASE UNCHANGED challenges
  BY <1>2 DEF RowsKept
<1> QED
  BY <1>1, <1>2 DEF EnsureRow

\* The numbers are well-ordered.
LEMMA SmallestExists ==
    ASSUME NEW T, T \subseteq Nat, T # {}
    PROVE  \E x \in T : \A y \in T : x <= y
<1>1. PICK x \in T : \A y \in T : ~ (<<y, x>> \in OpToRel(<, Nat))
  BY NatLessThanWellFounded, WFMin
<1>2. \A y \in T : ~ (y < x)
  BY <1>1 DEF OpToRel
<1> QED
  BY <1>2

\* The lookup returns one of the rows.
LEMMA RowOfIsRow ==
    ASSUME challenges \in Seq(Row), NEW c, RowsOf(c) # {}
    PROVE  RowOf(c) \in RowsOf(c)
<1>1. RowsOf(c) \subseteq Nat
  BY DEF RowsOf
<1>2. \E i \in RowsOf(c) : \A j \in RowsOf(c) : i <= j
  BY <1>1, SmallestExists
<1> QED
  BY <1>2 DEF RowOf

\* A batch more.
LEMMA EarningsExtended ==
    ASSUME \E S : earnings \in Seq(S), AddEarnings
    PROVE  \E S : earnings' \in Seq(S)
<1>1. PICK S : earnings \in Seq(S)
  OBVIOUS
<1>2. CASE UNCHANGED earnings
  BY <1>1, <1>2
<1>3. CASE \E batch : earnings' = Append(earnings, batch)
  <2>1. PICK batch : earnings' = Append(earnings, batch)
    BY <1>3
  <2>2. earnings \in Seq(S \cup {batch})
    BY <1>1, SeqMonotonic
  <2>3. earnings' \in Seq(S \cup {batch})
    BY <2>1, <2>2
  <2> QED
    BY <2>3
<1> QED
  BY <1>2, <1>3 DEF AddEarnings

\* Its rows carry the id of the message.
LEMMA EarningsGrow ==
    ASSUME LedgerTypeOK, AddEarnings
    PROVE  \A i \in DOMAIN earnings' : \A row \in earnings'[i] :
              \/ i \in DOMAIN earnings /\ row \in earnings[i]
              \/ row.challengeId = msg.challengeId /\ i \notin DOMAIN earnings
<1>1. PICK S : earnings \in Seq(S)
  BY DEF LedgerTypeOK
<1>2. CASE UNCHANGED earnings
  BY <1>2
<1>3. CASE \E batch : /\ earnings' = Append(earnings, batch)
                      /\ \A row \in batch : row.challengeId = msg.challengeId
  <2>1. PICK batch : /\ earnings' = Append(earnings, batch)
                     /\ \A row \in batch : row.challengeId = msg.challengeId
    BY <1>3
  <2>2. earnings \in Seq(S \cup {batch})
    BY <1>1, SeqMonotonic
  <2>3. \A i \in DOMAIN earnings' :
           \/ i \in DOMAIN earnings /\ earnings'[i] = earnings[i]
           \/ earnings'[i] = batch /\ i \notin DOMAIN earnings
    BY <2>1, <2>2
  <2> QED
    BY <2>1, <2>3
<1> QED
  BY <1>2, <1>3 DEF AddEarnings

\* At most one position is new.
LEMMA OneBatchMore ==
    ASSUME LedgerTypeOK, AddEarnings,
           NEW i \in DOMAIN earnings', NEW j \in DOMAIN earnings',
           i \notin DOMAIN earnings, j \notin DOMAIN earnings
    PROVE  i = j
<1>1. PICK S : earnings \in Seq(S)
  BY DEF LedgerTypeOK
<1>2. CASE UNCHANGED earnings
  BY <1>2
<1>3. CASE \E batch : earnings' = Append(earnings, batch)
  <2>1. PICK batch : earnings' = Append(earnings, batch)
    BY <1>3
  <2>2. earnings \in Seq(S \cup {batch})
    BY <1>1, SeqMonotonic
  <2> QED
    BY <2>1, <2>2
<1> QED
  BY <1>2, <1>3 DEF AddEarnings

\* Closing a challenge writes the other column.
LEMMA CloseTyped ==
    ASSUME LedgerTypeOK, CloseChallenge
    PROVE  challenges' \in Seq(Row) /\ RowsKept
<1>1. CASE UNCHANGED challenges
  BY <1>1 DEF RowsKept, LedgerTypeOK
<1>2. CASE challenges' = [i \in DOMAIN challenges |->
               IF i \in RowsOf(msg.challenge)
               THEN [challenges[i] EXCEPT !.contribution = contributionId]
               ELSE challenges[i]]
  <2>1. challenges \in Seq(Row) /\ contributionId \in ContributionRow
    BY DEF LedgerTypeOK, CloseChallenge
  <2>2. /\ Len(challenges) \in Nat
        /\ DOMAIN challenges = 1 .. Len(challenges)
        /\ \A i \in 1 .. Len(challenges) : challenges[i] \in Row
    BY <2>1, LenProperties, ElementOfSeq
  <2>3. \A i \in 1 .. Len(challenges) :
            /\ challenges'[i] \in Row
            /\ challenges'[i].challenge = challenges[i].challenge
    BY <1>2, <2>1, <2>2 DEF Row
  <2>4. challenges' \in [1 .. Len(challenges) -> Row]
    BY <1>2, <2>2, <2>3
  <2>5. challenges' \in Seq(Row)
    BY <2>2, <2>4
  <2> QED
    BY <1>2, <2>2, <2>3, <2>5 DEF RowsKept
<1> QED
  BY <1>1, <1>2 DEF CloseChallenge

-----------------------------------------------------------------------------
(* Types *)

\* Empty tables, an empty channel.
LEMMA InitTyped == Init => LedgerTypeOK
<1> SUFFICES ASSUME Init PROVE LedgerTypeOK
  OBVIOUS
<1>1. /\ challenges \in Seq(Row)
      /\ contributionRows \in Seq(SUBSET ContributionRow)
      /\ earnings \in Seq({})
      /\ mineSuccess \in Seq(Message)
  BY DEF Init
<1>2. 0 \in Challenge
  BY LedgerAssumption DEF Challenge
<1> QED
  BY <1>1, <1>2 DEF Init, LedgerTypeOK

\* The attender keeps its own variables and the table typed.
LEMMA AttenderTyped ==
    ASSUME LedgerTypeOK, Attender
    PROVE  LedgerTypeOK' /\ RowsKept
<1>0. challenges \in Seq(Row) /\ oldChallenge \in Challenge /\ newChallenge \in Challenge
  BY DEF LedgerTypeOK
<1>1. CASE Start
  <2>1. challenges' \in Seq(Row) /\ RowsKept
    BY <1>0, <1>1, EnsureRowTyped DEF Start
  <2> QED
    BY <1>1, <2>1 DEF Start, LedgerTypeOK, processor
<1>2. CASE AttNotified
  <2>1. newChallenge' \in Challenge
    BY <1>0, <1>2, LedgerAssumption DEF AttNotified, Challenge
  <2> QED
    BY <1>2, <2>1 DEF AttNotified, LedgerTypeOK, processor, database, RowsKept
<1>3. CASE MoveOn
  <2>1. oldChallenge' \in Challenge
    BY <1>0, <1>3, LedgerAssumption DEF MoveOn, Challenge
  <2>2. unrecorded' \in SUBSET Challenge
    BY <1>3, <2>1 DEF MoveOn, LedgerTypeOK
  <2> QED
    BY <1>3, <2>1, <2>2 DEF MoveOn, LedgerTypeOK, processor, database, RowsKept
<1>4. CASE AttRecord
  <2>1. PICK c \in unrecorded : EnsureRow(c) /\ unrecorded' = unrecorded \ {c}
    BY <1>4 DEF AttRecord
  <2>2. c \in Challenge /\ unrecorded' \in SUBSET Challenge
    BY <2>1 DEF LedgerTypeOK
  <2>3. challenges' \in Seq(Row) /\ RowsKept
    BY <1>0, <2>1, <2>2, EnsureRowTyped
  <2> QED
    BY <1>4, <2>2, <2>3 DEF AttRecord, LedgerTypeOK, processor
<1>5. CASE AttOld
  <2>1. challenges' \in Seq(Row) /\ RowsKept
    <3>1. CASE EnsureRow(oldChallenge)
      BY <1>0, <3>1, EnsureRowTyped
    <3>2. CASE UNCHANGED challenges
      BY <1>0, <3>2 DEF RowsKept
    <3> QED
      BY <1>5, <3>1, <3>2 DEF AttOld
  <2>2. challengeId' \in Nat
    <3>1. CASE RowsOf(oldChallenge) # {} /\ challengeId' = RowOf(oldChallenge)
      BY <1>0, <3>1, RowOfIsRow DEF RowsOf
    <3>2. CASE UNCHANGED challengeId
      BY <3>2 DEF LedgerTypeOK
    <3> QED
      BY <1>5, <3>1, <3>2 DEF AttOld
  <2> QED
    BY <1>5, <2>1, <2>2 DEF AttOld, LedgerTypeOK, processor
<1>6. CASE AttNew
  <2>1. challenges' \in Seq(Row) /\ RowsKept
    BY <1>0, <1>6, EnsureRowTyped DEF AttNew
  <2> QED
    BY <1>6, <2>1 DEF AttNew, LedgerTypeOK, processor
<1>7. CASE AttSend
  <2>1. mineSuccess' \in Seq(Message)
    <3>1. PICK best \in Nonce, reward \in Reward,
               contributions \in [Miner -> Contribution \cup {None}] :
             mineSuccess' = Append(mineSuccess,
                 [challenge |-> oldChallenge, challengeId |-> challengeId, best |-> best,
                  reward |-> reward, contributions |-> contributions])
      BY <1>7 DEF AttSend
    <3>2. [challenge |-> oldChallenge, challengeId |-> challengeId, best |-> best,
           reward |-> reward, contributions |-> contributions] \in Message
      BY DEF LedgerTypeOK, Message
    <3> QED
      BY <3>1, <3>2 DEF LedgerTypeOK
  <2>2. 0 \in Challenge
    BY LedgerAssumption DEF Challenge
  <2> QED
    BY <1>0, <1>7, <2>1, <2>2 DEF AttSend, LedgerTypeOK, processor, database, RowsKept
<1> QED
  BY <1>1, <1>2, <1>3, <1>4, <1>5, <1>6, <1>7 DEF Attender

\* So does the processor, which touches the challenges table only to close one.
LEMMA ProcessorTyped ==
    ASSUME LedgerTypeOK, Processor
    PROVE  LedgerTypeOK' /\ RowsKept
<1>1. CASE Receive
  <2>1. msg' \in Message /\ mineSuccess' \in Seq(Message)
    BY <1>1, HeadTailProperties DEF Receive, LedgerTypeOK
  <2> QED
    BY <1>1, <2>1 DEF Receive, LedgerTypeOK, attender, database, RowsKept
<1>2. CASE AddEarnings
  <2>1. \E S : earnings' \in Seq(S)
    BY <1>2, EarningsExtended DEF AddEarnings, LedgerTypeOK
  <2> QED
    BY <1>2, <2>1 DEF AddEarnings, LedgerTypeOK, attender, RowsKept
<1>3. CASE UpdateRewards
  BY <1>3 DEF UpdateRewards, LedgerTypeOK, attender, RowsKept
<1>4. CASE AddContributions
  <2>1. contributionRows' \in Seq(SUBSET ContributionRow)
    <3>1. CASE UNCHANGED contributionRows
      BY <3>1 DEF LedgerTypeOK
    <3>2. CASE contributionRows' = Append(contributionRows,
              {[miner |-> m, challengeId |-> msg.challengeId,
                nonce |-> msg.contributions[m].nonce] :
                  m \in Contributors(msg.contributions)})
      <4>1. msg \in Message
        BY <1>4 DEF LedgerTypeOK, AddContributions
      <4>2. \A m \in Contributors(msg.contributions) :
               /\ m \in Miner
               /\ msg.contributions[m] \in Contribution
        BY <4>1 DEF Message, Contributors
      <4>3. {[miner |-> m, challengeId |-> msg.challengeId,
              nonce |-> msg.contributions[m].nonce] :
                m \in Contributors(msg.contributions)} \in SUBSET ContributionRow
        BY <4>1, <4>2 DEF Message, Contribution, ContributionRow
      <4> QED
        BY <3>2, <4>3 DEF LedgerTypeOK
    <3> QED
      BY <1>4, <3>1, <3>2 DEF AddContributions
  <2> QED
    BY <1>4, <2>1 DEF AddContributions, LedgerTypeOK, attender, RowsKept
<1>5. CASE UpdatePoolRewards
  BY <1>5 DEF UpdatePoolRewards, LedgerTypeOK, attender, RowsKept
<1>6. CASE FindContribution
  <2>1. contributionId' \in ContributionRow
    <3>1. PICK i \in BatchesWith(msg.best) :
             contributionId' \in {row \in contributionRows[i] : row.nonce = msg.best}
      BY <1>6 DEF FindContribution
    <3>2. contributionRows[i] \in SUBSET ContributionRow
      BY <3>1 DEF LedgerTypeOK, BatchesWith
    <3> QED
      BY <3>1, <3>2
  <2> QED
    BY <1>6, <2>1 DEF FindContribution, LedgerTypeOK, attender, database, RowsKept
<1>7. CASE CloseChallenge
  <2>1. challenges' \in Seq(Row) /\ RowsKept
    BY <1>7, CloseTyped
  <2> QED
    BY <1>7, <2>1 DEF CloseChallenge, LedgerTypeOK, attender
<1> QED
  BY <1>1, <1>2, <1>3, <1>4, <1>5, <1>6, <1>7 DEF Processor

\* A restart leaves the tables alone.
LEMMA RestartTyped ==
    ASSUME LedgerTypeOK, Restart
    PROVE  LedgerTypeOK' /\ RowsKept
<1>1. oldChallenge' \in Challenge /\ newChallenge' \in Challenge
  BY LedgerAssumption DEF Restart, Challenge, LedgerTypeOK
<1>2. mineSuccess' \in Seq(Message)
  BY DEF Restart
<1> QED
  BY <1>1, <1>2 DEF Restart, LedgerTypeOK, database, RowsKept

\* All steps keep the types, and keep rows.
LEMMA NextTyped ==
    ASSUME LedgerTypeOK, [Next]_vars
    PROVE  LedgerTypeOK' /\ RowsKept
<1>1. CASE UNCHANGED vars
  BY <1>1 DEF vars, database, attender, processor, LedgerTypeOK, RowsKept
<1> QED
  BY <1>1, AttenderTyped, ProcessorTyped, RestartTyped DEF Next

-----------------------------------------------------------------------------
(* What is booked refers to a row of its challenge *)

\* The attender knows a row of the old challenge from the lookup on.
RowKnown == attPc \in {"new", "send"} => challengeId \in RowsOf(oldChallenge)

ReferInv == LedgerTypeOK /\ RowKnown /\ RowsReferred

\* Nobody moves old_challenge while the attender is at work, and rows stay.
LEMMA RowKnownKept ==
    ASSUME ReferInv, [Next]_vars
    PROVE  RowKnown'
<1> SUFFICES ASSUME attPc' \in {"new", "send"}
             PROVE  (challengeId \in RowsOf(oldChallenge))'
  BY DEF RowKnown
<1>1. LedgerTypeOK /\ RowKnown /\ RowsKept
  BY NextTyped DEF ReferInv
<1>2. CASE AttOld
  <2>1. CASE UNCHANGED <<attPc, challengeId>>
    BY <1>2, <2>1, <1>1 DEF AttOld
  <2>2. CASE RowsOf(oldChallenge) # {} /\ challengeId' = RowOf(oldChallenge)
                /\ UNCHANGED challenges
    BY <1>1, <1>2, <2>2, RowOfIsRow DEF AttOld, LedgerTypeOK, RowsOf
  <2> QED
    BY <1>2, <2>1, <2>2 DEF AttOld
<1>3. CASE AttNew
  <2>1. challengeId \in RowsOf(oldChallenge)
    BY <1>1, <1>3 DEF RowKnown, AttNew
  <2> QED
    BY <1>1, <1>3, <2>1 DEF AttNew, RowsKept, RowsOf
<1>4. CASE AttRecord \/ Processor \/ UNCHANGED vars
  <2>1. UNCHANGED <<attPc, oldChallenge, challengeId>>
    BY <1>4 DEF AttRecord, Processor, Receive, AddEarnings, UpdateRewards,
         AddContributions, UpdatePoolRewards, FindContribution, CloseChallenge, attender,
         vars
  <2>2. challengeId \in RowsOf(oldChallenge)
    BY <1>1, <2>1 DEF RowKnown
  <2> QED
    BY <1>1, <2>1, <2>2 DEF RowsKept, RowsOf
<1>5. CASE Start \/ AttNotified \/ MoveOn \/ AttSend \/ Restart
  BY <1>5 DEF Start, AttNotified, MoveOn, AttSend, Restart
<1> QED
  BY <1>2, <1>3, <1>4, <1>5 DEF Next, Attender

\* References go from the attender into a message, and from there into a batch.
LEMMA RowsReferredKept ==
    ASSUME ReferInv, [Next]_vars
    PROVE  RowsReferred'
<1>1. LedgerTypeOK /\ RowKnown /\ RowsReferred /\ RowsKept
  BY NextTyped DEF ReferInv
<1>2. ASSUME UNCHANGED mineSuccess
      PROVE  (\A i \in DOMAIN mineSuccess :
                 mineSuccess[i].challengeId \in RowsOf(mineSuccess[i].challenge))'
  BY <1>1, <1>2 DEF RowsReferred, RowsKept, RowsOf
<1>3. ASSUME pc # "recv", UNCHANGED msg
      PROVE  (pc # "recv" => msg.challengeId \in RowsOf(msg.challenge))'
  BY <1>1, <1>3 DEF RowsReferred, RowsKept, RowsOf
<1>4. ASSUME UNCHANGED earnings
      PROVE  (\A i \in DOMAIN earnings : \A row \in earnings[i] :
                 row.challengeId \in DOMAIN challenges)'
  BY <1>1, <1>4 DEF RowsReferred, RowsKept
<1>5. ASSUME UNCHANGED <<pc, msg>>
      PROVE  (pc # "recv" => msg.challengeId \in RowsOf(msg.challenge))'
  BY <1>1, <1>5 DEF RowsReferred, RowsKept, RowsOf
<1>6. CASE AttSend
  <2>1. challengeId \in RowsOf(oldChallenge) /\ UNCHANGED challenges
    BY <1>1, <1>6 DEF AttSend, RowKnown, database
  <2>2. PICK m : /\ mineSuccess' = Append(mineSuccess, m)
                 /\ m.challenge = oldChallenge
                 /\ m.challengeId = challengeId
    BY <1>6 DEF AttSend
  <2>3. mineSuccess \in Seq(Message)
    BY <1>1 DEF LedgerTypeOK
  <2>4. \A i \in DOMAIN mineSuccess' :
           mineSuccess'[i] = m \/ (i \in DOMAIN mineSuccess /\ mineSuccess'[i] = mineSuccess[i])
    BY <2>2, <2>3
  <2>5. (\A i \in DOMAIN mineSuccess :
            mineSuccess[i].challengeId \in RowsOf(mineSuccess[i].challenge))'
    BY <1>1, <2>1, <2>2, <2>4 DEF RowsReferred, RowsOf
  <2> QED
    BY <1>4, <1>5, <1>6, <2>5 DEF RowsReferred, AttSend, processor, database
<1>7. CASE Receive
  <2>1. mineSuccess \in Seq(Message) /\ mineSuccess # <<>> /\ UNCHANGED challenges
    BY <1>1, <1>7 DEF LedgerTypeOK, Receive, database
  <2>2. msg' = mineSuccess[1] /\ 1 \in DOMAIN mineSuccess
    BY <1>7, <2>1 DEF Receive
  <2>3. \A i \in DOMAIN mineSuccess' :
           i + 1 \in DOMAIN mineSuccess /\ mineSuccess'[i] = mineSuccess[i + 1]
    BY <1>7, <2>1, HeadTailProperties DEF Receive
  <2>4. (\A i \in DOMAIN mineSuccess :
            mineSuccess[i].challengeId \in RowsOf(mineSuccess[i].challenge))'
    BY <1>1, <2>1, <2>3 DEF RowsReferred, RowsOf
  <2>5. (msg.challengeId \in RowsOf(msg.challenge))'
    BY <1>1, <2>1, <2>2 DEF RowsReferred, RowsOf
  <2> QED
    BY <1>4, <1>7, <2>4, <2>5 DEF RowsReferred, Receive, database
<1>8. CASE AddEarnings
  <2>1. msg.challengeId \in DOMAIN challenges
    BY <1>1, <1>8 DEF AddEarnings, RowsReferred, RowsOf
  <2>2. \A i \in DOMAIN earnings' : \A row \in earnings'[i] :
           \/ i \in DOMAIN earnings /\ row \in earnings[i]
           \/ row.challengeId = msg.challengeId
    BY <1>1, <1>8, EarningsGrow
  <2>3. (\A i \in DOMAIN earnings : \A row \in earnings[i] :
            row.challengeId \in DOMAIN challenges)'
    BY <1>1, <2>1, <2>2 DEF RowsReferred, RowsKept
  <2> QED
    BY <1>2, <1>3, <1>8, <2>3 DEF RowsReferred, AddEarnings
<1>9. CASE Restart
  BY <1>4, <1>9 DEF RowsReferred, Restart, database
<1>10. CASE UpdateRewards \/ AddContributions \/ UpdatePoolRewards \/ FindContribution
  BY <1>2, <1>3, <1>4, <1>10 DEF RowsReferred, UpdateRewards, AddContributions,
       UpdatePoolRewards, FindContribution, database
<1>11. CASE CloseChallenge
  BY <1>2, <1>4, <1>11 DEF RowsReferred, CloseChallenge
<1>12. CASE Start \/ AttNotified \/ MoveOn \/ AttRecord \/ AttOld \/ AttNew \/ UNCHANGED vars
  <2>1. UNCHANGED <<mineSuccess, pc, msg, earnings>>
    BY <1>12 DEF Start, AttNotified, MoveOn, AttRecord, AttOld, AttNew, vars, database,
         processor
  <2> QED
    BY <1>2, <1>4, <1>5, <2>1 DEF RowsReferred
<1> QED
  BY <1>6, <1>7, <1>8, <1>9, <1>10, <1>11, <1>12 DEF Next, Attender, Processor

\* What is booked for a challenge refers to a row of that challenge.
THEOREM LedgerRowsReferred == Spec => []RowsReferred
<1>1. Init => ReferInv
  BY InitTyped DEF Init, ReferInv, RowKnown, RowsReferred
<1>2. ReferInv /\ [Next]_vars => ReferInv'
  BY NextTyped, RowKnownKept, RowsReferredKept DEF ReferInv
<1>3. ReferInv => RowsReferred
  BY DEF ReferInv
<1> QED
  BY <1>1, <1>2, <1>3, PTL DEF Spec

-----------------------------------------------------------------------------
(* Nobody earns twice on a challenge *)

ChallengeOf(row) == challenges[row.challengeId].challenge

\* The attender gets ahead, message by message.
QueueOrdered ==
    /\ attPc \in {"old", "new", "send"} => oldChallenge < newChallenge
    /\ \A i \in DOMAIN mineSuccess : mineSuccess[i].challenge < oldChallenge
    /\ \A i, j \in DOMAIN mineSuccess :
          i < j => mineSuccess[i].challenge < mineSuccess[j].challenge

\* The processor works on an earlier challenge than those that wait,
MessageOrdered ==
    pc # "recv" =>
        /\ msg.challenge < oldChallenge
        /\ \A i \in DOMAIN mineSuccess : msg.challenge < mineSuccess[i].challenge

\* and what it booked before belongs to still earlier ones.
EarningsOrdered ==
    \A i \in DOMAIN earnings : \A row \in earnings[i] :
        /\ ChallengeOf(row) < oldChallenge
        /\ \A j \in DOMAIN mineSuccess : ChallengeOf(row) < mineSuccess[j].challenge
        /\ pc = "earnings" => ChallengeOf(row) < msg.challenge

OrderInv == ReferInv /\ QueueOrdered /\ MessageOrdered /\ EarningsOrdered /\ EarnedOnce

\* All challenges the order is about are numbers.
LEMMA ChallengesAreNat ==
    ASSUME ReferInv
    PROVE  /\ oldChallenge \in Nat /\ newChallenge \in Nat
           /\ pc # "recv" => msg.challenge \in Nat
           /\ \A i \in DOMAIN mineSuccess : mineSuccess[i].challenge \in Nat
           /\ \A i \in DOMAIN earnings : \A row \in earnings[i] : ChallengeOf(row) \in Nat
<1>1. Challenge \subseteq Nat
  BY LedgerAssumption DEF Challenge
<1>2. /\ oldChallenge \in Nat /\ newChallenge \in Nat
      /\ pc # "recv" => msg.challenge \in Nat
  BY <1>1 DEF ReferInv, LedgerTypeOK, Message
<1>3. \A i \in DOMAIN mineSuccess : mineSuccess[i].challenge \in Nat
  <2>1. mineSuccess \in Seq(Message)
    BY DEF ReferInv, LedgerTypeOK
  <2>2. \A i \in DOMAIN mineSuccess : mineSuccess[i] \in Message
    BY <2>1, LenProperties, ElementOfSeq
  <2> QED
    BY <1>1, <2>2 DEF Message
<1>4. \A i \in DOMAIN earnings : \A row \in earnings[i] : ChallengeOf(row) \in Nat
  <2>1. challenges \in Seq(Row)
    BY DEF ReferInv, LedgerTypeOK
  <2>2. \A i \in DOMAIN challenges : challenges[i] \in Row
    BY <2>1, LenProperties, ElementOfSeq
  <2>3. \A i \in DOMAIN challenges : challenges[i].challenge \in Nat
    BY <1>1, <2>2 DEF Row
  <2> QED
    BY <2>3 DEF ReferInv, RowsReferred, ChallengeOf
<1> QED
  BY <1>2, <1>3, <1>4

\* Rows that were there keep their challenge.
LEMMA ChallengeOfKept ==
    ASSUME ReferInv, [Next]_vars,
           NEW i \in DOMAIN earnings, NEW row \in earnings[i]
    PROVE  ChallengeOf(row)' = ChallengeOf(row)
<1>1. row.challengeId \in DOMAIN challenges
  BY DEF ReferInv, RowsReferred
<1>2. RowsKept
  BY NextTyped DEF ReferInv
<1> QED
  BY <1>1, <1>2 DEF RowsKept, ChallengeOf

\* A new message is later than all before it, and the attender gets ahead of it.
LEMMA OrderKeptByAttender ==
    ASSUME OrderInv, Attender
    PROVE  QueueOrdered' /\ MessageOrdered' /\ EarningsOrdered' /\ EarnedOnce'
<1>1. ReferInv /\ QueueOrdered /\ MessageOrdered /\ EarningsOrdered /\ EarnedOnce
  BY DEF OrderInv
<1>2. UNCHANGED <<pc, msg, earnings>>
  BY DEF Attender, Start, AttNotified, MoveOn, AttRecord, AttOld, AttNew, AttSend, database,
         processor
<1>3. \A i \in DOMAIN earnings : \A row \in earnings[i] : ChallengeOf(row)' = ChallengeOf(row)
  BY <1>1, ChallengeOfKept DEF Next
<1>4. EarnedOnce'
  BY <1>1, <1>2, <1>3 DEF EarnedOnce, ChallengeOf
<1>5. oldChallenge \in Nat /\ newChallenge \in Nat
  BY <1>1, ChallengesAreNat
<1>6. CASE AttSend
  <2>1. PICK m : /\ mineSuccess' = Append(mineSuccess, m)
                 /\ m.challenge = oldChallenge
    BY <1>6 DEF AttSend
  <2>2. mineSuccess \in Seq(Message)
    BY <1>1 DEF ReferInv, LedgerTypeOK
  <2>3. \A i \in DOMAIN mineSuccess' :
           \/ mineSuccess'[i].challenge = oldChallenge /\ \A j \in DOMAIN mineSuccess' : j <= i
           \/ i \in DOMAIN mineSuccess /\ mineSuccess'[i] = mineSuccess[i]
    BY <2>1, <2>2
  <2>4. oldChallenge < oldChallenge'
    BY <1>1, <1>6 DEF AttSend, QueueOrdered
  <2>5. \A i \in DOMAIN mineSuccess : mineSuccess[i].challenge \in Nat
    BY <1>1, ChallengesAreNat
  <2>6. oldChallenge' \in Nat
    BY <1>5, <1>6 DEF AttSend
  <2>7. DOMAIN mineSuccess' \subseteq Nat
    BY <2>1, <2>2
  <2>8. \A i \in DOMAIN mineSuccess' : mineSuccess'[i].challenge < oldChallenge'
    BY <1>1, <1>5, <2>3, <2>4, <2>5, <2>6 DEF QueueOrdered
  <2>9. \A i, j \in DOMAIN mineSuccess' :
           i < j => mineSuccess'[i].challenge < mineSuccess'[j].challenge
    BY <1>1, <2>3, <2>7 DEF QueueOrdered
  <2>10. QueueOrdered'
    BY <1>6, <2>8, <2>9 DEF QueueOrdered, AttSend
  <2>11. MessageOrdered'
    <3> SUFFICES ASSUME pc # "recv"
                 PROVE  /\ msg.challenge < oldChallenge'
                        /\ \A i \in DOMAIN mineSuccess' : msg.challenge < mineSuccess'[i].challenge
      BY <1>2 DEF MessageOrdered
    <3>1. msg.challenge \in Nat
      BY <1>1, ChallengesAreNat
    <3> QED
      BY <1>1, <1>5, <2>3, <2>4, <2>6, <3>1 DEF MessageOrdered
  <2>12. EarningsOrdered'
    <3> SUFFICES ASSUME NEW i \in DOMAIN earnings, NEW row \in earnings[i]
                 PROVE  /\ ChallengeOf(row) < oldChallenge'
                        /\ \A j \in DOMAIN mineSuccess' :
                              ChallengeOf(row) < mineSuccess'[j].challenge
                        /\ pc = "earnings" => ChallengeOf(row) < msg.challenge
      BY <1>2, <1>3 DEF EarningsOrdered
    <3>1. ChallengeOf(row) \in Nat
      BY <1>1, ChallengesAreNat
    <3> QED
      BY <1>1, <1>5, <2>3, <2>4, <2>6, <3>1 DEF EarningsOrdered
  <2> QED
    BY <1>4, <2>10, <2>11, <2>12
<1>7. CASE Start \/ AttNotified \/ MoveOn \/ AttRecord \/ AttOld \/ AttNew
  <2>1. UNCHANGED mineSuccess
    BY <1>7 DEF Start, AttNotified, MoveOn, AttRecord, AttOld, AttNew
  <2>2. oldChallenge' \in Nat /\ oldChallenge <= oldChallenge'
    BY <1>5, <1>7, LedgerAssumption DEF Start, AttNotified, MoveOn, AttRecord, AttOld, AttNew
  <2>3. attPc' \in {"old", "new", "send"} => oldChallenge' < newChallenge'
    BY <1>1, <1>5, <1>7, LedgerAssumption DEF Start, AttNotified, MoveOn, AttRecord, AttOld,
         AttNew, QueueOrdered
  <2>4. QueueOrdered'
    <3>1. \A i \in DOMAIN mineSuccess : mineSuccess[i].challenge \in Nat
      BY <1>1, ChallengesAreNat
    <3> QED
      BY <1>1, <1>5, <2>1, <2>2, <2>3, <3>1 DEF QueueOrdered
  <2>5. MessageOrdered'
    <3>1. pc # "recv" => msg.challenge \in Nat
      BY <1>1, ChallengesAreNat
    <3> QED
      BY <1>1, <1>2, <1>5, <2>1, <2>2, <3>1 DEF MessageOrdered
  <2>6. EarningsOrdered'
    <3>1. \A i \in DOMAIN earnings : \A row \in earnings[i] : ChallengeOf(row) \in Nat
      BY <1>1, ChallengesAreNat
    <3>2. \A i \in DOMAIN earnings : \A row \in earnings[i] : ChallengeOf(row) < oldChallenge'
      BY <1>1, <1>5, <2>2, <3>1 DEF EarningsOrdered
    <3> QED
      BY <1>1, <1>2, <1>3, <2>1, <3>2 DEF EarningsOrdered
  <2> QED
    BY <1>4, <2>4, <2>5, <2>6
<1> QED
  BY <1>6, <1>7 DEF Attender

\* The head of the queue is earlier than the rest and later than what was booked.
LEMMA OrderKeptByReceive ==
    ASSUME OrderInv, Receive
    PROVE  QueueOrdered' /\ MessageOrdered' /\ EarningsOrdered' /\ EarnedOnce'
<1>1. ReferInv /\ QueueOrdered /\ MessageOrdered /\ EarningsOrdered /\ EarnedOnce
  BY DEF OrderInv
<1>2. UNCHANGED <<challenges, earnings, attPc, oldChallenge, newChallenge>>
  BY DEF Receive, database, attender
<1>3. mineSuccess \in Seq(Message) /\ mineSuccess # <<>>
  BY <1>1 DEF ReferInv, LedgerTypeOK, Receive
<1>4. msg' = mineSuccess[1] /\ 1 \in DOMAIN mineSuccess
  BY <1>3 DEF Receive
<1>5. \A i \in DOMAIN mineSuccess' :
         /\ i + 1 \in DOMAIN mineSuccess
         /\ i \in Nat
         /\ 1 < i + 1
         /\ mineSuccess'[i] = mineSuccess[i + 1]
  BY <1>3, HeadTailProperties DEF Receive
<1>6. QueueOrdered'
  BY <1>1, <1>2, <1>5 DEF QueueOrdered
<1>7. MessageOrdered'
  BY <1>1, <1>2, <1>4, <1>5 DEF QueueOrdered, MessageOrdered
<1>8. EarningsOrdered'
  BY <1>1, <1>2, <1>4, <1>5 DEF EarningsOrdered, ChallengeOf
<1>9. EarnedOnce'
  BY <1>1, <1>2 DEF EarnedOnce
<1> QED
  BY <1>6, <1>7, <1>8, <1>9

\* The new batch belongs to a challenge later than those of all other batches.
LEMMA OrderKeptByAddEarnings ==
    ASSUME OrderInv, AddEarnings
    PROVE  QueueOrdered' /\ MessageOrdered' /\ EarningsOrdered' /\ EarnedOnce'
<1>1. ReferInv /\ QueueOrdered /\ MessageOrdered /\ EarningsOrdered /\ EarnedOnce
  BY DEF OrderInv
<1>2. UNCHANGED <<challenges, msg, mineSuccess, attPc, oldChallenge, newChallenge>>
  BY DEF AddEarnings, attender
<1>3. pc = "earnings" /\ pc' = "rewards"
  BY DEF AddEarnings
<1>4. ASSUME NEW i \in DOMAIN earnings', NEW row \in earnings'[i]
      PROVE  \/ i \in DOMAIN earnings /\ row \in earnings[i]
             \/ ChallengeOf(row) = msg.challenge /\ i \notin DOMAIN earnings
  BY <1>1, <1>3, EarningsGrow DEF ReferInv, RowsReferred, RowsOf, ChallengeOf
<1>5. QueueOrdered' /\ MessageOrdered'
  BY <1>1, <1>2, <1>3 DEF QueueOrdered, MessageOrdered
<1>6. EarningsOrdered'
  BY <1>1, <1>2, <1>3, <1>4 DEF EarningsOrdered, MessageOrdered, ChallengeOf
<1>7. EarnedOnce'
  <2> SUFFICES ASSUME NEW i \in DOMAIN earnings', NEW j \in DOMAIN earnings',
                      NEW r \in earnings'[i], NEW s \in earnings'[j],
                      r.miner = s.miner, ChallengeOf(r) = ChallengeOf(s)
               PROVE  i = j
    BY <1>2 DEF EarnedOnce, ChallengeOf
  <2>1. CASE i \in DOMAIN earnings /\ j \in DOMAIN earnings
    BY <1>1, <1>4, <2>1 DEF EarnedOnce, ChallengeOf
  <2>2. CASE i \notin DOMAIN earnings /\ j \notin DOMAIN earnings
    BY <2>2, OneBatchMore, <1>1 DEF ReferInv
  <2>3. \A k \in DOMAIN earnings : \A row \in earnings[k] :
           ChallengeOf(row) \in Nat /\ ChallengeOf(row) < msg.challenge
    BY <1>1, <1>3, ChallengesAreNat DEF EarningsOrdered
  <2>4. msg.challenge \in Nat
    BY <1>1, <1>3, ChallengesAreNat
  <2> QED
    BY <1>4, <2>1, <2>2, <2>3, <2>4
<1> QED
  BY <1>5, <1>6, <1>7

\* The remaining steps leave earnings and queue alone, or empty the queue.
LEMMA OrderKept ==
    ASSUME OrderInv, [Next]_vars
    PROVE  QueueOrdered' /\ MessageOrdered' /\ EarningsOrdered' /\ EarnedOnce'
<1>1. ReferInv /\ QueueOrdered /\ MessageOrdered /\ EarningsOrdered /\ EarnedOnce
  BY DEF OrderInv
<1>2. \A i \in DOMAIN earnings : \A row \in earnings[i] : ChallengeOf(row)' = ChallengeOf(row)
  BY <1>1, ChallengeOfKept
<1>3. CASE UpdateRewards \/ AddContributions \/ UpdatePoolRewards \/ FindContribution
              \/ CloseChallenge \/ UNCHANGED vars
  <2>1. UNCHANGED <<earnings, mineSuccess, attPc, oldChallenge, newChallenge>>
    BY <1>3 DEF UpdateRewards, AddContributions, UpdatePoolRewards, FindContribution,
         CloseChallenge, attender, database, vars
  <2>2. \/ UNCHANGED <<pc, msg>>
        \/ pc # "recv" /\ pc' # "recv" /\ pc' # "earnings" /\ UNCHANGED msg
        \/ pc' = "recv"
    BY <1>3 DEF UpdateRewards, AddContributions, UpdatePoolRewards, FindContribution,
         CloseChallenge, vars, processor
  <2>3. QueueOrdered' /\ MessageOrdered'
    BY <1>1, <2>1, <2>2 DEF QueueOrdered, MessageOrdered
  <2>4. EarningsOrdered'
    BY <1>1, <1>2, <2>1, <2>2 DEF EarningsOrdered
  <2>5. EarnedOnce'
    BY <1>1, <1>2, <2>1 DEF EarnedOnce, ChallengeOf
  <2> QED
    BY <2>3, <2>4, <2>5
<1>4. CASE Restart
  <2>1. UNCHANGED earnings /\ DOMAIN mineSuccess' = {} /\ pc' = "recv" /\ attPc' = "startup"
    BY <1>4 DEF Restart, database
  <2>2. oldChallenge' \in Nat /\ oldChallenge <= oldChallenge' /\ oldChallenge \in Nat
    BY <1>1, <1>4, ChallengesAreNat, LedgerAssumption DEF Restart
  <2>3. \A i \in DOMAIN earnings : \A row \in earnings[i] : ChallengeOf(row) < oldChallenge'
    BY <1>1, <2>2, ChallengesAreNat DEF EarningsOrdered
  <2>4. EarningsOrdered'
    BY <1>2, <2>1, <2>3 DEF EarningsOrdered
  <2>5. EarnedOnce'
    BY <1>1, <1>2, <2>1 DEF EarnedOnce, ChallengeOf
  <2> QED
    BY <2>1, <2>4, <2>5 DEF QueueOrdered, MessageOrdered
<1> QED
  BY <1>3, <1>4, OrderKeptByAttender, OrderKeptByReceive, OrderKeptByAddEarnings
     DEF Next, Processor

\* Nobody earns twice on one challenge.
THEOREM LedgerEarnedOnce == Spec => []EarnedOnce
<1>1. Init => OrderInv
  BY InitTyped DEF Init, OrderInv, ReferInv, RowKnown, RowsReferred, QueueOrdered,
     MessageOrdered, EarningsOrdered, EarnedOnce
<1>2. OrderInv /\ [Next]_vars => OrderInv'
  BY NextTyped, RowKnownKept, RowsReferredKept, OrderKept DEF OrderInv, ReferInv
<1>3. OrderInv => EarnedOnce
  BY DEF OrderInv
<1> QED
  BY <1>1, <1>2, <1>3, PTL DEF Spec

-----------------------------------------------------------------------------
(* A challenge is closed by a contribution to it *)

\* The submitted nonce is among the contributions of a message.
BestIn(m) == \E n \in Contributors(m.contributions) : m.contributions[n].nonce = m.best

BestKnown ==
    /\ \A i \in DOMAIN mineSuccess : BestIn(mineSuccess[i])
    /\ pc # "recv" => BestIn(msg)

\* When the processor looks for the nonce, the newest batch is the message's own and
\* has it.
OwnBatch ==
    pc \in {"pool", "lookup"} =>
        /\ Len(contributionRows) \in DOMAIN contributionRows
        /\ \A row \in contributionRows[Len(contributionRows)] :
              row.challengeId = msg.challengeId
        /\ \E row \in contributionRows[Len(contributionRows)] : row.nonce = msg.best

OwnFound == pc = "close" => contributionId.challengeId = msg.challengeId

ClosedByRow ==
    \A i \in DOMAIN challenges :
        LET row == challenges[i].contribution
        IN row # None => row.challengeId \in RowsOf(challenges[i].challenge)

CloseInv == ReferInv /\ BestKnown /\ OwnBatch /\ OwnFound /\ ClosedByRow

\* A new row is not closed, and the others stay as they are.
LEMMA EnsureRowOpen ==
    ASSUME challenges \in Seq(Row), NEW c \in Challenge, EnsureRow(c)
    PROVE  \A i \in DOMAIN challenges' : challenges'[i].contribution # None =>
              i \in DOMAIN challenges /\ challenges'[i] = challenges[i]
<1>1. CASE AddRow(c)
  <2> DEFINE r == [challenge |-> c, contribution |-> None]
  <2>1. r \in Row /\ r.contribution = None
    BY DEF Row
  <2>2. challenges' = Append(challenges, r)
    BY <1>1 DEF AddRow
  <2> HIDE DEF r
  <2>3. \A i \in DOMAIN challenges' :
           challenges'[i] = r \/ (i \in DOMAIN challenges /\ challenges'[i] = challenges[i])
    BY <2>1, <2>2
  <2> QED
    BY <2>1, <2>3
<1>2. CASE UNCHANGED challenges
  BY <1>2
<1> QED
  BY <1>1, <1>2 DEF EnsureRow

\* Messages carry their best nonce along, to the processor.
LEMMA BestKnownKept ==
    ASSUME BestRecorded, CloseInv, [Next]_vars
    PROVE  BestKnown'
<1>1. mineSuccess \in Seq(Message) /\ BestKnown
  BY DEF CloseInv, ReferInv, LedgerTypeOK
<1>2. CASE AttSend
  <2>1. PICK m : mineSuccess' = Append(mineSuccess, m) /\ BestIn(m)
    BY <1>2 DEF AttSend, BestIn
  <2>2. \A i \in DOMAIN mineSuccess' :
           mineSuccess'[i] = m \/ (i \in DOMAIN mineSuccess /\ mineSuccess'[i] = mineSuccess[i])
    BY <1>1, <2>1
  <2> QED
    BY <1>1, <1>2, <2>1, <2>2 DEF BestKnown, BestIn, AttSend, processor
<1>3. CASE Receive
  <2>1. mineSuccess # <<>> /\ msg' = mineSuccess[1] /\ 1 \in DOMAIN mineSuccess
    BY <1>1, <1>3 DEF Receive
  <2>2. \A i \in DOMAIN mineSuccess' :
           i + 1 \in DOMAIN mineSuccess /\ mineSuccess'[i] = mineSuccess[i + 1]
    BY <1>1, <1>3, <2>1, HeadTailProperties DEF Receive
  <2> QED
    BY <1>1, <2>1, <2>2 DEF BestKnown, BestIn
<1>4. CASE CloseChallenge \/ Restart
  BY <1>1, <1>4 DEF CloseChallenge, Restart, BestKnown, BestIn
<1>5. CASE UNCHANGED <<mineSuccess, msg>> /\ (pc = "recv" => pc' = "recv")
  BY <1>1, <1>5 DEF BestKnown, BestIn
<1>6. CASE Attender /\ ~AttSend
  BY <1>5, <1>6 DEF Attender, Start, AttNotified, MoveOn, AttRecord, AttOld, AttNew,
     processor
<1>7. CASE Processor /\ ~Receive /\ ~CloseChallenge
  BY <1>5, <1>7 DEF Processor, AddEarnings, UpdateRewards, AddContributions,
     UpdatePoolRewards, FindContribution
<1>8. CASE UNCHANGED vars
  BY <1>5, <1>8 DEF vars, processor
<1> QED
  BY <1>2, <1>3, <1>4, <1>6, <1>7, <1>8 DEF Next

\* The batch of a message is the newest one until the message is done with.
LEMMA OwnBatchKept ==
    ASSUME ~BatchFails, CloseInv, [Next]_vars
    PROVE  OwnBatch'
<1>1. contributionRows \in Seq(SUBSET ContributionRow) /\ OwnBatch /\ BestKnown
  BY DEF CloseInv, ReferInv, LedgerTypeOK
<1>2. CASE AddContributions
  <2> DEFINE batch == {[miner |-> m, challengeId |-> msg.challengeId,
                        nonce |-> msg.contributions[m].nonce] :
                          m \in Contributors(msg.contributions)}
  <2>1. contributionRows' = Append(contributionRows, batch) /\ UNCHANGED msg
    BY <1>2 DEF AddContributions
  <2>2. \A row \in batch : row.challengeId = msg.challengeId
    OBVIOUS
  <2>3. \E row \in batch : row.nonce = msg.best
    <3>1. PICK m \in Contributors(msg.contributions) :
             msg.contributions[m].nonce = msg.best
      BY <1>1, <1>2 DEF BestKnown, BestIn, AddContributions
    <3>2. [miner |-> m, challengeId |-> msg.challengeId,
           nonce |-> msg.contributions[m].nonce] \in batch
      OBVIOUS
    <3> QED
      BY <3>1, <3>2
  <2> HIDE DEF batch
  <2>4. /\ Len(contributionRows') \in DOMAIN contributionRows'
        /\ contributionRows'[Len(contributionRows')] = batch
    BY <1>1, <2>1
  <2> QED
    BY <2>1, <2>2, <2>3, <2>4 DEF OwnBatch
<1>3. CASE /\ UNCHANGED <<contributionRows, msg>>
           /\ pc' \in {"pool", "lookup"} => pc \in {"pool", "lookup"}
  BY <1>1, <1>3 DEF OwnBatch
<1>4. CASE Attender
  BY <1>3, <1>4 DEF Attender, Start, AttNotified, MoveOn, AttRecord, AttOld, AttNew,
     AttSend, processor, database
<1>5. CASE Processor /\ ~AddContributions
  BY <1>3, <1>5 DEF Processor, Receive, AddEarnings, UpdateRewards, UpdatePoolRewards,
     FindContribution, CloseChallenge, database, OwnBatch
<1>6. CASE Restart
  BY <1>6 DEF Restart, OwnBatch
<1>7. CASE UNCHANGED vars
  BY <1>3, <1>7 DEF vars, processor, database
<1> QED
  BY <1>2, <1>4, <1>5, <1>6, <1>7 DEF Next

\* So the row that is found is one of the message's own.
LEMMA OwnFoundKept ==
    ASSUME CloseInv, [Next]_vars
    PROVE  OwnFound'
<1>1. contributionRows \in Seq(SUBSET ContributionRow) /\ OwnBatch /\ OwnFound
  BY DEF CloseInv, ReferInv, LedgerTypeOK
<1>2. CASE FindContribution
  <2> DEFINE n == Len(contributionRows)
  <2>1. PICK i \in BatchesWith(msg.best) :
           /\ \A j \in BatchesWith(msg.best) : j <= i
           /\ contributionId' \in {row \in contributionRows[i] : row.nonce = msg.best}
    BY <1>2 DEF FindContribution
  <2>2. /\ n \in BatchesWith(msg.best)
        /\ \A row \in contributionRows[n] : row.challengeId = msg.challengeId
    BY <1>1, <1>2 DEF OwnBatch, FindContribution, BatchesWith
  <2>3. i \in 1 .. n /\ n \in Nat
    BY <1>1, <2>1 DEF BatchesWith
  <2>4. i = n
    BY <2>1, <2>2, <2>3
  <2> QED
    BY <1>2, <2>1, <2>2, <2>4 DEF OwnFound, FindContribution
<1>3. CASE UNCHANGED <<pc, msg, contributionId>>
  BY <1>1, <1>3 DEF OwnFound
<1>4. CASE Processor /\ ~FindContribution
  BY <1>4 DEF Processor, Receive, AddEarnings, UpdateRewards, AddContributions,
     UpdatePoolRewards, CloseChallenge, OwnFound
<1>5. CASE Restart
  BY <1>5 DEF Restart, OwnFound
<1>6. CASE Attender \/ UNCHANGED vars
  BY <1>3, <1>6 DEF Attender, Start, AttNotified, MoveOn, AttRecord, AttOld, AttNew,
     AttSend, vars, processor
<1> QED
  BY <1>2, <1>4, <1>5, <1>6 DEF Next

\* Rows are added open, and closed with what was found.
LEMMA ClosedByRowKept ==
    ASSUME CloseInv, [Next]_vars
    PROVE  ClosedByRow'
<1>1. LedgerTypeOK /\ ClosedByRow /\ RowsKept /\ RowsReferred /\ OwnFound
  BY NextTyped DEF CloseInv, ReferInv
<1>2. ASSUME \A i \in DOMAIN challenges' : challenges'[i].contribution # None =>
                i \in DOMAIN challenges /\ challenges'[i] = challenges[i]
      PROVE  ClosedByRow'
  BY <1>1, <1>2 DEF ClosedByRow, RowsKept, RowsOf
<1>3. ASSUME NEW c \in Challenge, EnsureRow(c) PROVE ClosedByRow'
  BY <1>1, <1>2, <1>3, EnsureRowOpen DEF LedgerTypeOK
<1>4. CASE UNCHANGED challenges
  BY <1>2, <1>4
<1>5. CASE CloseChallenge /\ ~UNCHANGED challenges
  <2>1. challenges' = [i \in DOMAIN challenges |->
               IF i \in RowsOf(msg.challenge)
               THEN [challenges[i] EXCEPT !.contribution = contributionId]
               ELSE challenges[i]]
    BY <1>5 DEF CloseChallenge
  <2>2. contributionId.challengeId \in RowsOf(msg.challenge)
    BY <1>1, <1>5 DEF CloseChallenge, OwnFound, RowsReferred
  <2>3. \A i \in DOMAIN challenges : challenges[i] \in Row
    BY <1>1, ElementOfSeq, LenProperties DEF LedgerTypeOK
  <2>4. SUFFICES ASSUME NEW i \in DOMAIN challenges', challenges'[i].contribution # None
                 PROVE  /\ challenges'[i].contribution.challengeId \in DOMAIN challenges'
                        /\ challenges'[challenges'[i].contribution.challengeId].challenge
                              = challenges'[i].challenge
    BY DEF ClosedByRow, RowsOf
  <2>5. i \in DOMAIN challenges /\ challenges'[i].challenge = challenges[i].challenge
    BY <2>1, <2>3, <2>4 DEF Row
  <2>6. CASE i \in RowsOf(msg.challenge)
    <3>1. challenges'[i].contribution = contributionId
      BY <2>1, <2>3, <2>5, <2>6 DEF Row
    <3>2. challenges[i].challenge = msg.challenge
      BY <2>6 DEF RowsOf
    <3> QED
      BY <1>1, <2>2, <2>5, <3>1, <3>2 DEF RowsKept, RowsOf
  <2>7. CASE i \notin RowsOf(msg.challenge)
    <3>1. challenges'[i] = challenges[i]
      BY <2>1, <2>5, <2>7
    <3> QED
      BY <1>1, <2>4, <2>5, <3>1 DEF ClosedByRow, RowsKept, RowsOf
  <2> QED
    BY <2>6, <2>7
<1>6. CASE Start \/ AttOld \/ AttNew \/ AttRecord
  BY <1>1, <1>3, <1>4, <1>6 DEF Start, AttOld, AttNew, AttRecord, LedgerTypeOK
<1>7. CASE AttNotified \/ MoveOn \/ AttSend \/ Restart \/ UNCHANGED vars
  BY <1>4, <1>7 DEF AttNotified, MoveOn, AttSend, Restart, vars, database
<1>8. CASE Processor /\ ~CloseChallenge
  BY <1>4, <1>8 DEF Processor, Receive, AddEarnings, UpdateRewards, AddContributions,
     UpdatePoolRewards, FindContribution, database
<1> QED
  BY <1>4, <1>5, <1>6, <1>7, <1>8 DEF Next, Attender, Processor

\* A challenge is only ever attributed to a contribution to this very challenge, as long
\* as batches do not fail and the submitted nonce is on record, and also when the server
\* is stopped between any two calls (run "ledger_reliable").
THEOREM LedgerClosedByOwn ==
    BestRecorded /\ ~BatchFails => (Spec => []ClosedByOwnContribution)
<1> SUFFICES ASSUME BestRecorded, ~BatchFails PROVE Spec => []ClosedByOwnContribution
  OBVIOUS
<1>1. Init => CloseInv
  BY InitTyped DEF Init, CloseInv, ReferInv, RowKnown, RowsReferred, BestKnown, OwnBatch,
     OwnFound, ClosedByRow
<1>2. CloseInv /\ [Next]_vars => CloseInv'
  BY NextTyped, RowKnownKept, RowsReferredKept, BestKnownKept, OwnBatchKept, OwnFoundKept,
     ClosedByRowKept DEF CloseInv, ReferInv
<1>3. CloseInv => ClosedByOwnContribution
  BY DEF CloseInv, ClosedByRow, ClosedByOwnContribution, RowsOf
<1> QED
  BY <1>1, <1>2, <1>3, PTL DEF Spec

=============================================================================
