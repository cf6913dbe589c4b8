------------------------------- MODULE Ledger -------------------------------
(***************************************************************************)
(* What becomes of a reward in the database: the challenge rows that       *)
(* startup and the attender of a landed transaction maintain, and          *)
(* pool_mine_success_processor.rs, which takes a message per credited      *)
(* landing and books earnings, balances, contributions and the pool total. *)
(*                                                                         *)
(* Every call of database.rs is one transaction: a batch is inserted as a  *)
(* whole or, when the call fails, not at all.  A call that is retried until it *)
(* succeeds is one action; a failure of it changes nothing.  The server    *)
(* may be stopped between any two calls; what it had in memory is gone.    *)
(***************************************************************************)
EXTENDS Naturals, Sequences, FiniteSetsExt

CONSTANTS
    Miner,          \* wallets
    Enrolled,       \* those that have a row in the rewards table
    Nonce,
    Difficulty,     \* of a contribution: --expected-min-difficulty and more
    Reward,         \* balance differences of the proof account
    Percent,        \* resolution of a miner's share: 1_000_000
    None,           \* no contribution, no message
    BatchFails,     \* may the insertion of a batch fail?
    BestRecorded,   \* is the submitted nonce among the contributions?
    MaxChallenge,   \* bound: challenges that are followed
    MaxRows,        \* bound: rows of the challenges table
    MaxRestarts     \* bound: restarts of the server

Challenge == 0 .. MaxChallenge

ASSUME LedgerAssumption ==
    /\ IsFiniteSet(Miner)
    /\ Enrolled \subseteq Miner
    /\ Difficulty \subseteq Nat
    /\ Reward \subseteq Nat
    /\ Percent \in Nat \ {0}
    /\ BatchFails \in BOOLEAN
    /\ BestRecorded \in BOOLEAN
    /\ MaxChallenge \in Nat
    /\ MaxRows \in Nat
    /\ MaxRestarts \in Nat

Contribution == [nonce : Nonce, difficulty : Difficulty]

Message ==
    [challenge : Challenge, challengeId : Nat, best : Nonce, reward : Reward,
     contributions : [Miner -> Contribution \cup {None}]]

EarningRow == [miner : Miner, challengeId : Nat, amount : Nat]
ContributionRow == [miner : Miner, challengeId : Nat, nonce : Nonce]

ASSUME NoneAssumption ==
    /\ None \notin Contribution
    /\ None \notin Message
    /\ None \notin ContributionRow

VARIABLES
    \* The database.  An id is a position; earnings and contributions are
    \* sequences of the batches, sets of rows, that were inserted.
    challenges,         \* rows [challenge, contribution]
    earnings,
    contributionRows,
    balances,           \* rewards.balance of each miner
    totalRewards,       \* pools.total_rewards
    \* The submission side.
    attPc,              \* startup, the attender's database calls, or idle
    oldChallenge,       \* the challenge that is submitted for next, or old_proof's
    newChallenge,       \* the one that the attender found in its place
    challengeId,        \* submission_challenge_id, 0 before it is known
    unrecorded,         \* challenges found by RPC whose rows are still to be added
    \* The processor.
    mineSuccess,        \* its channel
    pc,                 \* where it is
    msg,                \* the message it works on
    contributionId,     \* the row it found for the best nonce
    restarts

database == <<challenges, earnings, contributionRows, balances, totalRewards>>
attender == <<attPc, oldChallenge, newChallenge, challengeId, unrecorded>>
processor == <<pc, msg, contributionId>>
vars == <<database, attender, mineSuccess, processor, restarts>>

TypeOK ==
    /\ challenges \in Seq([challenge : Challenge,
                           contribution : ContributionRow \cup {None}])
    /\ earnings \in Seq(SUBSET EarningRow)
    /\ contributionRows \in Seq(SUBSET ContributionRow)
    /\ balances \in [Miner -> Nat]
    /\ totalRewards \in Nat
    /\ attPc \in {"startup", "idle", "old", "new", "send"}
    /\ oldChallenge \in Challenge
    /\ newChallenge \in Challenge
    /\ challengeId \in Nat
    /\ unrecorded \in SUBSET Challenge
    /\ mineSuccess \in Seq(Message)
    /\ pc \in {"recv", "earnings", "rewards", "contributions", "pool", "lookup", "close"}
    /\ IF pc = "recv" THEN msg = None ELSE msg \in Message
    /\ IF pc = "close" THEN contributionId \in ContributionRow ELSE contributionId = None
    /\ restarts \in 0 .. MaxRestarts

Init ==
    /\ challenges = <<>>
    /\ earnings = <<>>
    /\ contributionRows = <<>>
    /\ balances = [m \in Miner |-> 0]
    /\ totalRewards = 0
    /\ attPc = "startup"
    /\ oldChallenge = 0
    /\ newChallenge = 0
    /\ challengeId = 0
    /\ unrecorded = {}
    /\ mineSuccess = <<>>
    /\ pc = "recv"
    /\ msg = None
    /\ contributionId = None
    /\ restarts = 0

-----------------------------------------------------------------------------
(* The challenges table *)

RowsOf(c) == {i \in DOMAIN challenges : challenges[i].challenge = c}

\* get_challenge_by_challenge: the first of the rows of c.
RowOf(c) == CHOOSE i \in RowsOf(c) : \A j \in RowsOf(c) : i <= j

\* add_new_challenge: nothing keeps it from adding a second row of c.
AddRow(c) ==
    /\ Len(challenges) < MaxRows
    /\ challenges' = Append(challenges, [challenge |-> c, contribution |-> None])

\* It is repeated when it fails, unless there turns out to be a row of c.
EnsureRow(c) == AddRow(c) \/ (RowsOf(c) # {} /\ UNCHANGED challenges)

-----------------------------------------------------------------------------
(* Startup and the attender *)

\* The row of the current challenge is added when it is missing, and also when
\* the lookup fails.  A panic ends in another start.
Start ==
    /\ attPc = "startup"
    /\ EnsureRow(oldChallenge)
    /\ attPc' = "idle"
    /\ UNCHANGED <<earnings, contributionRows, balances, totalRewards, oldChallenge,
                   newChallenge, challengeId, unrecorded, mineSuccess, processor, restarts>>

\* An attender finds a later challenge in app_proof: it is going to credit.
AttNotified ==
    /\ attPc = "idle"
    /\ newChallenge' \in oldChallenge + 1 .. MaxChallenge
    /\ attPc' = "old"
    /\ UNCHANGED <<database, oldChallenge, challengeId, unrecorded, mineSuccess,
                   processor, restarts>>

\* The server gets to a later challenge and credits nobody: an attender that
\* learns of it by RPC, and adds its row after it has signalled completion, or a
\* failed submission, or an attender that gave up.
MoveOn ==
    /\ attPc = "idle"
    /\ oldChallenge' \in oldChallenge + 1 .. MaxChallenge
    /\ unrecorded' \in {unrecorded, unrecorded \cup {oldChallenge'}}
    /\ UNCHANGED <<database, attPc, newChallenge, challengeId, mineSuccess, processor,
                   restarts>>

AttRecord ==
    /\ \E c \in unrecorded : EnsureRow(c) /\ unrecorded' = unrecorded \ {c}
    /\ UNCHANGED <<earnings, contributionRows, balances, totalRewards, attPc, oldChallenge,
                   newChallenge, challengeId, mineSuccess, processor, restarts>>

AttOld_NotRepeated ==
    /\ attPc = "old"
    /\ \/ /\ RowsOf(oldChallenge) # {}
          /\ challengeId' = RowOf(oldChallenge)
          /\ UNCHANGED challenges
       \/ EnsureRow(oldChallenge) /\ UNCHANGED challengeId
    /\ attPc' = "new"
    /\ UNCHANGED <<earnings, contributionRows, balances, totalRewards, oldChallenge,
                   newChallenge, unrecorded, mineSuccess, processor, restarts>>

\* The id of the old challenge's row is looked up.  Whatever makes that fail, the
\* row is added and looked up again.
AttOld ==
    /\ attPc = "old"
    /\ \/ /\ RowsOf(oldChallenge) # {}
          /\ challengeId' = RowOf(oldChallenge)
          /\ attPc' = "new"
          /\ UNCHANGED challenges
       \/ EnsureRow(oldChallenge) /\ UNCHANGED <<attPc, challengeId>>
    /\ UNCHANGED <<earnings, contributionRows, balances, totalRewards, oldChallenge,
                   newChallenge, unrecorded, mineSuccess, processor, restarts>>

AttNew ==
    /\ attPc = "new"
    /\ EnsureRow(newChallenge)
    /\ attPc' = "send"
    /\ UNCHANGED <<earnings, contributionRows, balances, totalRewards, oldChallenge,
                   newChallenge, challengeId, unrecorded, mineSuccess, processor, restarts>>

Contributors(contributions) == {m \in Miner : contributions[m] # None}

\* The contributions are copied some time after the best solution was taken: its
\* miner may have replaced it on record by a better one.
AttSend ==
    /\ attPc = "send"
    /\ \E best \in Nonce, reward \in Reward,
          contributions \in [Miner -> Contribution \cup {None}] :
          /\ Contributors(contributions) # {}
          /\ BestRecorded => \E m \in Contributors(contributions) :
                                contributions[m].nonce = best
          /\ mineSuccess' = Append(mineSuccess,
                 [challenge |-> oldChallenge, challengeId |-> challengeId, best |-> best,
                  reward |-> reward, contributions |-> contributions])
    /\ attPc' = "idle"
    /\ oldChallenge' = newChallenge
    /\ newChallenge' = 0
    /\ challengeId' = 0
    /\ UNCHANGED <<database, unrecorded, processor, restarts>>

-----------------------------------------------------------------------------
(* The mine success processor *)

MIN_HASHPOWER == 5
MIN_DIFF == 5
MAX_HASHPOWER == 655360

\* client_message_processor.rs: twice as much for each step, up to a limit reached
\* 17 steps above MIN_DIFF.  Below it the exponent wraps to a huge one, and the
\* power to 0; likewise 64 steps above.
HashPower(d) ==
    IF d < MIN_DIFF \/ d >= MIN_DIFF + 64 THEN 0
    ELSE IF d >= MIN_DIFF + 17 THEN MAX_HASHPOWER
    ELSE MIN_HASHPOWER * 2 ^ (d - MIN_DIFF)

TotalHashPower(contributions) ==
    MapThenSumSet(LAMBDA m : HashPower(contributions[m].difficulty),
                  Contributors(contributions))

Share_RoundedUp(hashpower, total, reward) ==
    (((hashpower * Percent + total - 1) \div total) * reward) \div Percent

\* What a miner earns: hashpower_percent of the rewards, rounded down twice.
Share(hashpower, total, reward) == (((hashpower * Percent) \div total) * reward) \div Percent

Earned(m) ==
    Share(HashPower(msg.contributions[m].difficulty), TotalHashPower(msg.contributions),
          msg.reward)

Receive ==
    /\ pc = "recv"
    /\ mineSuccess # <<>>
    /\ msg' = Head(mineSuccess)
    /\ mineSuccess' = Tail(mineSuccess)
    /\ pc' = "earnings"
    /\ UNCHANGED <<database, attender, contributionId, restarts>>

\* With no hash power at all the shares are a division by zero: the task has
\* panicked, and stays here until the next restart.
AddEarnings ==
    /\ pc = "earnings"
    /\ TotalHashPower(msg.contributions) > 0
    /\ \/ earnings' = Append(earnings,
              {[miner |-> m, challengeId |-> msg.challengeId, amount |-> Earned(m)] :
                  m \in Contributors(msg.contributions)})
       \/ BatchFails /\ UNCHANGED earnings
    /\ pc' = "rewards"
    /\ UNCHANGED <<challenges, contributionRows, balances, totalRewards, attender,
                   mineSuccess, msg, contributionId, restarts>>

UpdateRewards_Sets ==
    /\ pc = "rewards"
    /\ balances' = [m \in Miner |-> IF m \in Contributors(msg.contributions) \cap Enrolled
                                    THEN Earned(m) ELSE balances[m]]
    /\ pc' = "contributions"
    /\ UNCHANGED <<challenges, earnings, contributionRows, totalRewards, attender,
                   mineSuccess, msg, contributionId, restarts>>

\* Of the miners that have a row; the others' rewards are in their earnings only.
UpdateRewards ==
    /\ pc = "rewards"
    /\ \/ balances' = [m \in Miner |-> IF m \in Contributors(msg.contributions) \cap Enrolled
                                       THEN balances[m] + Earned(m) ELSE balances[m]]
       \/ BatchFails /\ UNCHANGED balances
    /\ pc' = "contributions"
    /\ UNCHANGED <<challenges, earnings, contributionRows, totalRewards, attender,
                   mineSuccess, msg, contributionId, restarts>>

AddContributions_OnlyPaid ==
    /\ pc = "contributions"
    /\ contributionRows' = Append(contributionRows,
           {[miner |-> m, challengeId |-> msg.challengeId,
             nonce |-> msg.contributions[m].nonce] :
               m \in {n \in Contributors(msg.contributions) : Earned(n) > 0}})
    /\ pc' = "pool"
    /\ UNCHANGED <<challenges, earnings, balances, totalRewards, attender, mineSuccess,
                   msg, contributionId, restarts>>

AddContributions ==
    /\ pc = "contributions"
    /\ \/ contributionRows' = Append(contributionRows,
              {[miner |-> m, challengeId |-> msg.challengeId,
                nonce |-> msg.contributions[m].nonce] :
                  m \in Contributors(msg.contributions)})
       \/ BatchFails /\ UNCHANGED contributionRows
    /\ pc' = "pool"
    /\ UNCHANGED <<challenges, earnings, balances, totalRewards, attender, mineSuccess,
                   msg, contributionId, restarts>>

UpdatePoolRewards_StartsOver ==
    /\ pc = "pool"
    /\ \/ totalRewards' = totalRewards + msg.reward /\ pc' = "lookup"
       \/ pc' = "earnings" /\ UNCHANGED totalRewards
    /\ UNCHANGED <<challenges, earnings, contributionRows, balances, attender, mineSuccess,
                   msg, contributionId, restarts>>

\* Repeated until it succeeds.
UpdatePoolRewards ==
    /\ pc = "pool"
    /\ totalRewards' = totalRewards + msg.reward
    /\ pc' = "lookup"
    /\ UNCHANGED <<challenges, earnings, contributionRows, balances, attender, mineSuccess,
                   msg, contributionId, restarts>>

BatchesWith(nonce) ==
    {i \in DOMAIN contributionRows : \E row \in contributionRows[i] : row.nonce = nonce}

FindContribution_OldestFirst ==
    /\ pc = "lookup"
    /\ \E i \in BatchesWith(msg.best) :
          /\ \A j \in BatchesWith(msg.best) : i <= j
          /\ contributionId' \in {row \in contributionRows[i] : row.nonce = msg.best}
    /\ pc' = "close"
    /\ UNCHANGED <<database, attender, mineSuccess, msg, restarts>>

\* get_contribution_id_with_nonce, repeated until there is a row: the newest one
\* with this nonce, of whatever challenge.  Within a batch any may be the newest.
FindContribution ==
    /\ pc = "lookup"
    /\ \E i \in BatchesWith(msg.best) :
          /\ \A j \in BatchesWith(msg.best) : j <= i
          /\ contributionId' \in {row \in contributionRows[i] : row.nonce = msg.best}
    /\ pc' = "close"
    /\ UNCHANGED <<database, attender, mineSuccess, msg, restarts>>

CloseChallenge_KeepsMessage ==
    /\ pc = "close"
    /\ pc' = "recv"
    /\ contributionId' = None
    /\ UNCHANGED <<database, attender, mineSuccess, msg, restarts>>

\* update_challenge_rewards: all rows of the challenge, or none if it fails.
CloseChallenge ==
    /\ pc = "close"
    /\ \/ challenges' = [i \in DOMAIN challenges |->
              IF i \in RowsOf(msg.challenge)
              THEN [challenges[i] EXCEPT !.contribution = contributionId]
              ELSE challenges[i]]
       \/ UNCHANGED challenges
    /\ pc' = "recv"
    /\ msg' = None
    /\ contributionId' = None
    /\ UNCHANGED <<earnings, contributionRows, balances, totalRewards, attender,
                   mineSuccess, restarts>>

Processor ==
    \/ Receive
    \/ AddEarnings
    \/ UpdateRewards
    \/ AddContributions
    \/ UpdatePoolRewards
    \/ FindContribution
    \/ CloseChallenge

-----------------------------------------------------------------------------
\* The server stops and is started again, with the proof of the chain.
Restart ==
    /\ restarts < MaxRestarts
    /\ restarts' = restarts + 1
    /\ attPc' = "startup"
    /\ oldChallenge' \in oldChallenge .. MaxChallenge
    /\ newChallenge' = 0
    /\ challengeId' = 0
    /\ unrecorded' = {}
    /\ mineSuccess' = <<>>
    /\ pc' = "recv"
    /\ msg' = None
    /\ contributionId' = None
    /\ UNCHANGED database

Attender == Start \/ AttNotified \/ MoveOn \/ AttRecord \/ AttOld \/ AttNew \/ AttSend

Next == Attender \/ Processor \/ Restart

\* The processor is polled; a database call that is repeated succeeds at last.
Spec == Init /\ [][Next]_vars /\ WF_vars(Processor)

-----------------------------------------------------------------------------
(* Properties *)

\* What is booked for a challenge refers to a row of that challenge, whatever
\* fails and whenever the server is stopped: the attender does not hand on a
\* message before it has seen the row (lines 641-695).
RowsReferred ==
    /\ \A i \in DOMAIN mineSuccess :
          mineSuccess[i].challengeId \in RowsOf(mineSuccess[i].challenge)
    /\ pc # "recv" => msg.challengeId \in RowsOf(msg.challenge)
    /\ \A i \in DOMAIN earnings : \A row \in earnings[i] :
          row.challengeId \in DOMAIN challenges

\* Nobody earns twice on one challenge, although calls are repeated, rows of a
\* challenge may be double and the server restarts between any two calls.
EarnedOnce ==
    \A i, j \in DOMAIN earnings : \A r \in earnings[i], s \in earnings[j] :
        /\ r.miner = s.miner
        /\ challenges[r.challengeId].challenge = challenges[s.challengeId].challenge
        => i = j

EarnedBy(m) ==
    MapThenSumSet(LAMBDA i : MapThenSumSet(LAMBDA row : row.amount,
                                 {row \in earnings[i] : row.miner = m}),
                  DOMAIN earnings)

\* Between messages the miners were not promised more than the pool received, by
\* either table, and whichever batches failed.  (Stopped in the middle of a
\* message the server forgets to add to the total.)
NeverOverpaid ==
    (pc = "recv" /\ restarts = 0) =>
        /\ MapThenSumSet(EarnedBy, Miner) <= totalRewards
        /\ MapThenSumSet(LAMBDA m : balances[m], Miner) <= totalRewards

\* With batches that do not fail nobody is paid what it did not earn, and the balance of
\* an enrolled miner is the sum of its earnings; a restart between the two batches leaves
\* it below.  (A miner without a row of rewards is never paid out what it earned.)
BalancesMatchEarnings ==
    /\ \A m \in Miner : balances[m] <= EarnedBy(m)
    /\ (pc # "rewards" /\ restarts = 0) =>
          \A m \in Enrolled : balances[m] = EarnedBy(m)

\* A challenge is attributed to a contribution to this very challenge: the nonce
\* is looked up over all of them, and nonces start over for each.
ClosedByOwnContribution ==
    \A i \in DOMAIN challenges :
        LET row == challenges[i].contribution
        IN row # None => challenges[row.challengeId].challenge = challenges[i].challenge

\* The processor gets through its messages.  It would wait for ever for a nonce
\* that no batch brought in, and not survive contributions without hash power.
QueueDrains == mineSuccess # <<>> ~> (mineSuccess = <<>> /\ pc = "recv")

\* "The challenge already exists, continuing" (line 682) expects the insertion
\* of a second row of a challenge to fail, as the prefix of its index says
\* ("uniq_: unique index", init.sql:24).
ChallengesUnique ==
    \A i, j \in DOMAIN challenges :
        challenges[i].challenge = challenges[j].challenge => i = j

=============================================================================
