----------------------------- MODULE Enrollment -----------------------------
(***************************************************************************)
(* ws_handler and ws_handler_v1 of main.rs up to the websocket upgrade:    *)
(* what a login does in the database before the connection is let in.      *)
(*                                                                         *)
(* Each login is a task; each call of database.rs is one transaction and   *)
(* one action.  A call may fail, in which case it changes nothing, and the *)
(* task may be dropped between two calls, because the client is gone.  The *)
(* pool's own row is there from startup on, which panics without it.  A    *)
(* server without a database only looks whether the wallet is connected.   *)
(***************************************************************************)
EXTENDS Naturals

CONSTANTS
    Client,         \* socket addresses, each of which logs in until it is admitted
    Miner,          \* wallets
    Pubkey,         \* the wallet a client logs in with
    MaxFailures     \* bound: database calls that fail and logins that are dropped

ASSUME EnrollmentAssumption ==
    /\ Pubkey \in [Client -> Miner]
    /\ MaxFailures \in Nat

VARIABLES
    dbms,           \* POWERED_BY_DBMS is Sqlite
    minerRows,      \* wallets with a row of miners: uniq_miners_pubkey
    rewardRows,     \* number of rows of rewards that each wallet has
    loginPc,        \* the call that each login makes next
    minerAdded,     \* add_miner_result.is_ok()
    failures        \* failed calls and dropped logins so far

enrollmentVars == <<dbms, minerRows, rewardRows, loginPc, minerAdded, failures>>

EnrollmentTypeOK ==
    /\ dbms \in BOOLEAN
    /\ minerRows \in SUBSET Miner
    /\ rewardRows \in [Miner -> Nat]
    /\ loginPc \in [Client -> {"out", "get", "add", "lookup", "pool", "reward", "connected",
                               "verify", "admitted"}]
    /\ minerAdded \in [Client -> BOOLEAN]
    /\ failures \in 0 .. MaxFailures
    /\ \A c \in Client : minerAdded[c] => loginPc[c] \in {"lookup", "pool", "reward"}

EnrollmentInit ==
    /\ dbms \in BOOLEAN
    /\ minerRows = {}
    /\ rewardRows = [m \in Miner |-> 0]
    /\ loginPc = [c \in Client |-> "out"]
    /\ minerAdded = [c \in Client |-> FALSE]
    /\ failures = 0

-----------------------------------------------------------------------------

Fails == failures < MaxFailures /\ failures' = failures + 1

Goto_KeepsResult(c, pc) ==
    /\ loginPc' = [loginPc EXCEPT ![c] = pc]
    /\ UNCHANGED minerAdded

Goto(c, pc) ==
    /\ loginPc' = [loginPc EXCEPT ![c] = pc]
    /\ minerAdded' = [minerAdded EXCEPT ![c] = FALSE]

\* A request with a recent timestamp and a wallet; any other has no effect.
Login(c) ==
    /\ loginPc[c] = "out"
    /\ Goto(c, IF dbms THEN "get" ELSE "connected")
    /\ UNCHANGED <<dbms, minerRows, rewardRows, failures>>

\* get_miner_by_pubkey_str does not tell a missing row from a failed query; only
\* without a database connection the request is refused.
GetMiner(c) ==
    /\ loginPc[c] = "get"
    /\ \/ Pubkey[c] \in minerRows /\ Goto(c, "verify") /\ UNCHANGED failures
       \/ Pubkey[c] \notin minerRows /\ Goto(c, "add") /\ UNCHANGED failures
       \/ \E pc \in {"add", "out"} : Goto(c, pc) /\ Fails
    /\ UNCHANGED <<dbms, minerRows, rewardRows>>

\* add_new_miner: the index admits one row for a wallet.  Its result is looked at
\* only much later.
AddMiner(c) ==
    /\ loginPc[c] = "add"
    /\ loginPc' = [loginPc EXCEPT ![c] = "lookup"]
    /\ \/ /\ Pubkey[c] \notin minerRows
          /\ minerRows' = minerRows \cup {Pubkey[c]}
          /\ minerAdded' = [minerAdded EXCEPT ![c] = TRUE]
          /\ UNCHANGED failures
       \/ /\ Pubkey[c] \in minerRows
          /\ UNCHANGED <<minerRows, minerAdded, failures>>
       \/ Fails /\ UNCHANGED <<minerRows, minerAdded>>
    /\ UNCHANGED <<dbms, rewardRows>>

\* The row is fetched again, and unwrapped: without it the handler panics.
LookupAdded(c) ==
    /\ loginPc[c] = "lookup"
    /\ \/ /\ Pubkey[c] \in minerRows
          /\ loginPc' = [loginPc EXCEPT ![c] = "pool"]
          /\ UNCHANGED <<minerAdded, failures>>
       \/ Pubkey[c] \notin minerRows /\ Goto(c, "out") /\ UNCHANGED failures
       \/ Goto(c, "out") /\ Fails
    /\ UNCHANGED <<dbms, minerRows, rewardRows>>

GetPool_RewardForAnyone(c) ==
    /\ loginPc[c] = "pool"
    /\ \/ loginPc' = [loginPc EXCEPT ![c] = "reward"] /\ UNCHANGED <<minerAdded, failures>>
       \/ Goto(c, "out") /\ Fails
    /\ UNCHANGED <<dbms, minerRows, rewardRows>>

GetPool_RewardForNewPool(c) ==
    /\ loginPc[c] = "pool"
    /\ Goto(c, "verify")
    /\ UNCHANGED <<dbms, minerRows, rewardRows, failures>>

\* The pool's row is found, and a reward row follows for the login that inserted
\* the miner; the others are refused.  When the query fails, so does the insertion
\* of a second row for the pool (uniq_pools_proof_pubkey), and the login with it.
GetPool(c) ==
    /\ loginPc[c] = "pool"
    /\ \/ /\ minerAdded[c]
          /\ loginPc' = [loginPc EXCEPT ![c] = "reward"]
          /\ UNCHANGED <<minerAdded, failures>>
       \/ ~minerAdded[c] /\ Goto(c, "out") /\ UNCHANGED failures
       \/ Goto(c, "out") /\ Fails
    /\ UNCHANGED <<dbms, minerRows, rewardRows>>

\* add_new_reward: nothing in the table keeps a miner from having two rows.
AddReward(c) ==
    /\ loginPc[c] = "reward"
    /\ \/ /\ rewardRows' = [rewardRows EXCEPT ![Pubkey[c]] = @ + 1]
          /\ Goto(c, "verify")
          /\ UNCHANGED failures
       \/ Goto(c, "out") /\ Fails /\ UNCHANGED rewardRows
    /\ UNCHANGED <<dbms, minerRows>>

\* Without a database: "A client is already connected with that wallet".  The
\* answer is used after the lock on the sockets was released.
CheckConnected(c, connected) ==
    /\ loginPc[c] = "connected"
    /\ \/ connected /\ Goto(c, "out")
       \/ ~connected /\ Goto(c, "verify")
    /\ UNCHANGED <<dbms, minerRows, rewardRows, failures>>

\* The signature is right, and the operator has not disabled the miner.
Admit(c) ==
    /\ loginPc[c] = "verify"
    /\ Goto(c, "admitted")
    /\ UNCHANGED <<dbms, minerRows, rewardRows, failures>>

Refuse(c) ==
    /\ loginPc[c] = "verify"
    /\ Goto(c, "out")
    /\ UNCHANGED <<dbms, minerRows, rewardRows, failures>>

\* The client hangs up, and its task is dropped where it waits.  A call under way
\* runs to its end: it is a step that was made before.
Drop(c) ==
    /\ loginPc[c] \in {"get", "add", "lookup", "pool", "reward"}
    /\ Goto(c, "out")
    /\ Fails
    /\ UNCHANGED <<dbms, minerRows, rewardRows>>

\* The steps that only concern the database and the login itself.
LoginStep(c) ==
    \/ Login(c)
    \/ GetMiner(c)
    \/ AddMiner(c)
    \/ LookupAdded(c)
    \/ GetPool(c)
    \/ AddReward(c)
    \/ Refuse(c)
    \/ Drop(c)

EnrollmentNext ==
    \E c \in Client :
        \/ LoginStep(c)
        \/ Admit(c)
        \/ \E connected \in BOOLEAN : CheckConnected(c, connected)

EnrollmentSpec == EnrollmentInit /\ [][EnrollmentNext]_enrollmentVars

-----------------------------------------------------------------------------
(* Properties *)

\* A login that inserted its miner and has yet to insert the reward row.
Enrolling(c) == minerAdded[c] /\ loginPc[c] \in {"lookup", "pool", "reward"}

\* update_rewards adds a reward to every row of a miner: with two rows it would be
\* counted twice.  Logins of one wallet at the same time, calls that fail and tasks
\* that are dropped leave at most one, although no index forbids it.
RewardRowsUnique == \A m \in Miner : rewardRows[m] <= 1

\* A miner that is let in can be credited: its reward row is there or under way,
\* unless a call failed or a login was dropped.  (Then it may never get one.)
AdmittedHasReward ==
    dbms /\ failures = 0 =>
        \A c \in Client : loginPc[c] = "admitted" =>
            \/ rewardRows[Pubkey[c]] > 0
            \/ \E d \in Client : Pubkey[d] = Pubkey[c] /\ Enrolling(d)

=============================================================================
