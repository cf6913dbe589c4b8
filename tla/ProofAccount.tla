---------------------------- MODULE ProofAccount ----------------------------
(***************************************************************************)
(* The pool's proof account on the chain and the server's copy of it.      *)
(*                                                                         *)
(* Only the pool's own mine transaction moves the account to its next      *)
(* challenge, so its states are numbered by their challenges; the balance  *)
(* and last_hash_at of a state are functions of that number.               *)
(*                                                                         *)
(* app_proof, the server's copy, is written by proof_tracking_processor.rs *)
(* from the account notifications of a websocket subscription, and by the  *)
(* submission code from RPC answers.                                       *)
(***************************************************************************)
EXTENDS Naturals, Sequences

CONSTANT MaxChallenge   \* bound: landings that are followed
ASSUME MaxChallengeAssumption == MaxChallenge \in Nat

Challenge == 0 .. MaxChallenge

VARIABLES
    chain,      \* the challenge of the account on the chain
    clock,      \* time since the chain's last_hash_at, as get_cutoff sees it
    rpcView,    \* the challenge the RPC node answers with
    notices,    \* account notifications under way, oldest first
    proof       \* app_proof

chainVars == <<chain, clock, rpcView, notices>>
accountVars == <<chainVars, proof>>

AccountTypeOK ==
    /\ chain \in Challenge
    /\ clock \in {"mining", "buffer", "overdue"}
    /\ rpcView \in Challenge
    /\ notices \in Seq(Challenge)
    /\ proof \in Challenge

AccountInit ==
    /\ chain = 0
    /\ clock = "mining"
    /\ rpcView = 0
    /\ notices = <<>>
    /\ proof = 0

\* get_cutoff for a copy p of the account: seconds to the cutoff are left, the
\* buffer time after it is running, or it has passed too.  A copy the chain has
\* moved on from is at least a minute old.
Cutoff(p) == IF p < chain THEN "overdue" ELSE clock

\* A mine transaction lands: the account moves on, subscribers are notified.  The
\* program on the chain refuses hashes that come well before the minute is over.
Advance ==
    /\ chain < MaxChallenge
    /\ clock # "mining"
    /\ chain' = chain + 1
    /\ clock' = "mining"
    /\ notices' = Append(notices, chain + 1)
    /\ UNCHANGED rpcView

RpcCatchUp ==
    /\ rpcView # chain
    /\ rpcView' = chain
    /\ UNCHANGED <<chain, clock, notices, proof>>

\* The best part of a minute is long: before it is over the RPC node knows of
\* the last landing, and the notification of it has arrived or is lost.
Tick ==
    /\ \/ /\ clock = "mining"
          /\ rpcView = chain
          /\ notices = <<>>
          /\ clock' = "buffer"
       \/ /\ clock = "buffer"
          /\ clock' = "overdue"
    /\ UNCHANGED <<chain, rpcView, notices, proof>>

\* proof_tracking_processor: a notification overwrites app_proof.
Notify ==
    /\ notices # <<>>
    /\ proof' = Head(notices)
    /\ notices' = Tail(notices)
    /\ UNCHANGED <<chain, clock, rpcView>>

\* The subscription breaks and is set up again: what was under way is lost.
Resubscribe ==
    /\ notices # <<>>
    /\ notices' = <<>>
    /\ UNCHANGED <<chain, clock, rpcView, proof>>

AccountStep == RpcCatchUp \/ Tick \/ Notify \/ Resubscribe

=============================================================================
