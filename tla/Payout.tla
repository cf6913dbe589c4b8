------------------------------- MODULE Payout -------------------------------
(***************************************************************************)
(* What the submission side promises about rewards, as an abstract         *)
(* specification.  The pool's proof account goes through challenges 0, 1,  *)
(* 2, ...; the transaction that moves it from one to the next earns a      *)
(* reward.  The rewards earned between two states of the account may be    *)
(* handed to the miners only after they were earned, and only once.  They  *)
(* may also never be handed out.                                           *)
(***************************************************************************)
EXTENDS Naturals

CONSTANT MaxChallenge

VARIABLES
    earned,     \* the challenge the account is at: rewards 0..earned-1 exist
    paid        \* the pairs <<from, to>> whose difference was handed out

Init == earned = 0 /\ paid = {}

Earn ==
    /\ earned < MaxChallenge
    /\ earned' = earned + 1
    /\ UNCHANGED paid

\* The rewards between the states from and to of the account.
Disjoint(p, q) == p[2] <= q[1] \/ q[2] <= p[1]

Pay(from, to) ==
    /\ from < to
    /\ to <= earned
    /\ \A p \in paid : Disjoint(p, <<from, to>>)
    /\ paid' = paid \cup {<<from, to>>}
    /\ UNCHANGED earned

Next == Earn \/ \E from, to \in 0 .. MaxChallenge : Pay(from, to)

Spec == Init /\ [][Next]_<<earned, paid>>

=============================================================================
