------------------------------ MODULE MCIntake ------------------------------
(***************************************************************************)
(* Two connections with one task slot each, two challenges, two nonce      *)
(* ranges.  The connections belong to two wallets (Serial), or to one: with *)
(* a database the server lets a wallet connect as often as it likes.       *)
(***************************************************************************)
EXTENDS Intake, TLC

CONSTANTS c1, c2, A, B

MCTwoWallets == (c1 :> A) @@ (c2 :> B)
MCOneWallet == (c1 :> A) @@ (c2 :> A)

\* Task slots are the connections themselves.
MCFrom == (c1 :> c1) @@ (c2 :> c2)

\* A solution that is too easy, two that qualify for the same challenge, one of
\* them in another chunk, and one for the next challenge.
MCSolution ==
    {[challenge |-> 1, chunk |-> 0, difficulty |-> 1],
     [challenge |-> 1, chunk |-> 0, difficulty |-> 2],
     [challenge |-> 1, chunk |-> 1, difficulty |-> 3],
     [challenge |-> 2, chunk |-> 1, difficulty |-> 2]}

=============================================================================
