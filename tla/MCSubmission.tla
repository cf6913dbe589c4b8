---------------------------- MODULE MCSubmission ----------------------------
(***************************************************************************)
(* Few landings, attempts and checks: enough for a transaction to land at  *)
(* once, late or never, for an attender to give up, and for the next       *)
(* challenge to go through the same.                                       *)
(***************************************************************************)
EXTENDS Submission, TLC

CONSTANTS c1, c2, A, B

MCNoPubkey == [c \in {} |-> A]
MCPubkey == c1 :> A
MCTwoPubkeys == (c1 :> A) @@ (c2 :> B)

\* One solution per challenge.
MCSolution ==
    {[challenge |-> n, chunk |-> 0, difficulty |-> 1] : n \in Challenge}

=============================================================================
