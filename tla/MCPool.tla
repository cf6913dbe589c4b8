------------------------------- MODULE MCPool -------------------------------
EXTENDS Pool, TLC

CONSTANTS c1, A, t1

MCPubkey == c1 :> A
MCFrom == t1 :> c1

\* Two solutions of the challenge that lands, one of which is better, and one of the next
\* challenge.
MCEasy == [challenge |-> 0, chunk |-> 0, difficulty |-> 1]
MCHard == [challenge |-> 0, chunk |-> 0, difficulty |-> 2]
MCNext == [challenge |-> 1, chunk |-> 0, difficulty |-> 1]

MCSolution == {MCEasy, MCHard, MCNext}

\* The second challenge is followed until its first solution is taken to be submitted: it
\* does not land, for there is no third.  The better solution is followed where it comes
\* after the transaction with the other has landed.
Followed ==
    /\ bestSolution # MCNext
    /\ MCHard \in {taskSol[t1], contributions[A]} =>
          bestSolution = MCEasy /\ (tx = "landed" \/ subPc = "await")

=============================================================================
