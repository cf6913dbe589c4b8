------------------------------ MODULE MCAccess ------------------------------
(***************************************************************************)
(* A client that can be relied on and one that cannot, of one wallet.  The *)
(* first may be lost without a trace; the other may stop reading, for good *)
(* or for a while, and close its connection.                               *)
(***************************************************************************)
EXTENDS Access

CONSTANTS Good, Bad, W

\* With a database, only logins are followed: connections do not touch it, and
\* those without a database are in no way different.  (A login may take its time
\* after the wallet was looked for, so both clients can be connected.)
Followed ==
    /\ dbms => \A c \in Client : handlerPc[c] \in {"none", "ping"}
    /\ link[Good] # "closed"
    /\ link[Bad] # "lost"

MCPubkey == [c \in {Good, Bad} |-> W]
=============================================================================
