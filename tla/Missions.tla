------------------------------ MODULE Missions ------------------------------
(***************************************************************************)
(* ready_clients_processor.rs: hands every ready client a challenge and a  *)
(* range of nonces.                                                        *)
(*                                                                         *)
(* Each pass copies the set of ready clients, looks at PAUSED once, asks   *)
(* for the cutoff, and then serves the copied clients one by one.  Every   *)
(* mission is sent by a task of its own, which records the nonce range     *)
(* after the message is out.  A client that registers while the pass runs  *)
(* waits for the next one.                                                 *)
(***************************************************************************)
EXTENDS EpochHashes, ProofAccount

CONSTANTS
    Client,     \* socket addresses of client connections
    Pubkey,     \* the wallet a connection authenticated with
    MaxNonce,   \* bound: chunks handed out between two resets
    NoRange,    \* no entry in client_nonce_ranges
    NoMission   \* a client that has nothing to mine

VARIABLES
    appNonce,       \* app_nonce, in chunks of 4_000_000
    paused,         \* PAUSED
    sockets,        \* keys of shared_state.sockets
    nonceRanges,    \* client_nonce_ranges
    ready,          \* ready_clients
    rcPc,           \* where the processor is
    rcClients,      \* its clients, less those already served
    rcProof,        \* the proof it computes the cutoff for
    rcChallenge,    \* the challenge it sends out
    rcServed,       \* the client it serves
    sends,          \* the spawned tasks that send missions
    mission,        \* what each client was last told to mine
    session         \* what each client is up to

rcVars == <<rcPc, rcClients, rcProof, rcChallenge, rcServed>>
clientVars == <<mission, session>>
missionVars == <<ready, rcVars, sends, clientVars>>

Chunk == 0 .. MaxNonce
Mission == [challenge : Challenge, chunk : Chunk]

MissionsTypeOK ==
    /\ appNonce \in Chunk
    /\ nonceRanges \in [Miner -> Chunk \cup {NoRange}]
    /\ ready \in SUBSET Client
    /\ rcPc \in {"ready", "paused", "proof", "cutoff", "best", "challenge",
                 "issue", "remove"}
    /\ rcClients \in SUBSET Client
    /\ rcProof \in Challenge
    /\ rcChallenge \in Challenge
    /\ rcServed \in Client
    /\ sends \in SUBSET [client : Client, mission : Mission, sent : BOOLEAN]
    /\ mission \in [Client -> Mission \cup {NoMission}]
    /\ session \in [Client -> {"new", "connected", "ready", "gone"}]

MissionsInit ==
    /\ appNonce = 0
    /\ nonceRanges = [m \in Miner |-> NoRange]
    /\ ready = {}
    /\ rcPc = "ready"
    /\ rcClients = {}
    /\ rcProof = 0
    /\ rcChallenge = 0
    /\ rcServed \in Client
    /\ sends = {}
    /\ mission = [c \in Client |-> NoMission]
    /\ session = [c \in Client |-> "new"]

unchangedServer == <<accountVars, epochHashes, paused, sockets>>

-----------------------------------------------------------------------------
(* Clients *)

\* A connection is entered into the sockets map (handle_socket).
Connect(c) ==
    /\ session[c] = "new"
    /\ sockets' = sockets \cup {c}
    /\ session' = [session EXCEPT ![c] = "connected"]
    /\ UNCHANGED <<accountVars, epochHashes, paused, appNonce, nonceRanges, ready, rcVars,
                   sends, mission>>

Disconnect_DropsRange(c) ==
    /\ c \in sockets
    /\ sockets' = sockets \ {c}
    /\ nonceRanges' = [nonceRanges EXCEPT ![Pubkey[c]] = NoRange]
    /\ session' = [session EXCEPT ![c] = "gone"]
    /\ mission' = [mission EXCEPT ![c] = NoMission]
    /\ UNCHANGED <<accountVars, epochHashes, paused, appNonce, ready, rcVars, sends>>

\* It is closed and taken out again; its entry among the ready clients stays.
Disconnect(c) ==
    /\ c \in sockets
    /\ sockets' = sockets \ {c}
    /\ session' = [session EXCEPT ![c] = "gone"]
    /\ mission' = [mission EXCEPT ![c] = NoMission]
    /\ UNCHANGED <<accountVars, epochHashes, paused, appNonce, nonceRanges, ready, rcVars,
                   sends>>

\* The client is done with its mission, or has none, and its Ready message has
\* reached the task that registers it.
Register(c) ==
    /\ session[c] = "connected"
    /\ ready' = ready \cup {c}
    /\ session' = [session EXCEPT ![c] = "ready"]
    /\ mission' = [mission EXCEPT ![c] = NoMission]
    /\ UNCHANGED <<unchangedServer, appNonce, nonceRanges, rcVars, sends>>

ClientStep(c) == Connect(c) \/ Disconnect(c) \/ Register(c)

-----------------------------------------------------------------------------
(* The processor *)

RcReady_RestartsNonce ==
    /\ rcPc = "ready"
    /\ rcClients' = ready
    /\ rcPc' = "paused"
    /\ appNonce' = 0
    /\ UNCHANGED <<unchangedServer, nonceRanges, ready, rcProof, rcChallenge, rcServed,
                   sends, clientVars>>

RcReady ==
    /\ rcPc = "ready"
    /\ rcClients' = ready
    /\ rcPc' = "paused"
    /\ UNCHANGED <<unchangedServer, appNonce, nonceRanges, ready, rcProof, rcChallenge,
                   rcServed, sends, clientVars>>

\* The pass is over; its local variables go back to their initial values.
PassEnds ==
    /\ rcPc' = "ready"
    /\ rcClients' = {}
    /\ rcProof' = 0
    /\ rcChallenge' = 0

\* PAUSED is looked at here, and not again when the missions go out.
RcPaused ==
    /\ rcPc = "paused"
    /\ IF ~paused /\ rcClients # {}
       THEN rcPc' = "proof" /\ UNCHANGED <<rcClients, rcProof, rcChallenge>>
       ELSE PassEnds
    /\ UNCHANGED <<unchangedServer, appNonce, nonceRanges, ready, rcServed, sends,
                   clientVars>>

RcProof ==
    /\ rcPc = "proof"
    /\ rcProof' = proof
    /\ rcPc' = "cutoff"
    /\ UNCHANGED <<unchangedServer, appNonce, nonceRanges, ready, rcClients, rcChallenge,
                   rcServed, sends, clientVars>>

RcCutoff ==
    /\ rcPc = "cutoff"
    /\ rcPc' = IF Cutoff(rcProof) = "mining" THEN "challenge" ELSE "best"
    /\ UNCHANGED <<unchangedServer, appNonce, nonceRanges, ready, rcClients, rcProof,
                   rcChallenge, rcServed, sends, clientVars>>

\* Past the cutoff clients mine on only as long as there is nothing to submit.
RcBest ==
    /\ rcPc = "best"
    /\ IF bestHash.solution = NoSolution
       THEN rcPc' = "challenge" /\ UNCHANGED <<rcClients, rcProof, rcChallenge>>
       ELSE PassEnds
    /\ UNCHANGED <<unchangedServer, appNonce, nonceRanges, ready, rcServed, sends,
                   clientVars>>

RcChallenge ==
    /\ rcPc = "challenge"
    /\ rcChallenge' = proof
    /\ rcProof' = 0
    /\ rcPc' = "issue"
    /\ UNCHANGED <<unchangedServer, appNonce, nonceRanges, ready, rcClients, rcServed,
                   sends, clientVars>>

\* The next chunk is taken, whether or not the client is still connected.
RcIssue(c) ==
    /\ rcPc = "issue"
    /\ c \in rcClients
    /\ appNonce < MaxNonce
    /\ appNonce' = appNonce + 1
    /\ sends' = IF c \in sockets
                THEN sends \cup {[client |-> c, sent |-> FALSE,
                                  mission |-> [challenge |-> rcChallenge,
                                               chunk |-> appNonce]]}
                ELSE sends
    /\ rcServed' = c
    /\ rcPc' = "remove"
    /\ UNCHANGED <<unchangedServer, nonceRanges, ready, rcClients, rcProof, rcChallenge,
                   clientVars>>

RcRemove ==
    /\ rcPc = "remove"
    /\ ready' = ready \ {rcServed}
    /\ IF rcClients = {rcServed}
       THEN PassEnds
       ELSE /\ rcClients' = rcClients \ {rcServed}
            /\ rcPc' = "issue"
            /\ UNCHANGED <<rcProof, rcChallenge>>
    /\ UNCHANGED <<unchangedServer, appNonce, nonceRanges, rcServed, sends, clientVars>>

Dispatch ==
    \/ RcReady
    \/ RcPaused
    \/ RcProof
    \/ RcCutoff
    \/ RcBest
    \/ RcChallenge
    \/ \E c \in Client : RcIssue(c)
    \/ RcRemove

-----------------------------------------------------------------------------
(* A spawned task *)

\* The message reaches the client if it is still there.
SendMission(x) ==
    /\ ~x.sent
    /\ sends' = (sends \ {x}) \cup {[x EXCEPT !.sent = TRUE]}
    /\ mission' = IF x.client \in sockets
                  THEN [mission EXCEPT ![x.client] = x.mission]
                  ELSE mission
    /\ session' = IF x.client \in sockets
                  THEN [session EXCEPT ![x.client] = "connected"]
                  ELSE session
    /\ UNCHANGED <<unchangedServer, appNonce, nonceRanges, ready, rcVars>>

\* Only then are the client's nonces let in, under its pubkey.
RecordRange(x) ==
    /\ x.sent
    /\ sends' = sends \ {x}
    /\ nonceRanges' = [nonceRanges EXCEPT ![Pubkey[x.client]] = x.mission.chunk]
    /\ UNCHANGED <<unchangedServer, appNonce, ready, rcVars, clientVars>>

SendStep(x) == SendMission(x) \/ RecordRange(x)

=============================================================================
