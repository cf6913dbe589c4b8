------------------------------- MODULE Access -------------------------------
(***************************************************************************)
(* How clients get to the server and are lost: the logins of Enrollment    *)
(* and the connections that Connections makes of the admitted ones.        *)
(***************************************************************************)
EXTENDS Connections

vars == <<enrollmentVars, connectionVars>>

TypeOK ==
    /\ EnrollmentTypeOK
    /\ ConnectionsTypeOK
    /\ \A c \in Client : handlerPc[c] # "none" <=> loginPc[c] = "admitted"

Init == EnrollmentInit /\ ConnectionsInit

-----------------------------------------------------------------------------

\* Without a database a login begins with a request for the lock on app_state.
LogIn(c) ==
    /\ LoginStep(c)
    /\ IF loginPc'[c] = "connected" THEN Ask(<<"check", c>>) ELSE UNCHANGED lockQueue
    /\ UNCHANGED <<link, pongDue, handlerPc, sockets, pongs, reply, pingVars, trackVars,
                   history>>

LookForWallet(c) ==
    /\ Granted(<<"check", c>>)
    /\ CheckConnected(c, \E d \in sockets : Pubkey[d] = Pubkey[c])
    /\ UNCHANGED <<link, pongDue, handlerPc, sockets, pongs, reply, pingVars, trackVars,
                   history>>

\* on_upgrade: the answer is sent and handle_socket spawned.
Connect(c) == Admit(c) /\ Upgrade(c)

Replies == (\E c \in Client : Reply(c)) /\ UNCHANGED enrollmentVars

\* The other tasks of the server.
Tasks ==
    /\ \/ \E c \in Client : Handler(c) \/ PingSend(c) \/ (c \in Responsive /\ RecordPong(c))
       \/ PingLoop
       \/ Tracker
    /\ UNCHANGED enrollmentVars

Environment == (\E c \in Client : ClientStep(c) \/ RecordPong(c)) /\ UNCHANGED enrollmentVars

Time == Tick /\ UNCHANGED enrollmentVars

Next ==
    \/ \E c \in Client : LogIn(c) \/ LookForWallet(c) \/ Connect(c)
    \/ Tasks
    \/ Replies
    \/ Environment
    \/ Time

\* Every task is polled, and time does not stop.  Tasks taken together come to the same
\* as each of them: what is enabled is done before the next tick, and without a tick
\* only replies can go on for ever, so these are taken apart.  Nothing is assumed of
\* clients: they may stop reading for good, leave pings unanswered, or vanish; nor of
\* logins but that one whose turn it is at the lock takes it.
Fairness ==
    /\ WF_vars(Tasks)
    /\ WF_vars(Replies)
    /\ WF_vars(\E c \in Client : LookForWallet(c))
    /\ SF_vars(Time)

Spec == Init /\ [][Next]_vars /\ Fairness

-----------------------------------------------------------------------------
(* Properties *)

\* A connected client that reads and answers every ping is only taken out of the map if,
\* since the pong it is judged by, sends to other clients were blocked for longer
\* than the timeout leaves after the sleep between two rounds of pings.  The tracker
\* works on a copy of the pongs and waits for the lock between its entries, and a round
\* waits for all its pings; neither may cost such a client its connection otherwise.
ResponsiveKept ==
    [][\A c \in Responsive \cap sockets :
          link[c] = "open" /\ c \notin sockets' => PingPeriod + trackHeld[c] > PongTimeout]_vars

\* A reply keeps the read lock on app_state while its client does not read.
LockKept == \E c \in Client : reply[c] # "none" /\ Blocked(c)

\* Its connection has ended, or its peer was lost after the first pong.  (The tracker
\* does not know of one that was lost before; it stays until TCP gives up.)
Dead(c) == link[c] = "closed" \/ (link[c] = "lost" /\ pongs[c] # NoPong)

\* A dead connection is taken out of the map, unless a client that never reads on keeps
\* the lock.
DeadRemoved ==
    <>[]LockKept \/ \A c \in Client : (c \in sockets /\ Dead(c) ~> c \notin sockets)

\* Whoever asks for the lock on app_state gets it, although a reply keeps it while
\* it waits for a mutex, whose holder waits for a client: requests are served in
\* order, and either nobody waits, again and again, or there is always a next one.
\* The one exception is that this client never reads on.  Nothing else, no round of
\* pings, no tracker and no handler, can keep the lock from the others for ever.
EveryoneServed ==
    \/ <>[]LockKept
    \/ []<>(lockQueue = <<>>)
    \/ []<><<lockQueue # <<>> /\ lockQueue' = Tail(lockQueue)>>_vars

=============================================================================
