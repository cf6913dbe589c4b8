---------------------------- MODULE Connections -----------------------------
(***************************************************************************)
(* The websocket connections: handle_socket of main.rs from the upgrade    *)
(* on, ping_check_processor.rs, pong_tracking_processor.rs, and the reply  *)
(* to an invalid solution of client_message_processor.rs.                  *)
(*                                                                         *)
(* They meet at three locks.  app_state, a fair RwLock around the map of   *)
(* sockets, serves requests in the order of lockQueue.  Most sections are  *)
(* one step at the head of the queue; the reply alone keeps its read lock  *)
(* while it waits for the client's socket.  A socket's mutex is held while *)
(* a message is sent, however long that takes.  app_pongs is never held    *)
(* across a wait.                                                          *)
(*                                                                         *)
(* Time passes in ticks of 15 seconds.  What a task can do without waiting *)
(* is done before the next tick.  A client is identified with its address, *)
(* which is not used again after its connection has ended.                 *)
(***************************************************************************)
EXTENDS Enrollment, Sequences

CONSTANTS
    Responsive,     \* clients that read and answer pings at once while they are connected
    PingPeriod,     \* ticks between two rounds of pings: 2, 30 seconds
    PongPeriod,     \* ticks between two passes of the tracker: 3, 45 seconds
    PongTimeout,    \* age in ticks above which a pong is too old: 3
    NoPong,         \* no entry in app_pongs
    Nobody          \* no client

ASSUME ConnectionsAssumption ==
    /\ Responsive \subseteq Client
    /\ {PingPeriod, PongPeriod} \subseteq Nat \ {0}
    /\ PongTimeout \in Nat
    /\ NoPong \notin Nat
    /\ Nobody \notin Client

VARIABLES
    link,           \* the state of the TCP connection
    pongDue,        \* clients whose pong is on its way or yet to be processed
    handlerPc,      \* where each handle_socket is
    sockets,        \* keys of shared_state.sockets
    lockQueue,      \* tasks that wait for app_state
    pongs,          \* app_pongs: ticks since the last pong
    reply,          \* the task that answers an invalid solution of each client
    pingTask,       \* the spawned tasks of a round of pings
    pingTarget,     \* the client whose task the round waits for, or removes
    pingTimer,      \* the sleep of the ping loop
    trackPongs,     \* the tracker's copy of app_pongs, less the entries already seen
    trackTarget,    \* the client it removes
    trackTimer,     \* its sleep
    held,           \* history: in how many of the ticks in pongs a send was blocked
    trackHeld       \* history: and in how many of those in trackPongs

handlerVars == <<pongDue, handlerPc, sockets, lockQueue>>
pingVars == <<pingTask, pingTarget, pingTimer>>
trackVars == <<trackPongs, trackTarget, trackTimer>>
history == <<held, trackHeld>>
connectionVars == <<link, handlerVars, pongs, reply, pingVars, trackVars, history>>

\* Ages above the timeout are all alike.
Age == 0 .. PongTimeout + 1
Pong == Age \cup {NoPong}

\* The sections of app_state, by the task that asks for it: the others read.
Request == ({"enter", "leave", "reply", "check", "failed", "silent"} \X Client)
           \cup {<<"round", Nobody>>}
Writes(r) == r[1] \in {"enter", "leave", "failed", "silent"}

Queued(r) == \E i \in DOMAIN lockQueue : lockQueue[i] = r

ConnectionsTypeOK ==
    /\ link \in [Client -> {"open", "stalled", "lost", "closed"}]
    /\ pongDue \in SUBSET Client
    /\ handlerPc \in [Client -> {"none", "ping", "enter", "read", "leave", "gone"}]
    /\ sockets \in SUBSET Client
    /\ lockQueue \in Seq(Request)
    /\ pongs \in [Client -> Pong]
    /\ reply \in [Client -> {"none", "locked", "sending"}]
    /\ pingTask \in [Client -> {"none", "waiting", "sending", "ok", "failed"}]
    /\ pingTarget \in Client \cup {Nobody}
    /\ pingTimer \in 0 .. PingPeriod
    /\ trackPongs \in [Client -> Pong]
    /\ trackTarget \in Client \cup {Nobody}
    /\ trackTimer \in 0 .. PongPeriod
    /\ held \in [Client -> Age]
    /\ trackHeld \in [Client -> Age]
    \* Nobody asks twice, and handlers are where their requests say.
    /\ \A i, j \in DOMAIN lockQueue : lockQueue[i] = lockQueue[j] => i = j
    /\ \A c \in Client : handlerPc[c] = "enter" <=> Queued(<<"enter", c>>)
    /\ \A c \in Client : handlerPc[c] = "leave" <=> Queued(<<"leave", c>>)

ConnectionsInit ==
    /\ link = [c \in Client |-> "open"]
    /\ pongDue = {}
    /\ handlerPc = [c \in Client |-> "none"]
    /\ sockets = {}
    /\ lockQueue = <<>>
    /\ pongs = [c \in Client |-> NoPong]
    /\ reply = [c \in Client |-> "none"]
    /\ pingTask = [c \in Client |-> "none"]
    /\ pingTarget = Nobody
    /\ pingTimer = 0
    /\ trackPongs = [c \in Client |-> NoPong]
    /\ trackTarget = Nobody
    /\ trackTimer = 0
    /\ held = [c \in Client |-> 0]
    /\ trackHeld = [c \in Client |-> 0]

-----------------------------------------------------------------------------
(* Locks and links *)

Ask(r) == lockQueue' = Append(lockQueue, r)

Readers == {c \in Client : reply[c] # "none"}

\* r gets the lock on app_state and is gone from the queue.  The sections that
\* are one step give it back at once.
Granted(r) ==
    /\ lockQueue # <<>>
    /\ Head(lockQueue) = r
    /\ Writes(r) => Readers = {}
    /\ lockQueue' = Tail(lockQueue)

MutexFree_KeptUntilRemoved(c) ==
    pingTask[c] \notin {"sending", "failed"} /\ reply[c] # "sending"

\* Nobody is sending to c.
MutexFree(c) == pingTask[c] # "sending" /\ reply[c] # "sending"

\* A send waits for a client that does not read; on a closed connection it fails,
\* to a lost peer it seems to succeed.
Blocked(c) == link[c] = "stalled"
SendOk(c) == link[c] \in {"open", "lost"}
SendFails(c) == link[c] = "closed"

\* A live client answers a ping.
Pinged(c) == pongDue' = IF link[c] = "open" THEN pongDue \cup {c} ELSE pongDue

-----------------------------------------------------------------------------
(* handle_socket *)

handlerFrame == UNCHANGED <<link, pongs, reply, pingVars, trackVars, history>>

HandlerGoto(c, pc) == handlerPc' = [handlerPc EXCEPT ![c] = pc]

Upgrade(c) ==
    /\ handlerPc[c] = "none"
    /\ HandlerGoto(c, "ping")
    /\ handlerFrame
    /\ UNCHANGED <<pongDue, sockets, lockQueue>>

\* A client that cannot be pinged is not entered.
FirstPing(c) ==
    /\ handlerPc[c] = "ping"
    /\ \/ SendOk(c) /\ Pinged(c) /\ HandlerGoto(c, "enter") /\ Ask(<<"enter", c>>)
       \/ SendFails(c) /\ HandlerGoto(c, "gone") /\ UNCHANGED <<pongDue, lockQueue>>
    /\ handlerFrame
    /\ UNCHANGED sockets

Enter(c) ==
    /\ Granted(<<"enter", c>>)
    /\ sockets' = sockets \cup {c}
    /\ HandlerGoto(c, "read")
    /\ handlerFrame
    /\ UNCHANGED pongDue

\* The stream ends: Close, or the receiver gets None.
ReadEnd(c) ==
    /\ handlerPc[c] = "read"
    /\ link[c] = "closed"
    /\ HandlerGoto(c, "leave")
    /\ Ask(<<"leave", c>>)
    /\ handlerFrame
    /\ UNCHANGED <<pongDue, sockets>>

Leave(c) ==
    /\ Granted(<<"leave", c>>)
    /\ sockets' = sockets \ {c}
    /\ HandlerGoto(c, "gone")
    /\ pongDue' = pongDue \ {c}
    /\ handlerFrame

-----------------------------------------------------------------------------
(* The client message processor *)

messageFrame == UNCHANGED <<link, handlerPc, sockets, pingVars, trackVars, trackHeld>>

RecordPong_KeepsFirst(c) ==
    /\ c \in pongDue
    /\ handlerPc[c] \in {"read", "leave"}
    /\ pongDue' = pongDue \ {c}
    /\ pongs' = [pongs EXCEPT ![c] = IF @ = NoPong THEN 0 ELSE @]
    /\ messageFrame
    /\ UNCHANGED <<lockQueue, reply, held>>

\* A pong is read and comes through the channel.  It is recorded whether or not
\* the connection is still in the map.
RecordPong(c) ==
    /\ c \in pongDue
    /\ handlerPc[c] \in {"read", "leave"}
    /\ pongDue' = pongDue \ {c}
    /\ pongs' = [pongs EXCEPT ![c] = 0]
    /\ held' = [held EXCEPT ![c] = 0]
    /\ messageFrame
    /\ UNCHANGED <<lockQueue, reply>>

\* An invalid solution is to be answered, one at a time.  (The reply to a client
\* that reads at once is over at once.)
Invalid(c) ==
    /\ c \notin Responsive
    /\ handlerPc[c] = "read"
    /\ link[c] = "open"
    /\ \A d \in Client : reply[d] = "none" /\ ~Queued(<<"reply", d>>)
    /\ Ask(<<"reply", c>>)
    /\ messageFrame
    /\ UNCHANGED <<pongDue, pongs, reply, held>>

\* A reply that is still connected keeps the read lock until it is sent: at once,
\* or after it has waited for the socket's mutex, or for the client.
Replying(c) == IF ~MutexFree(c) THEN "locked" ELSE IF Blocked(c) THEN "sending" ELSE "none"

ReplyLock(c) ==
    /\ Granted(<<"reply", c>>)
    /\ reply' = [reply EXCEPT ![c] = IF c \in sockets THEN Replying(c) ELSE "none"]
    /\ messageFrame
    /\ UNCHANGED <<pongDue, pongs, held>>

\* When it is sent, or the send has failed, both locks are released.
ReplySend(c) ==
    /\ \/ /\ reply[c] = "locked"
          /\ MutexFree(c)
          /\ reply' = [reply EXCEPT ![c] = Replying(c)]
       \/ /\ reply[c] = "sending"
          /\ ~Blocked(c)
          /\ reply' = [reply EXCEPT ![c] = "none"]
    /\ messageFrame
    /\ UNCHANGED <<pongDue, pongs, lockQueue, held>>

-----------------------------------------------------------------------------
(* The ping loop *)

pingFrame == UNCHANGED <<link, handlerPc, pongs, reply, trackVars, history>>

PingWake ==
    /\ pingTarget = Nobody
    /\ pingTimer = 0
    /\ ~Queued(<<"round", Nobody>>)
    /\ Ask(<<"round", Nobody>>)
    /\ pingFrame
    /\ UNCHANGED <<pongDue, sockets, pingVars>>

\* The round waits for one of the tasks after the other, in the arbitrary order of
\* a HashMap.  When there are no more, it sleeps.
PingNext(tasks) ==
    /\ pingTask' = tasks
    /\ \/ \E c \in Client : tasks[c] # "none" /\ pingTarget' = c /\ pingTimer' = 0
       \/ /\ \A c \in Client : tasks[c] = "none"
          /\ pingTarget' = Nobody
          /\ pingTimer' = PingPeriod

\* The sockets are copied and a task is spawned for each.
PingRound ==
    /\ Granted(<<"round", Nobody>>)
    /\ PingNext([c \in Client |-> IF c \in sockets THEN "waiting" ELSE "none"])
    /\ pingFrame
    /\ UNCHANGED <<pongDue, sockets>>

PingHasMutex(c) == pingTask[c] = "sending" \/ (pingTask[c] = "waiting" /\ MutexFree(c))

\* A task takes the socket's mutex and keeps it until its ping is sent.
PingSend(c) ==
    /\ PingHasMutex(c)
    /\ \/ /\ Blocked(c) /\ pingTask[c] = "waiting"
          /\ pingTask' = [pingTask EXCEPT ![c] = "sending"]
          /\ UNCHANGED pongDue
       \/ SendOk(c) /\ Pinged(c) /\ pingTask' = [pingTask EXCEPT ![c] = "ok"]
       \/ SendFails(c) /\ pingTask' = [pingTask EXCEPT ![c] = "failed"] /\ UNCHANGED pongDue
    /\ pingFrame
    /\ UNCHANGED <<sockets, lockQueue, pingTarget, pingTimer>>

\* Where the ping failed, the round removes the socket before it goes on.
PingResult ==
    /\ pingTarget # Nobody
    /\ \/ /\ pingTask[pingTarget] = "ok"
          /\ PingNext([pingTask EXCEPT ![pingTarget] = "none"])
          /\ UNCHANGED lockQueue
       \/ /\ pingTask[pingTarget] = "failed"
          /\ ~Queued(<<"failed", pingTarget>>)
          /\ Ask(<<"failed", pingTarget>>)
          /\ UNCHANGED pingVars
    /\ pingFrame
    /\ UNCHANGED <<pongDue, sockets>>

PingFailed(c) ==
    /\ Granted(<<"failed", c>>)
    /\ sockets' = sockets \ {c}
    /\ PingNext([pingTask EXCEPT ![c] = "none"])
    /\ pingFrame
    /\ UNCHANGED pongDue

-----------------------------------------------------------------------------
(* The pong tracker *)

trackFrame == UNCHANGED <<link, pongDue, handlerPc, reply, pingVars>>

\* The rest of the pass, at whose end the tracker sleeps.
TrackNext(entries, target) ==
    /\ trackPongs' = entries
    /\ trackTarget' = target
    /\ trackTimer' = IF target = Nobody /\ \A c \in Client : entries[c] = NoPong
                     THEN PongPeriod ELSE 0

TrackIdle == trackTarget = Nobody /\ \A c \in Client : trackPongs[c] = NoPong

TrackPass ==
    /\ TrackIdle
    /\ trackTimer = 0
    /\ TrackNext(pongs, Nobody)
    /\ trackHeld' = held
    /\ trackFrame
    /\ UNCHANGED <<pongs, sockets, lockQueue, held>>

\* The age is looked at now, of the pong that was copied.
TrackEntry(c) ==
    /\ trackTarget = Nobody
    /\ trackPongs[c] # NoPong
    /\ LET rest == [trackPongs EXCEPT ![c] = NoPong]
       IN \/ /\ trackPongs[c] > PongTimeout
             /\ TrackNext(rest, c)
             /\ Ask(<<"silent", c>>)
             /\ UNCHANGED trackHeld
          \/ /\ trackPongs[c] <= PongTimeout
             /\ TrackNext(rest, Nobody)
             /\ trackHeld' = [trackHeld EXCEPT ![c] = 0]
             /\ UNCHANGED lockQueue
    /\ trackFrame
    /\ UNCHANGED <<pongs, sockets, held>>

TrackRemove_KeepsSocket(c) ==
    /\ Granted(<<"silent", c>>)
    /\ trackFrame
    /\ UNCHANGED <<sockets, pongs, trackVars, history>>

TrackRemove(c) ==
    /\ Granted(<<"silent", c>>)
    /\ sockets' = sockets \ {c}
    /\ trackFrame
    /\ UNCHANGED <<pongs, trackVars, history>>

\* The entry is removed too, even if it is a newer one.
TrackForget ==
    /\ trackTarget # Nobody
    /\ ~Queued(<<"silent", trackTarget>>)
    /\ pongs' = [pongs EXCEPT ![trackTarget] = NoPong]
    /\ TrackNext(trackPongs, Nobody)
    /\ held' = [held EXCEPT ![trackTarget] = 0]
    /\ trackHeld' = [trackHeld EXCEPT ![trackTarget] = 0]
    /\ trackFrame
    /\ UNCHANGED <<sockets, lockQueue>>

-----------------------------------------------------------------------------
(* The clients and time *)

linkFrame == UNCHANGED <<handlerPc, sockets, lockQueue, pongs, reply, pingVars, trackVars,
                         history>>

\* A client stops reading, so that the next send has to wait: not the first one,
\* for which there is room.  Or its peer is lost without a trace, or the connection
\* is closed, by either side or because TCP gives up.
LinkFails(c) ==
    /\ handlerPc[c] \notin {"none", "gone"}
    /\ \/ /\ c \notin Responsive
          /\ link[c] = "open"
          /\ MutexFree(c)
          /\ handlerPc[c] # "ping"
          /\ link' = [link EXCEPT ![c] = "stalled"]
          /\ UNCHANGED pongDue
       \/ /\ link[c] = "open"
          /\ link' = [link EXCEPT ![c] = "lost"]
          /\ pongDue' = pongDue \ {c}
       \/ /\ link[c] # "closed"
          /\ link' = [link EXCEPT ![c] = "closed"]
          /\ pongDue' = pongDue \ {c}
    /\ linkFrame

\* It reads on, and so what was blocked is sent.  Nothing sees to this: no send has a
\* timeout, and a connection whose peer is there but does not read is kept.
LinkRecovers(c) ==
    /\ link[c] = "stalled"
    /\ link' = [link EXCEPT ![c] = "open"]
    /\ linkFrame
    /\ UNCHANGED pongDue

\* Nothing is left to do but what waits for a timer or for a client.
Quiet ==
    /\ lockQueue # <<>> => Writes(Head(lockQueue)) /\ Readers # {}
    /\ \A c \in Client :
          /\ handlerPc[c] # "ping"
          /\ handlerPc[c] = "read" => link[c] # "closed"
          /\ c \in Responsive => c \notin pongDue \/ handlerPc[c] # "read"
          /\ pingTask[c] = "waiting" \/ reply[c] = "locked" => ~MutexFree(c)
          /\ "sending" \in {pingTask[c], reply[c]} => Blocked(c)
    /\ IF pingTarget = Nobody
       THEN pingTimer > 0 \/ Queued(<<"round", Nobody>>)
       ELSE \/ pingTask[pingTarget] \in {"waiting", "sending"}
            \/ Queued(<<"failed", pingTarget>>)
    /\ IF trackTarget = Nobody
       THEN TrackIdle /\ trackTimer > 0
       ELSE Queued(<<"silent", trackTarget>>)

Older(p) == IF p \in 0 .. PongTimeout THEN p + 1 ELSE p
Less(timer) == IF timer = 0 THEN 0 ELSE timer - 1

SendBlocked == \E c \in Client : "sending" \in {pingTask[c], reply[c]}

\* A tick in which a send is blocked counts where there is a pong that grows older.
\* (Only those of responsive clients are looked at.)
Held(h, p) == [c \in Client |-> IF SendBlocked /\ c \in Responsive /\ p[c] # NoPong
                                THEN Older(h[c]) ELSE h[c]]

Tick ==
    /\ Quiet
    /\ held' = Held(held, pongs)
    /\ trackHeld' = Held(trackHeld, trackPongs)
    /\ pongs' = [c \in Client |-> Older(pongs[c])]
    /\ trackPongs' = [c \in Client |-> Older(trackPongs[c])]
    /\ pingTimer' = Less(pingTimer)
    /\ trackTimer' = Less(trackTimer)
    /\ UNCHANGED <<link, handlerVars, reply, pingTask, pingTarget, trackTarget>>

-----------------------------------------------------------------------------

(* The tasks: one for each connection and for each reply, the client message       *)
(* processor, a task for each ping of a round, the ping loop and the tracker.      *)

Handler(c) == FirstPing(c) \/ Enter(c) \/ ReadEnd(c) \/ Leave(c)

Reply(c) == ReplyLock(c) \/ ReplySend(c)

PingLoop == PingWake \/ PingRound \/ PingResult \/ \E c \in Client : PingFailed(c)

Tracker == TrackPass \/ TrackForget \/ \E c \in Client : TrackEntry(c) \/ TrackRemove(c)

\* What clients do of their own accord.
ClientStep(c) == Invalid(c) \/ LinkFails(c) \/ LinkRecovers(c)

=============================================================================
