# A formal model of the private mining pool server

TLA+ modules, TLC runs and TLAPS proofs about `ore-private-pool-srv`: the server to
which mining clients connect by websocket, which hands them challenges and nonce ranges,
collects their solutions, submits the best one of every minute to the ore program on the
Solana chain and shares the reward. Paths below are relative to `src/src/` of the sources.

## 1. Inventory

| component | state | operations | interacts with | what makes it correct |
|---|---|---|---|---|
| Epoch hashes (`main.rs:211-220`) | best hash and difficulty, contributions per wallet, one `RwLock` | contribute, reset | written by handler tasks, submission loop, attender; read by mission processor | best hash and contributions agree; the best one dominates and is on record |
| Solution intake (`processors/client_message_processor.rs`) | one task per message, its solution | range check, socket lookup, validation, comparison, insertion | five locks, one after the other | only qualified, better solutions replace what is there |
| Proof tracking (`processors/proof_tracking_processor.rs`, `utils.rs`) | `app_proof` | subscribe, notification, resubscribe, `get_cutoff` | written by tracker, loop, attender | nobody mistakes an old proof for progress |
| Submission loop (`processors/pool_submission_processor.rs`) | copies of proof, best solution, counters | wait, pause, up to five attempts, failure path | RPC node, `PAUSED`, nonce, epoch, spawns the attender | every epoch ends, a pause too |
| Attender (same file, 467-846) | its counter and copy of the proof | poll proof, ask RPC, credit, reset, resume, oneshot message | proof, epoch, nonce, ledger channel | rewards are handed on once |
| Mission processor (`processors/ready_clients_processor.rs`) | set of ready clients, a pass | copy, cutoff, hand out chunks, send and record | nonce, ranges, sockets | a client's range is the one it was told |
| Mine success ledger (`processors/pool_mine_success_processor.rs`) | rows of earnings, rewards, contributions, challenges | share, insert batches, close the epoch | database, sockets | the shares add up, an epoch is booked once, the queue does not block |
| Connections (`main.rs:1362-1515`, `ping_check_`, `pong_tracking_`, `messaging_all_clients_processor.rs`) | sockets, last pongs, a mutex per socket | enter, remove, ping, time out, reply | everybody who sends | dead connections are dropped, live ones are not, the lock goes round |
| Enrollment (`main.rs:940-1360`) | rows of miners, pools, rewards | authenticate, insert rows | database | an enrolled miner can be credited, and has one row |
| Priority fees (`dynamic_fee.rs`, submission 207-297) | none | estimate, cap, extra fee | RPC provider | the cap holds |
| Startup, reporting, notifications, wire messages, HTTP endpoints | little | sequential or pure output | | |

What is hard here: a dozen tokio tasks share six locked objects and one atomic flag, and
take the locks one at a time, so almost every operation is a sequence of critical sections
with anything in between. The chain is seen through two channels (notifications and RPC
answers) that are late independently of each other. A transaction whose confirmation
fails may still land. Every such place is listed as a hazard in `PROJECT.json`, with the
properties that bear on it.

## 2. Modules

| module | models | notes |
|---|---|---|
| `EpochHashes` | the two operations on the epoch hashes | extended by all modules that touch them |
| `Intake` | the handler tasks of BestSolution messages | one action per lock section; rest of the server as environment actions |
| `ProofAccount` | the proof account, RPC node, notifications, `app_proof` | extended by the next two |
| `Submission` | submission loop and attender | one action per access to shared state or to the chain |
| `Payout` | abstract specification: a reward is handed on after it was earned and once | implemented by `Submission` (`PaysOnce`, proved) |
| `Missions` | mission processor, its sending tasks, connections | actions only, put together in `Pool` |
| `Ledger` | challenge rows of startup and attender, the mine success processor, the tables | one action per database call, failures and restarts between them |
| `Enrollment` | the logins, one action per database call | |
| `Connections` | sockets, ping loop, pong tracker, the reply to an invalid solution, with their locks and in time | extends `Enrollment` for the clients |
| `Access` | logins and connections together | implements `Enrollment` (proved) |
| `PriorityFee` | the fee of an attempt, from the provider's answer to the compute unit price | |
| `Pool` | `Intake`, `ProofAccount`, `Submission` and `Missions` on one shared state | its steps are ones `Intake` and `Submission` allow (proved) |
| `MCIntake`, `MCSubmission`, `MCLedger`, `MCPool`, `MCAccess` | instances for TLC | |
| `EpochHashes_proofs`, `Intake_proofs`, `Submission_proofs`, `Payout_proofs`, `Pool_proofs`, `Ledger_proofs`, `Amounts_proofs`, `Access_proofs` | theorems | see section 4 |

Correspondence. A task is a program counter (`taskPc`, `subPc`, `attPc`, `rcPc`) plus its
local variables; a local variable that is out of scope is set back to its initial value, so
that equal futures are equal states. A solution is a record of the challenge it hashes, the
chunk of 4 000 000 nonces it lies in and its difficulty. States of the proof account are
numbered by their challenges; the balance grows with the number. A spawned task that
performs a single operation (registering a ready client, one mission) is one or two actions.
The two branches of the attender are kept apart as they are in the code, including the one
that credits nobody. `EpochHashes.challenge` is left out: it is written and never read.
Operators named `X_Something` next to an operator `X` are wrong variants of it, for testing
the properties; no specification uses them.

The environment actions of `Intake` (`ProofChange`, `RangeChange`, `SocketChange`,
`EpochReset`) and of `Submission` (`ServerContributes`, `ServerTakesNonce`,
`ServerSockets`) are weaker than what the other components do. The run `pool` checks this:
`IntakeImplemented` and `SubmissionImplemented` say that every step of the composed system
is a step, or none, of each component's own specification.

### The ledger

`Ledger` starts where `Submission` ends: `AttNotified`, `AttOld`, `AttNew` and `AttSend` are the
branch of the attender that credits, `MoveOn` and `AttRecord` all the ways in which the server
gets to a later challenge without. Every function of `database.rs` is one transaction on SQLite:
it takes effect as a whole or returns an error. A row's id is its position in the table; the
rows of a batch are inserted in the arbitrary order of a `HashMap`, so a batch is a set. A
retried call is one action, because its failures change nothing. A batch that may fail
(`BatchFails`) and is not retried has both outcomes. `Restart` empties the memory and keeps the
tables; the account has not gone back by then.

What `Ledger` takes for granted of the messages is `CreditsFitLedger` of `Submission`: each starts
from an account state that is no earlier than the one the last ended with, and has somebody to
credit. It is proved of `Submission` and of `Pool`.

Nothing in the code ensures that the submitted nonce is among the contributions sent along
(`BestRecorded`): the loop takes the best solution at line 117 of the submission, the attender
copies the contributions at line 762, and in the many seconds between the same miner may have
replaced the solution on record by a better one. (`Pool` reaches this; what it ensures is
`BestCredited`: the submitted solution is sent along, or a better one.) The processor then waits at line 197 until
some contribution happens to have this nonce, and books nothing else. The same happens when the
batch of contributions fails. `QueueDrains` and `ClosedByOwnContribution` are therefore checked
with `BestRecorded` and without failing batches, and everything else without these assumptions.

A contribution carries its difficulty, and `HashPower` is what the handler makes of it: twice as
much for each step up to 655 360, and 0 below `MIN_DIFF`, where the exponent wraps in a release
build. A message whose contributions have no hash power at all makes the shares a division by
zero; the processor's task then ends, which is modelled as staying at `AddEarnings` until a
restart. Miners without a row in the rewards table (`Miner \ Enrolled`) earn, but no balance of
theirs changes; how they come to be is in `Enrollment`. One of the instances has such a miner,
another a difficulty below `MIN_DIFF`.

### Logins and connections

`Enrollment` is `ws_handler` and `ws_handler_v1`, which differ in the version they pass on only.
A call of the database fails as a whole, and a login is dropped where it waits when its client
is gone; both are counted by `failures`, of which there are at most `MaxFailures`. Nothing keeps
`rewards` from having two rows of a miner but the order of the calls: who inserts the miner's
row, and only who, goes on to the reward row. The price is that a failure after the first insertion
leaves the miner without one: `AdmittedHasReward` is about logins without failures. In a
contribution the wallet is the one named in the message, and the miner's id that of the
connection; they are the same for the clients of `Intake`.

`Connections` is about waiting. `app_state` is a tokio `RwLock`, which serves in order:
`lockQueue`. All its sections are one step at the head of the queue, except the reply to an
invalid solution, which keeps its read lock while it waits for the socket's mutex and then for the
client (lines 187-194). A ping holds the mutex while it is sent, so that a slow client delays the
reply, the reply the writers, and the writers everybody else, the ping loop included. A round of
pings ends when each of its sends has. `messaging_all_clients_processor` and the missions send as
pings do, but nobody waits for them; they are not modelled again.

Time passes in ticks of 15 seconds, the greatest common divisor of the periods 30 and 45 and the
limit of 45. `Quiet` says that nothing but timers and clients is waited for: what a server
does at once is done before the next tick. A client identifies its address. It is not used again:
a new connection from the address of one that is just ending would find the place taken
(line 1382), or have its own entry removed (1421), if it overtook the old one at the lock, which a
login of several round trips does not.

The instance has two clients of one wallet. One reads and answers at once, and may be lost without a
trace. The other may stop reading, for a while or for ever, leave pings unanswered, and close its
connection. A server with a database does not look for the wallet, but a login
may also take its time after the look, so that both kinds connect in the same ways. With
a database the logins alone are followed (`Followed`).

No send has a timeout, and nothing in the code or in TCP ends a connection whose peer is there but
does not read. Such a client can hold a round of pings, and a reply to it the lock on `app_state`,
for as long as it likes; nothing is claimed to the contrary. `DeadRemoved` and
`EveryoneServed` name the one case they leave out (`<>[]LockKept`: a reply keeps the lock
for ever). What becomes of clients that can be relied on meanwhile is said by `ResponsiveKept`,
for which `held` and `trackHeld` count in how many of the ticks a pong has grown older a
send was blocked; no action looks at them. With the periods of the code, two such ticks can cost
a client its connection: they stretch the round of pings and hold up the tracker, which then removes the
client by a copy of its pongs made before it answered. `ResponsiveKept` is that nothing else can.

### The fee

`PriorityFee` takes an attempt from the options through the provider's answer to the price. What the
mean, percentile or estimate of an answer comes to is any number (`Estimates`): the property is about
what is made of it, and of other answers. An empty answer of Triton, and an entry of Alchemy's list
without a fee, panic (`NotAsExpected`).

### Time

`get_cutoff` compares the clock of the chain with `last_hash_at` of a copy of the proof.
`clock` has three values for the current account state: before the cutoff (`mining`), in
the buffer time, and past it (`overdue`). A copy the chain has moved on from counts as
overdue. Two assumptions are built in, both facts about the environment:

- the ore program refuses a hash well before the minute is over, so a landing requires
  `clock # "mining"` (`Advance`);
- nothing of a landing is under way any more when the best part of the next minute is over:
  the RPC node knows of it, and its notification has arrived or is lost (`Tick`).

The second is a real precondition. Without it a notification that is more than an epoch
late sets `app_proof` back, the attender takes the old challenge for progress (it only
tests for a different one, line 493), and the reward is computed as a negative difference
of unsigned balances (line 755): `PaysOnce` fails with three landings.

### Fairness

`Submission!Fairness` is weak fairness of the loop, the attender, the catching up of the
RPC node, the clock, and of notifications (which arrive or are lost with their
subscription). Tokio polls a ready task; sleeps end; `get_clock` and `get_proof` retry until
the node answers. Nothing is assumed of miners, of landing, of the success of a request, or
of transactions whose confirmation was given up. `Intake!Fairness` is weak fairness of each
handler task. `Access!Fairness` is weak fairness of the server's tasks, of the replies, and of the one whose turn it
is at the lock. The tasks are taken together, which comes to the same as each of them: whatever
is enabled is done before the next tick, and without a tick only replies can go on for ever. Time does
not stop; it is strongly fair because what precedes a tick may go on in a circle of clients that stop
and read on. Nothing is assumed of clients: they may never read on, never answer a ping, be lost, or
leave in the middle of a login. `Ledger!Spec` has weak fairness of the processor: it is polled, and a database
call that is repeated succeeds at last.

## 3. Runs

| run | question | bounds | result |
|---|---|---|---|
| `intake_serial` | do handler tasks and resets keep best hash and contributions consistent? | 2 wallets with 1 task each, 2 challenges, 2 chunks, 4 solutions of 3 difficulties | `TypeOK`, `BestHashSound`, `BestDominates`, `BestIsContributed`, `LowerDifficultyDiscarded` hold |
| `intake_shared_wallet` | and with two connections of one wallet? | same, 1 wallet | `LowerDifficultyDiscarded` violated |
| `submission` | is everything paid once, and does a pause always have work? | 3 landings, 2 attempts, 2 checks, 1 miner, no waiting | `TypeOK`, `PausedHasWork`, `RecheckIsSome`, `PaysOnce`, `CreditsFitLedger` hold |
| `submission_live` | does every pause and every epoch end? | 1 landing, 2 attempts, 2 checks, 1 waiting checkpoint, 1 connection | `PauseEnds`, `BestSolutionSettled` hold |
| `submission_credit` | does a completed mission mean that miners are credited? | 1 landing | `CompletedMissionCredited` violated |
| `submission_wait` | does the loop wait for all connected miners? | 2 miners, 1 waiting checkpoint | `AllActiveSubmitted` violated |
| `ledger` | do bookings survive failures and restarts? | 2 miners, 2 nonces, 3 challenges, 4 challenge rows, 1 restart, difficulties 4 and 9, shares with a resolution of 7 | `TypeOK`, `RowsReferred`, `EarnedOnce`, `NeverOverpaid` hold |
| `ledger_reliable` | do the books agree when no batch fails, and does the queue drain? | same, no batch fails, difficulties 5 and 9, resolution 10, one miner without a reward row | `BalancesMatchEarnings`, `ClosedByOwnContribution`, `QueueDrains` hold |
| `ledger_duplicate` | is there one row per challenge? | same | `ChallengesUnique` violated |
| `access` | are clients enrolled once, kept while they answer, removed when they are dead, and served? | 2 clients of one wallet, 2 failures, periods and limit of one tick; any number of blocked sends and ticks | `TypeOK`, `RewardRowsUnique`, `AdmittedHasReward`, `ResponsiveKept`, `DeadRemoved`, `EveryoneServed` hold |
| `fee_cap` | is the cap a cap? | estimates, static fees and caps below and above the default and each other | `FeeWithinCap` violated |
| `pool` | do the components assume of each other what they do, and is the solution that landed credited? | 1 client, 1 task, 1 landing, 1 attempt, 2 checks, 1 chunk between resets, until the second challenge is submitted; a better solution comes after the first has landed | `TypeOK`, `BestCredited`, `IntakeImplemented`, `SubmissionImplemented` hold |

Why the bounds suffice. For `intake_*` two tasks are enough for every race between a read
and a write section, and the solutions include an easier, an equal and a harder one, one of
another chunk and one of the next challenge. For `submission` three landings let a payment,
a landing nobody notices and a second payment follow each other; two attempts allow a
transaction given up and a second one; `CHECK_LIMIT` 2 lets the attender ask the RPC node
once before it gives up. `MaxChallenge` and `MaxNonce` bound counters that are unbounded in
the code; the other constants are limits of the code itself, made smaller. When
`MaxChallenge` is reached no transaction lands any more and the loop goes on failing, so no
run of these deadlocks, and deadlock is checked in them. For `ledger*` two messages let nonces
recur in a later challenge and restarts and failures fall before, between and after them; four
rows leave room for a double one; the hash powers (0 and 80, 5 and 80) and a reward of 20 do not
divide evenly, and one share rounds down to nothing. These runs end when the last challenge is booked, so
deadlock is not checked in them. For `access` two logins are enough to meet at every call, and two
failures for one in each. Its periods and limit are one tick each instead of 2, 3 and 3, so that the liveness
properties can be checked; they depend on the timers starting over, not on
their length.
That the bound of `ResponsiveKept` is right for all periods is proved. An attempt of `fee_cap` may
end in a panic, so deadlock is not checked.

### Findings

1. `client_message_processor.rs:134-174`. The comparison with the previous contribution is
   made on a copy read under the read lock. With two messages of one wallet in flight the
   lower difficulty can overwrite the higher one, although the log at line 154 says lower
   ones are discarded. The best hash then belongs to no contribution, and
   `pool_mine_success_processor.rs:197` looks its nonce up for ever.
2. `pool_submission_processor.rs:516-574`. If the RPC node answers with the new proof before
   the notification arrives, the epoch is reset and completion signalled, but nothing is
   sent to the ledger: the reward of that landing is credited to nobody, while line 855
   takes the signal for the success of all activities.
3. `pool_submission_processor.rs:122-125`. The loop is meant to wait for all active miners
   but compares two numbers; the contribution of a miner that left stands in for one that
   is still mining.
4. `pool_submission_processor.rs:645` and `migrations/sqlite/init.sql:130`. The index
   `uniq_challenges_challenge` is not unique, so adding a row that exists does not fail as the
   retry code expects; a lookup that fails makes a second row. Bookings still refer to a row
   of the right challenge (`RowsReferred`), but closing the challenge updates both rows and
   reports a failure.
5. `dynamic_fee.rs:104` and `111`. The default fee of 10 000 is returned before the cap is
   applied; an operator with a lower cap pays more when the provider does not answer, although the
   cap is the "max price to pay for compute units when dynamic fees are enabled". The static
   fee, paid after other errors, is not capped either, but that is what its help says.

## 4. Proofs

All theorems hold for any sets of clients, miners, tasks and solutions and any limits, under
the named assumptions of the modules: solutions are records of numbers, the smallest
difficulty asked for is above 0, connections and clients have a wallet, the limits are numbers, and the
miners of the ledger are finitely many.

`EpochHashes_proofs` states once what a contribution and a reset preserve.

`Intake_proofs` proves `TypeOK`, `BestHashSound` and `BestDominates` with the invariant
`IntakeInv`. The additional conjunct `Vetted` is what makes it inductive: a solution past
`Validate` still has at least the minimum difficulty when it is inserted, hence beats an
empty best hash. For clients that are `Serial` (one solution per wallet under way) the
invariant `SerialInv` adds `StillImproves`, that the outcome of `Compare` is still true at
`Insert`: only the miner's own task, or a reset, writes its entry. `BestIsContributed` and
`LowerDifficultyDiscarded` follow. Run `intake_shared_wallet` shows that the hypothesis
cannot be dropped.

`Submission_proofs` proves `TypeOK`, `PausedHasWork` and `RecheckIsSome` with the invariant
`SubmissionInv`. `Handover` says that the attender runs only while the loop waits for it;
so the reset is in one hand at a time, and between the loop's first look at the best solution
and the reset at the end of the iteration there is always one (`KeepsBest`).

`Payout_proofs` proves `PaysOnce`, the refinement of `Payout`. A copy of the proof account may
go back, because the loop stores an RPC answer that a notification has overtaken; what it never
does is go back past the last account state that was paid for. `CopiesInv` says so of each copy,
in `app_proof`, in the locals of loop and attender, and at the RPC node, at those places of the
program where it can still become the `from` of a message. `AccountInv` is what the precondition
of `Tick` comes to: at most one notification is under way, of the newest state, and the RPC node is
at most one landing behind. `CreditsFitLedger` is proved there as well: messages come in order
because the attender's `old_proof` is past what was paid for (`CopiesInv`), and somebody has
contributed because the contributions are copied while the loop still has its best solution
(`CreditsInv`).

`Pool_proofs` proves `TypeOK`, `IntakeImplemented` and `SubmissionImplemented` of `Pool`, and
with them that `PaysOnce` holds there too. Each component keeps its own invariant only if the
others do what it expects, so this is one induction over all (`PoolInv`). The fact that
spans two components is `TasksTimely`: a solution that was accepted is of a challenge the chain
has reached, because `app_proof`, against which it was validated, is never ahead of the chain.
`BestCredited` is proved for clients that are `Serial`: by `Handover` nobody resets the epoch
while the solution the loop has taken is under way, and by `StillImproves` no task replaces a
contribution by an easier one, so that it stays on record or is bettered.
The invariance lemmas of `Intake_proofs` and `Payout_proofs` are cited through `INSTANCE`;
`SameIntake` and `SameSubmission` say that the instances `Pool` takes are the same.
`PoolPaysOnce` and `PoolCreditsFitLedger` carry over from `Submission` in this way.

`Ledger_proofs` proves `RowsReferred` and `EarnedOnce` whichever calls fail and whenever the
server restarts. `RowsKept` is the fact both rest on: rows of the challenges table are only
added, and keep their challenge. `ReferInv` adds that the attender knows a row of the old
challenge from the lookup on (`RowKnown`). `OrderInv` says that earnings, the message worked on,
the messages waiting and the attender are at strictly increasing challenges, so that a booking
is always of a challenge that has none yet. `LedgerClosedByOwn` proves `ClosedByOwnContribution`,
under the hypotheses `BestRecorded` and `~BatchFails` of run `ledger_reliable`: the
processor asks for the newest contribution with the nonce, and the newest batch is the message's
own (`OwnBatch`). `ShareAtMostProportional` bounds a miner's share by
`hashpower / total` of the reward, for every resolution of the percentage.

`Amounts_proofs` is about what the tables add up to, for any finite set of miners. A sum over a set
is a recursive function that takes one element after the other by `CHOOSE`, and the prover knows
neither that there is such a function nor that the order does not matter. Both are proved first,
by induction over the subsets of a finite set; the induction is about a set of subsets
(`AllSubsets`), because the library's theorem needs an operator as a parameter. From there:
the shares of a message, each rounded down twice, add up to at most its reward, because the hash
powers add up to the total they are divided by. With sums that are numbers, `LedgerTypeCorrect` follows.
`LedgerNeverOverpaid` needs to know how far the processor is with a message: between the batches and
the pool total, earnings and balances may exceed the total by the reward that is still to be added
(`EarnedWithin`, `PaidWithin`), and by no more when a batch fails. `LedgerBalancesMatch`
is proved under `~BatchFails`, as run `ledger_reliable` checks it: what was earned and is not yet paid is
the share of the message that is worked on (`PaidFromEarnings`), which a restart may leave unpaid.

`Access_proofs` proves `RewardRowsUnique` and `AdmittedHasReward` for any number of clients, wallets
and failures, first of `Enrollment` and then, because `Access` implements it
(`AccessImplementsEnrollment`), of the system with connections and time. `EnrollmentInv` says why
there is one reward row: a login that remembers to have inserted its miner is the only one of its
wallet to do so, and finds no row (`EnrollingAlone`); only such a login reaches the insertion
(`RewardIfAdded`). `RewardInv` adds that, before anything fails, each miner's row comes with a
reward row or such a login, and nobody is past the lookup without a miner's row.

It also proves `TypeOK` of `Access`, for which the queue of the lock has to be understood
(`WaitersInPlace`): a handler, a login, the ping loop and the tracker are in `lockQueue` exactly while
they wait there, and once. `AccessKeepsResponsive` proves `ResponsiveKept` for any number of
clients, any periods and any behaviour of the others. The invariant `ResponsiveInv` bounds the age of a
responsive client's last pong, and of the tracker's copy of it: it is from the last round,
unless this round has reached it already, and time passes in a round only while some client blocks a
send, which `held` and `trackHeld` count. So it is at most the sleep between two rounds plus
these ticks, and the tracker removes it only when that is more than the limit. With the
code's 30 and 45 seconds, it takes two ticks of blocked sends; one does not suffice.

Only model-checked: the liveness properties (`PauseEnds`, `BestSolutionSettled`, `QueueDrains`,
`DeadRemoved`, `EveryoneServed`), which are beyond the prover. All invariants and
action properties that hold are proved.

## 5. Not modelled

Not modelled at all: reporting (its query is a `todo!()`), notifications, wire messages and HTTP
endpoints (no state). Of startup only the row of the current challenge is; the rest runs once and in
sequence. Abstracted: transaction rows, texts to clients, time stamps and signatures.

What could follow:

1. `Ledger` composed with `Submission`: what the messages must be is settled by
   `CreditsFitLedger`; that the bookings of the composed system are those `Payout` allows would
   be a refinement down to the rows. Of a contribution made between the copy and the reset, which
   nobody is credited for, no document says anything.
2. The fee's panics in `Submission`: the loop's task ends, and the liveness properties with it.
3. Nonce ranges: that no two clients are given the same one for a challenge, as long as no submission of it
   fails and no mission is under way at the reset.

Of some hazards in `PROJECT.json` nothing is claimed, because the code rules nothing out: a batch
of contributions that fails, missions that go out during a pause, ranges recorded late or in
the wrong order, a Ready message lost while a mission is sent, nonce ranges given out again after a
failed submission, a miner left without a reward row by a failure between the two insertions, and
the panics of the fee. Where the models reach them, their properties are shown to hold
in spite of them, or under the named hypotheses only.
