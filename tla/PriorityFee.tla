----------------------------- MODULE PriorityFee -----------------------------
(***************************************************************************)
(* The priority fee of an attempt to submit: dynamic_fee.rs and what       *)
(* pool_submission_processor.rs makes of it.                               *)
(*                                                                         *)
(* A provider answers with an estimate or with recent fees, of which the   *)
(* strategy takes a mean or a percentile.  What these come to is any       *)
(* number: the code is about what becomes of it, and of other answers.     *)
(***************************************************************************)
EXTENDS Naturals

\* All numbers are natural ones.
CONSTANTS
    DEFAULT_PRIORITY_FEE,   \* 10_000
    EXTRA_LIMIT,            \* the limit of an extra fee without a cap: 300_000
    NoCap,                  \* no --priority-fee-cap
    Caps,                   \* caps that operators set
    StaticFees,             \* values of --priority-fee
    Percents,               \* values of --extra-fee-percent
    Estimates               \* what answers of a provider may come to

VARIABLES
    dynamic,        \* --dynamic-fee
    strategy,       \* by the provider's host name
    cap,            \* --priority-fee-cap
    staticFee,      \* --priority-fee
    percent,        \* --extra-fee-percent
    precious,       \* the difficulty reaches --extra-fee-difficulty
    phase,          \* of the attempt
    fee             \* the compute unit price, once it is settled

options == <<dynamic, strategy, cap, staticFee, percent>>
vars == <<options, precious, phase, fee>>

TypeOK ==
    /\ dynamic \in BOOLEAN
    /\ strategy \in {"Helius", "Triton", "LOCAL", "Alchemy", "Quiknode"}
    /\ cap \in Caps \cup {NoCap}
    /\ staticFee \in StaticFees
    /\ percent \in Percents
    /\ precious \in BOOLEAN
    /\ phase \in {"idle", "asking", "estimated", "paid", "panicked"}
    /\ fee \in Nat

Init ==
    /\ dynamic \in BOOLEAN
    /\ strategy \in {"Helius", "Triton", "LOCAL", "Alchemy", "Quiknode"}
    /\ cap \in Caps \cup {NoCap}
    /\ staticFee \in StaticFees
    /\ percent \in Percents
    /\ precious = FALSE
    /\ phase = "idle"
    /\ fee = 0

-----------------------------------------------------------------------------
(* dynamic_fee *)

Lesser(a, b) == IF a < b THEN a ELSE b

Capped(f) == IF cap = NoCap THEN f ELSE Lesser(f, cap)

Answered(f, next) == fee' = f /\ phase' = next /\ UNCHANGED <<options, precious>>

\* The request fails, or its answer is no JSON.
Default ==
    /\ phase = "asking"
    /\ strategy # "LOCAL"
    /\ Answered(DEFAULT_PRIORITY_FEE, "estimated")

\* Some other answer than was asked for; LOCAL: or a failed request, or no fees.
FallBack == phase = "asking" /\ Answered(staticFee, "paid")

\* The answer is what was asked for.  (Alchemy's mean of no fees is NaN, and 0 as u64;
\* so is a negative estimate.)
FromAnswer(f) == phase = "asking" /\ Answered(Capped(f), "estimated")

\* No fees for Triton is a panic, and so is an entry of Alchemy's list without one.
NotAsExpected ==
    /\ phase = "asking"
    /\ strategy \in {"Triton", "Alchemy"}
    /\ Answered(0, "panicked")

-----------------------------------------------------------------------------
(* The submission *)

\* With the extra percentage, but not above the cap, or 300_000 where there is none.
ExtraFee(f) ==
    Lesser(IF cap = NoCap THEN EXTRA_LIMIT ELSE cap, (f * (100 + percent)) \div 100)

Attempt ==
    /\ phase \in {"idle", "paid"}
    /\ precious' \in BOOLEAN
    /\ IF dynamic
       THEN phase' = "asking" /\ fee' = 0
       ELSE phase' = "estimated" /\ fee' = staticFee
    /\ UNCHANGED options

\* Of an estimate, a default and a static fee, but not of one that is fallen back to.
SetComputeUnitPrice ==
    /\ phase = "estimated"
    /\ Answered(IF precious THEN ExtraFee(fee) ELSE fee, "paid")

Next ==
    \/ Attempt
    \/ Default
    \/ FallBack
    \/ \E f \in Estimates : FromAnswer(f)
    \/ NotAsExpected
    \/ SetComputeUnitPrice

Spec == Init /\ [][Next]_vars

-----------------------------------------------------------------------------
(* Properties *)

\* "Max price to pay for compute units when dynamic fees are enabled": the cap, but
\* for the static fee, which --priority-fee has paid when no estimate is available.
FeeWithinCap ==
    dynamic /\ phase = "paid" /\ cap # NoCap => fee <= cap \/ fee = staticFee

=============================================================================
