---------------------------- MODULE Payout_proofs ----------------------------
(***************************************************************************)
(* The submission loop and its attender implement Payout: whatever they    *)
(* hand on was earned before, and is handed on once, for any number of     *)
(* landings, attempts and checks.                                          *)
(*                                                                         *)
(* The server's copies of the proof account may go back: the loop stores   *)
(* an RPC answer that a notification has overtaken.  What keeps a reward   *)
(* from being paid twice is that no copy goes back past the last account   *)
(* state that was paid for.  The invariant therefore follows every copy,   *)
(* in app_proof, in local variables and under way, from above (the chain)  *)
(* and from below (PaidTo).  The same invariant has the messages in the    *)
(* order, and with the contributors, that the ledger expects.              *)
(***************************************************************************)
EXTENDS Submission_proofs

\* All that was paid for is up to the account state c.
PaidTo(c) == \A i \in DOMAIN mineSuccess : mineSuccess[i].to <= c

\* The minute between two landings is long for the RPC node and notifications: one
\* notification is under way at most, and the RPC node is one landing behind at most.
AccountInv ==
    /\ rpcView <= chain
    /\ chain <= rpcView + 1
    /\ clock # "mining" => rpcView = chain /\ notices = <<>>
    /\ notices = <<>> \/ notices = <<chain>>
    /\ proof <= chain

\* The places where the loop's old_proof is one it can still be paid from.
Working ==
    \/ subPc \in {"cutoff", "peek", "snapshot", "pause", "config", "send", "confirm"}
    \/ attPc \in {"poll", "rpc", "rows", "latest", "credit"}

\* The places after the cutoff: the copy of the RPC node has what was paid for.
PastCutoff ==
    \/ subPc \in {"peek", "snapshot", "pause", "config", "send", "confirm", "refresh"}
    \/ attPc \in {"poll", "rpc"}

CopiesInv ==
    /\ PaidTo(proof)
    /\ Working => oldProof <= proof /\ PaidTo(oldProof)
    /\ PastCutoff => PaidTo(rpcView)
    /\ subPc = "store" => refreshed <= chain /\ PaidTo(refreshed)
    /\ attPc \in {"rows", "latest"} => oldProof < proof
    /\ attPc = "credit" => oldProof < latestProof
    /\ attPc \in {"store", "credit", "writeBack"} => latestProof <= chain
    /\ attPc \in {"store", "writeBack"} => PaidTo(latestProof)
    /\ attPc = "credit" => latestProof <= proof

\* While there is a best solution somebody has contributed.
CreditsInv == BestHashSound /\ CreditsFitLedger

PayoutInv == SubmissionInv /\ AccountInv /\ CopiesInv /\ CreditsInv

-----------------------------------------------------------------------------
(* Helpers *)

\* All copies of the account are numbers, those that were paid for too.
LEMMA CopiesAreNumbers ==
    ASSUME TypeOK
    PROVE  /\ chain \in Nat /\ rpcView \in Nat /\ proof \in Nat
           /\ oldProof \in Nat /\ refreshed \in Nat /\ latestProof \in Nat
           /\ \A i \in DOMAIN mineSuccess : mineSuccess[i].from \in Nat
                                            /\ mineSuccess[i].to \in Nat
<1>1. Challenge \subseteq Nat
  BY MaxChallengeAssumption DEF Challenge
<1>2. \A i \in DOMAIN mineSuccess : mineSuccess[i] \in Message
  BY ElementOfSeq, LenProperties DEF TypeOK
<1> QED
  BY <1>1, <1>2 DEF TypeOK, AccountTypeOK, Message

\* A single notification is taken whole.
LEMMA OneNotice ==
    ASSUME NEW c
    PROVE  Head(<<c>>) = c /\ Tail(<<c>>) = <<>>
OBVIOUS

\* Appending a message leaves the others and adds one.
LEMMA Appended ==
    ASSUME NEW S, NEW s \in Seq(S), NEW e \in S
    PROVE  /\ DOMAIN Append(s, e) = DOMAIN s \cup {Len(s) + 1}
           /\ \A i \in DOMAIN s : Append(s, e)[i] = s[i]
           /\ Append(s, e)[Len(s) + 1] = e
<1>1. /\ Len(Append(s, e)) = Len(s) + 1
      /\ \A i \in 1 .. Len(s) : Append(s, e)[i] = s[i]
      /\ Append(s, e)[Len(s) + 1] = e
      /\ Append(s, e) \in Seq(S)
  BY AppendProperties
<1>2. Len(s) \in Nat /\ DOMAIN s = 1 .. Len(s)
  BY LenProperties
<1>3. DOMAIN Append(s, e) = 1 .. Len(s) + 1
  BY <1>1, LenProperties
<1> QED
  BY <1>1, <1>2, <1>3

-----------------------------------------------------------------------------
(* The account *)

\* Landings, answers, notifications and time preserve what is known of the account.
LEMMA AccountInvStep ==
    ASSUME TypeOK, TypeOK', AccountInv, CopiesInv, [Next]_vars
    PROVE  AccountInv'
<1> USE CopiesAreNumbers DEF AccountInv
<1>1. CASE Land \/ LandStray
  <2>1. notices = <<>> /\ rpcView = chain /\ notices' = Append(notices, chain + 1)
    BY <1>1 DEF Land, LandStray, Advance
  <2>2. Append(<<>>, chain + 1) = <<chain + 1>>
    OBVIOUS
  <2> QED
    BY <1>1, <2>1, <2>2 DEF Land, LandStray, Advance
<1>2. CASE Account
  <2>1. CASE RpcCatchUp \/ Tick \/ Resubscribe
    BY <2>1 DEF RpcCatchUp, Tick, Resubscribe
  <2>2. CASE Notify
    <3>1. notices = <<chain>>
      BY <2>2 DEF Notify
    <3>2. proof' = chain /\ notices' = <<>>
      BY <2>2, <3>1, OneNotice DEF Notify
    <3> QED
      BY <2>2, <3>2 DEF Notify
  <2> QED
    BY <1>2, <2>1, <2>2 DEF Account, AccountStep
<1>3. CASE StoreRefreshed \/ AttStore \/ AttWriteBack
  BY <1>3 DEF StoreRefreshed, AttStore, AttWriteBack, CopiesInv, chainVars
<1>4. CASE UNCHANGED accountVars
  BY <1>4 DEF accountVars, chainVars
<1> QED
  BY <1>1, <1>2, <1>3, <1>4
     DEF Next, Loop, ReadProof, CheckCutoff, Peek, Snapshot, Pause, LoadConfig, Send,
         ConfirmRejected, ConfirmUnknown, ConfirmOk, Await, Refresh, ResetNonce,
         ResetEpoch, Resume, Attender, AttPoll, AttRpc, AttRows, AttLatest, AttCredit,
         AttNonce, AttReset, AttResume, AttSignal, Chain, ExpireStray, Server,
         ServerContributes, ServerTakesNonce, ServerSockets, vars

-----------------------------------------------------------------------------
(* The copies *)

\* Each step of the loop leaves every copy between what was paid for and the chain.
LEMMA CopiesLoopStep ==
    ASSUME TypeOK, Handover, AccountInv, CopiesInv, Loop
    PROVE  CopiesInv'
<1> USE CopiesAreNumbers DEF CopiesInv, Working, PastCutoff, PaidTo, Handover
<1>1. CASE ReadProof
  BY <1>1 DEF ReadProof, accountVars, chainVars, attVars
<1>2. CASE CheckCutoff
  <2>1. CASE Cutoff(oldProof) = "overdue"
    <3>1. oldProof <= rpcView
      BY <1>2, <2>1 DEF CheckCutoff, Cutoff, AccountInv
    <3> QED
      BY <1>2, <2>1, <3>1 DEF CheckCutoff, accountVars, chainVars, localVars, attVars
  <2>2. CASE Cutoff(oldProof) # "overdue"
    BY <1>2, <2>2 DEF CheckCutoff, NextIteration, accountVars, chainVars, attVars
  <2> QED  BY <2>1, <2>2
<1>3. CASE Peek \/ Snapshot
  BY <1>3 DEF Peek, Snapshot, NextIteration, accountVars, chainVars, attVars
<1>4. CASE Pause \/ LoadConfig \/ Send
  BY <1>4 DEF Pause, LoadConfig, Send, NextAttempt, GiveUp, accountVars, chainVars, attVars
<1>5. CASE ConfirmRejected \/ ConfirmUnknown
  BY <1>5 DEF ConfirmRejected, ConfirmUnknown, NextAttempt, GiveUp, accountVars, chainVars,
              attVars
<1>6. CASE ConfirmOk
  BY <1>6 DEF ConfirmOk, accountVars, chainVars, localVars
<1>7. CASE Await
  BY <1>7 DEF Await, NextIteration, accountVars, chainVars
<1>8. CASE Refresh
  BY <1>8 DEF Refresh, AccountInv, accountVars, chainVars, attVars
<1>9. CASE StoreRefreshed
  BY <1>9 DEF StoreRefreshed, chainVars, localVars, attVars
<1>10. CASE ResetNonce \/ ResetEpoch \/ Resume
  BY <1>10 DEF ResetNonce, ResetEpoch, Resume, NextIteration, accountVars, chainVars,
               localVars, attVars
<1> QED
  BY <1>1, <1>2, <1>3, <1>4, <1>5, <1>6, <1>7, <1>8, <1>9, <1>10 DEF Loop

\* Each step of the attender does.
LEMMA CopiesAttenderStep ==
    ASSUME TypeOK, Handover, AccountInv, CopiesInv, Attender
    PROVE  CopiesInv'
<1> USE CopiesAreNumbers DEF CopiesInv, Working, PastCutoff, PaidTo, Handover
<1>1. CASE AttPoll
  BY <1>1 DEF AttPoll, AttEnds, accountVars, chainVars, subVars, localVars
<1>2. CASE AttRpc
  BY <1>2 DEF AttRpc, AccountInv, accountVars, chainVars, subVars, localVars
<1>3. CASE AttStore \/ AttWriteBack
  BY <1>3 DEF AttStore, AttWriteBack, chainVars, subVars, localVars
<1>4. CASE AttRows \/ AttLatest
  BY <1>4 DEF AttRows, AttLatest, AccountInv, accountVars, chainVars, subVars, localVars
<1>5. CASE AttCredit
  <2> DEFINE credit == [from |-> oldProof, to |-> latestProof, best |-> bestSolution,
                        contributions |-> contributions]
  <2>1. credit \in Message
    BY DEF Message, TypeOK, EpochHashesTypeOK
  <2>2. mineSuccess \in Seq(Message) /\ mineSuccess' = Append(mineSuccess, credit)
    BY <1>5 DEF AttCredit, TypeOK
  <2>3. /\ DOMAIN mineSuccess' = DOMAIN mineSuccess \cup {Len(mineSuccess) + 1}
        /\ \A i \in DOMAIN mineSuccess : mineSuccess'[i] = mineSuccess[i]
        /\ mineSuccess'[Len(mineSuccess) + 1].to = latestProof
    BY <2>1, <2>2, Appended
  <2>4. PaidTo(oldProof) /\ oldProof < latestProof /\ latestProof <= proof
    BY <1>5 DEF AttCredit
  <2>5. PaidTo(latestProof)' /\ PaidTo(proof)'
    BY <1>5, <2>3, <2>4 DEF AttCredit, accountVars, chainVars
  <2>6. attPc' = "writeBack" /\ subPc' = "await"
    BY <1>5 DEF AttCredit, subVars
  <2> QED
    BY <1>5, <2>5, <2>6 DEF AttCredit, accountVars, chainVars
<1>6. CASE AttNonce \/ AttReset \/ AttResume \/ AttSignal
  BY <1>6 DEF AttNonce, AttReset, AttResume, AttSignal, AttEnds, accountVars, chainVars,
              subVars, localVars
<1> QED
  BY <1>1, <1>2, <1>3, <1>4, <1>5, <1>6 DEF Attender

\* The chain, the RPC node and notifications only move copies forward.
LEMMA CopiesOtherStep ==
    ASSUME TypeOK, AccountInv, CopiesInv, Chain \/ Account \/ Server \/ UNCHANGED vars
    PROVE  CopiesInv'
<1> USE CopiesAreNumbers DEF CopiesInv, Working, PastCutoff, PaidTo
<1>1. CASE Land \/ LandStray
  BY <1>1 DEF Land, LandStray, Advance, localVars, attVars
<1>2. CASE Account
  <2>1. CASE RpcCatchUp \/ Tick \/ Resubscribe
    BY <1>2, <2>1 DEF Account, RpcCatchUp, Tick, Resubscribe, AccountInv, subVars,
                      localVars, attVars
  <2>2. CASE Notify
    <3>1. proof' = chain
      BY <2>2 DEF Notify, AccountInv
    <3> QED
      BY <1>2, <2>2, <3>1 DEF Account, Notify, AccountInv, subVars, localVars, attVars
  <2> QED
    BY <1>2, <2>1, <2>2 DEF Account, AccountStep
<1>3. CASE UNCHANGED <<accountVars, subPc, localVars, attVars>>
  BY <1>3 DEF accountVars, chainVars, localVars, attVars
<1> QED
  BY <1>1, <1>2, <1>3
     DEF Chain, ExpireStray, Server, ServerContributes, ServerTakesNonce, ServerSockets,
         vars, subVars

-----------------------------------------------------------------------------
(* The messages *)

\* Only contributions and resets change the epoch hashes.
LEMMA SoundStep ==
    ASSUME TypeOK, BestHashSound, [Next]_vars
    PROVE  BestHashSound'
<1>1. CASE ServerContributes
  BY <1>1, ContributeSound DEF ServerContributes, TypeOK
<1>2. CASE ResetEpoch \/ AttReset
  BY <1>2, ResetSound DEF ResetEpoch, AttReset
<1>3. CASE UNCHANGED epochHashes
  BY <1>3 DEF epochHashes, BestHashSound
<1> QED
  BY <1>1, <1>2, <1>3
     DEF Next, Loop, ReadProof, CheckCutoff, Peek, Snapshot, Pause, LoadConfig, Send,
         ConfirmRejected, ConfirmUnknown, ConfirmOk, Await, Refresh, StoreRefreshed,
         ResetNonce, Resume, Attender, AttPoll, AttRpc, AttStore, AttRows, AttLatest,
         AttCredit, AttWriteBack, AttNonce, AttResume, AttSignal, Chain, Land, LandStray,
         ExpireStray, Account, Server, ServerTakesNonce, ServerSockets, vars, sharedVars

\* Only the attender's credit hands anything on, and only a landing earns.
LEMMA ChainAndMessages ==
    ASSUME [Next]_vars
    PROVE  \/ UNCHANGED <<chain, mineSuccess>>
           \/ (Land \/ LandStray) /\ UNCHANGED mineSuccess
           \/ AttCredit /\ UNCHANGED chain
BY DEF Next, Loop, ReadProof, CheckCutoff, Peek, Snapshot, Pause, LoadConfig, Send,
       ConfirmRejected, ConfirmUnknown, ConfirmOk, Await, Refresh, StoreRefreshed,
       ResetNonce, ResetEpoch, Resume, Attender, AttPoll, AttRpc, AttStore, AttRows,
       AttLatest, AttCredit, AttWriteBack, AttNonce, AttReset, AttResume, AttSignal,
       Chain, Land, LandStray, ExpireStray, Account, AccountStep, RpcCatchUp, Tick,
       Notify, Resubscribe, Server, ServerContributes, ServerTakesNonce, ServerSockets,
       vars, accountVars, chainVars, attVars

\* A message more: it starts where the others have ended or later, and the attender
\* copies the contributions while there still is a best solution.
LEMMA CreditsStep ==
    ASSUME SubmissionInv, CopiesInv, CreditsInv, [Next]_vars
    PROVE  CreditsFitLedger'
<1> USE DEF CreditsInv, SubmissionInv
<1>1. CASE UNCHANGED mineSuccess
  BY <1>1 DEF CreditsFitLedger
<1>2. CASE AttCredit
  <2> DEFINE credit == [from |-> oldProof, to |-> latestProof, best |-> bestSolution,
                        contributions |-> contributions]
             n == Len(mineSuccess) + 1
  <2>1. credit \in Message
    BY DEF Message, TypeOK, EpochHashesTypeOK
  <2>2. mineSuccess \in Seq(Message) /\ mineSuccess' = Append(mineSuccess, credit)
    BY <1>2 DEF AttCredit, TypeOK
  <2>3. /\ DOMAIN mineSuccess' = DOMAIN mineSuccess \cup {n}
        /\ DOMAIN mineSuccess = 1 .. n - 1 /\ n \in Nat
        /\ \A i \in DOMAIN mineSuccess : mineSuccess'[i] = mineSuccess[i]
        /\ mineSuccess'[n] = credit
    BY <2>1, <2>2, Appended, LenProperties
  <2>4. \A i \in DOMAIN mineSuccess : mineSuccess[i].to <= oldProof
    BY <1>2 DEF AttCredit, CopiesInv, Working, PaidTo
  <2>5. \E m \in Miner : contributions[m] # NoSolution
    <3>1. contributions # NoContributions
      BY <1>2 DEF AttCredit, KeepsBest, BestHashSound
    <3> QED
      BY <3>1 DEF NoContributions, TypeOK, EpochHashesTypeOK
  <2>6. credit.from = oldProof /\ credit.contributions = contributions
    OBVIOUS
  <2> HIDE DEF credit, n
  <2>7. ASSUME NEW i \in DOMAIN mineSuccess', NEW j \in DOMAIN mineSuccess', i < j
        PROVE  mineSuccess'[i].to <= mineSuccess'[j].from
    <3>1. i \in DOMAIN mineSuccess
      BY <2>3, <2>7
    <3>2. CASE j = n
      BY <2>3, <2>4, <2>6, <3>1, <3>2
    <3>3. CASE j # n
      BY <2>3, <2>7, <3>1, <3>3 DEF CreditsFitLedger
    <3> QED
      BY <3>2, <3>3
  <2>8. ASSUME NEW i \in DOMAIN mineSuccess'
        PROVE  \E m \in Miner : mineSuccess'[i].contributions[m] # NoSolution
    BY <2>3, <2>5, <2>6, <2>8 DEF CreditsFitLedger
  <2> QED
    BY <2>7, <2>8 DEF CreditsFitLedger
<1> QED
  BY <1>1, <1>2, ChainAndMessages

\* The initial state satisfies the invariant.
LEMMA PayoutInvInit == Init => PayoutInv
<1> SUFFICES ASSUME Init PROVE PayoutInv
  OBVIOUS
<1>1. AccountInv
  BY DEF Init, AccountInit, AccountInv
<1>2. CopiesInv
  BY DEF Init, AccountInit, CopiesInv, Working, PastCutoff, PaidTo
<1>3. CreditsInv
  BY DEF Init, CreditsInv, BestHashSound, NoBestHash, CreditsFitLedger
<1> QED
  BY <1>1, <1>2, <1>3, SubmissionInit DEF PayoutInv

\* Every step preserves the invariant.
LEMMA PayoutInvStep == PayoutInv /\ [Next]_vars => PayoutInv'
<1> SUFFICES ASSUME PayoutInv, [Next]_vars PROVE PayoutInv'
  OBVIOUS
<1>1. SubmissionInv' /\ TypeOK /\ TypeOK' /\ Handover
  BY SubmissionInvStep DEF PayoutInv, SubmissionInv
<1>2. AccountInv'
  BY <1>1, AccountInvStep DEF PayoutInv
<1>3. CopiesInv'
  BY <1>1, CopiesLoopStep, CopiesAttenderStep, CopiesOtherStep DEF PayoutInv, Next
<1>4. CreditsInv'
  BY <1>1, SoundStep, CreditsStep DEF PayoutInv, CreditsInv
<1> QED
  BY <1>1, <1>2, <1>3, <1>4 DEF PayoutInv

-----------------------------------------------------------------------------
(* The refinement *)

\* The ranges that were handed on, as Payout sees them.
Paid == {<<mineSuccess[i].from, mineSuccess[i].to>> : i \in DOMAIN mineSuccess}

\* Every step earns a reward, pays one that was earned and not paid, or does neither.
LEMMA PayoutStep ==
    ASSUME PayoutInv, [Next]_vars
    PROVE  [P!Next]_<<chain, Paid>>
<1> USE DEF PayoutInv, SubmissionInv
<1>1. CASE UNCHANGED <<chain, mineSuccess>>
  BY <1>1 DEF Paid
<1>2. CASE (Land \/ LandStray) /\ UNCHANGED mineSuccess
  <2>1. chain < MaxChallenge /\ chain' = chain + 1
    BY <1>2 DEF Land, LandStray, Advance
  <2> QED
    BY <1>2, <2>1 DEF P!Next, P!Earn, Paid
<1>3. CASE AttCredit /\ UNCHANGED chain
  <2> DEFINE credit == [from |-> oldProof, to |-> latestProof, best |-> bestSolution,
                        contributions |-> contributions]
  <2>1. credit \in Message
    BY DEF Message, TypeOK, EpochHashesTypeOK
  <2>2. mineSuccess \in Seq(Message) /\ mineSuccess' = Append(mineSuccess, credit)
    BY <1>3 DEF AttCredit, TypeOK
  <2>3. /\ DOMAIN mineSuccess' = DOMAIN mineSuccess \cup {Len(mineSuccess) + 1}
        /\ \A i \in DOMAIN mineSuccess : mineSuccess'[i] = mineSuccess[i]
        /\ mineSuccess'[Len(mineSuccess) + 1] = credit
    BY <2>1, <2>2, Appended
  <2>4. Paid' = Paid \cup {<<oldProof, latestProof>>}
    BY <2>3 DEF Paid
  <2>5. PaidTo(oldProof) /\ oldProof < latestProof /\ latestProof <= chain
    BY <1>3 DEF AttCredit, CopiesInv, Working
  <2>6. \A p \in Paid : P!Disjoint(p, <<oldProof, latestProof>>)
    BY <2>5 DEF Paid, PaidTo, P!Disjoint
  <2>7. oldProof \in 0 .. MaxChallenge /\ latestProof \in 0 .. MaxChallenge
    BY DEF TypeOK, Challenge
  <2>8. \E from, to \in 0 .. MaxChallenge : P!Pay(from, to)
    BY <1>3, <2>4, <2>5, <2>6, <2>7 DEF P!Pay, Paid
  <2> QED
    BY <2>8 DEF P!Next
<1> QED
  BY <1>1, <1>2, <1>3, ChainAndMessages

\* Rewards are handed on after they were earned and at most once, whatever the order of
\* landings, late landings, notifications and RPC answers (run "submission").
THEOREM SubmissionPaysOnce == Spec => PaysOnce
<1>1. Init => P!Init
  BY DEF Init, AccountInit, P!Init
<1>2. PayoutInv /\ [Next]_vars => [P!Next]_<<chain, Paid>>
  BY PayoutStep
<1> QED
  BY PayoutInvInit, PayoutInvStep, <1>1, <1>2, PTL DEF Spec, PaysOnce, P!Spec, Paid

\* The ledger gets its messages in the order of the account states, and each with
\* somebody to credit, whichever landings are noticed by notification, by asking the RPC
\* node, or not at all (run "submission").
THEOREM SubmissionCreditsFitLedger == Spec => []CreditsFitLedger
<1>1. PayoutInv => CreditsFitLedger
  BY DEF PayoutInv, CreditsInv
<1> QED
  BY PayoutInvInit, PayoutInvStep, <1>1, PTL DEF Spec

=============================================================================
