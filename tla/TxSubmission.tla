---------------------------- MODULE TxSubmission ----------------------------
(***************************************************************************)
(* How the web client submits one contract call                            *)
(* (src/frontend/src/services/transactionSubmission.ts): it signs an       *)
(* envelope, sends it until a server takes a position, polls for its       *)
(* inclusion, and ends with a verdict that says whether the user may sign  *)
(* the same call again (useTransaction: canRetry).                         *)
(*                                                                         *)
(* The network is external: it holds accepted envelopes, includes one per  *)
(* sequence number at most, and not after the envelope's bound.  A request *)
(* may fail before it arrives or after it took effect.                     *)
(***************************************************************************)
EXTENDS Integers, FiniteSets

CONSTANTS
    MaxEnvelopes,                   \* how often the user signs the call
    maxSendAttempts,
    maxConsecutiveTransportErrors,
    Bound,                          \* setTimeout(30), in ledgers
    MaxLedger                       \* the ledgers a run explores

ASSUME BoundsAssumption ==
    /\ MaxEnvelopes \in Nat \ {0}
    /\ maxSendAttempts \in Nat \ {0}
    /\ maxConsecutiveTransportErrors \in Nat
    /\ Bound \in Nat \ {0}
    /\ MaxLedger \in Nat

VARIABLES
    signed,       \* envelopes signed so far; the last one is being submitted
    seq,          \* its sequence number, per envelope
    maxLedger,    \* its inclusion deadline; 0: unbounded
    status,       \* "idle", "submitting", "polling" or a verdict
    safeToRetry,  \* of the verdict
    attempt,      \* sendTransaction calls made for the envelope
    consecutiveTransportErrors,
    fate,         \* external: "unseen", "live", "executed" or "reverted"
    accountSeq,   \* external: the last sequence number the network consumed
    ledger,       \* external: the last closed ledger
    lost          \* history: a reply of the network to the envelope was lost

client  == <<signed, seq, maxLedger, status, safeToRetry, attempt, consecutiveTransportErrors>>
network == <<fate, accountSeq, ledger>>
vars    == <<client, network, lost>>

Envelopes == 1..MaxEnvelopes

Verdicts == {"confirmed", "failed", "dropped", "expired", "unconfirmed"}

Init ==
    /\ signed = 0
    /\ seq = [e \in Envelopes |-> 0]
    /\ maxLedger = [e \in Envelopes |-> 0]
    /\ status = "idle"
    /\ safeToRetry = FALSE
    /\ attempt = 0
    /\ consecutiveTransportErrors = 0
    /\ fate = [e \in Envelopes |-> "unseen"]
    /\ accountSeq = 0
    /\ ledger = 0
    /\ lost = FALSE

-----------------------------------------------------------------------------
(* Verdicts.  A definition named X_<fault> is X with that fault; it is used  *)
(* only to see that the properties detect it.                               *)

RETRY_SAFETY_Unconfirmed(verdict) == TRUE

RETRY_SAFETY(verdict) == verdict \in {"dropped", "expired", "failed"}

\* A TransactionSubmissionError, or the confirmed result.
End(verdict, deterministic) ==
    /\ status' = verdict
    /\ safeToRetry' = (verdict # "confirmed" /\ RETRY_SAFETY(verdict) /\ ~deterministic)
    /\ UNCHANGED <<signed, seq, maxLedger>>

\* The user starts the call, or answers a verdict that offers a retry: a new
\* envelope with the account's next sequence number.
Sign(bounded) ==
    /\ signed < MaxEnvelopes
    /\ status = "idle" \/ safeToRetry
    /\ ledger + Bound < MaxLedger
    /\ signed' = signed + 1
    /\ seq' = [seq EXCEPT ![signed + 1] = accountSeq + 1]
    /\ maxLedger' = [maxLedger EXCEPT ![signed + 1] = IF bounded THEN ledger + Bound ELSE 0]
    /\ status' = "submitting"
    /\ safeToRetry' = FALSE
    /\ attempt' = 0
    /\ consecutiveTransportErrors' = 0
    /\ UNCHANGED <<network, lost>>

-----------------------------------------------------------------------------
(* The network *)

InTime(e) == maxLedger[e] = 0 \/ ledger + 1 <= maxLedger[e]

\* Envelope e can still be included in the next ledger.
Includable(e) == seq[e] = accountSeq + 1 /\ InTime(e)

Accept(e) ==
    /\ fate[e] = "unseen"
    /\ Includable(e)
    /\ fate' = [fate EXCEPT ![e] = "live"]
    /\ UNCHANGED <<accountSeq, ledger>>

Pending(e) == fate[e] = "live" /\ Includable(e)

CloseLedger ==
    /\ ledger < MaxLedger
    /\ ledger' = ledger + 1
    /\ \/ UNCHANGED <<fate, accountSeq>>
       \/ \E e \in 1..signed, result \in {"executed", "reverted"} :
            /\ Pending(e)
            /\ fate' = [fate EXCEPT ![e] = result]
            /\ accountSeq' = seq[e]
    /\ UNCHANGED <<client, lost>>

-----------------------------------------------------------------------------
(* sendSignedTransaction: one call of the loop and its outcome *)

IsLast == attempt = maxSendAttempts - 1

Resend == UNCHANGED <<signed, seq, maxLedger, status, safeToRetry>>

\* PENDING or DUPLICATE.
SendAccepted ==
    /\ \/ Accept(signed)
       \/ Pending(signed) /\ UNCHANGED network
    /\ status' = "polling"
    /\ UNCHANGED <<signed, seq, maxLedger, safeToRetry, lost>>

\* TRY_AGAIN_LATER: the network did not take the envelope.
SendTryAgainLater ==
    /\ fate[signed] = "unseen"
    /\ IF IsLast THEN End("dropped", FALSE) ELSE Resend
    /\ UNCHANGED <<network, lost>>

\* ERROR: never taken, or too late, or its sequence number is consumed.
SendError(deterministic) ==
    /\ ~Pending(signed)
    /\ End("failed", deterministic)
    /\ UNCHANGED <<network, lost>>

SendUnknownStatus ==
    /\ End("unconfirmed", FALSE)
    /\ UNCHANGED <<network, lost>>

\* The request throws; the envelope may have been accepted and the reply lost.
\* isTransientError judges by the message of the exception.
SendThrows(transient) ==
    /\ \/ UNCHANGED <<network, lost>>
       \/ Accept(signed) /\ lost' = TRUE
    /\ IF transient
       THEN IF IsLast THEN End("unconfirmed", FALSE) ELSE Resend
       ELSE End("dropped", FALSE)

SendTransaction ==
    /\ status = "submitting"
    /\ attempt' = attempt + 1
    /\ UNCHANGED consecutiveTransportErrors
    /\ \/ SendAccepted
       \/ SendTryAgainLater
       \/ \E d \in BOOLEAN : SendError(d)
       \/ SendUnknownStatus
       \/ \E t \in BOOLEAN : SendThrows(t)

-----------------------------------------------------------------------------
(* awaitTransactionInclusion: one call of the loop and its outcome *)

DeadlinePassed_Ignored(e) == FALSE

DeadlinePassed_AheadOfNetwork(e) == maxLedger[e] # 0 /\ ledger + 1 >= maxLedger[e]

DeadlinePassed(e) == maxLedger[e] # 0 /\ ledger > maxLedger[e]

PollThrows(transient) ==
    /\ consecutiveTransportErrors' = consecutiveTransportErrors + 1
    /\ IF transient /\ consecutiveTransportErrors < maxConsecutiveTransportErrors
       THEN UNCHANGED <<signed, seq, maxLedger, status, safeToRetry>>
       ELSE End("unconfirmed", FALSE)

PollIncluded ==
    /\ fate[signed] \in {"executed", "reverted"}
    /\ consecutiveTransportErrors' = 0
    /\ IF fate[signed] = "executed" THEN End("confirmed", FALSE)
                                    ELSE \E d \in BOOLEAN : End("failed", d)

\* NOT_FOUND: expected until the network has moved past the bound.
PollNotFound ==
    /\ fate[signed] \notin {"executed", "reverted"}
    /\ consecutiveTransportErrors' = 0
    /\ IF DeadlinePassed(signed) THEN End("expired", FALSE)
       ELSE UNCHANGED <<signed, seq, maxLedger, status, safeToRetry>>

GetTransaction ==
    /\ status = "polling"
    /\ \/ \E t \in BOOLEAN : PollThrows(t)
       \/ PollIncluded
       \/ PollNotFound
    /\ UNCHANGED <<attempt, network, lost>>

\* NOT_FOUND after maxPollDurationMs, for an envelope without a bound.
PollTimeout ==
    /\ status = "polling"
    /\ maxLedger[signed] = 0
    /\ fate[signed] \notin {"executed", "reverted"}
    /\ consecutiveTransportErrors' = 0
    /\ End("unconfirmed", FALSE)
    /\ UNCHANGED <<attempt, network, lost>>

-----------------------------------------------------------------------------
Next ==
    \/ \E bounded \in BOOLEAN : Sign(bounded)
    \/ SendTransaction
    \/ GetTransaction
    \/ PollTimeout
    \/ CloseLedger

Spec == Init /\ [][Next]_vars

\* Requests end, with an answer or an exception; time passes and ledgers close.
\* Whether the user retries is up to the user.
Fairness ==
    /\ WF_vars(SendTransaction)
    /\ WF_vars(GetTransaction)
    /\ WF_vars(PollTimeout)
    /\ WF_vars(CloseLedger)

FairSpec == Spec /\ Fairness

-----------------------------------------------------------------------------
(* Properties *)

Executed == {e \in Envelopes : fate[e] = "executed"}

\* A verdict stays true while the user looks at it, whatever ledgers close
\* after it: confirmed means executed; expired means that it is not in a
\* ledger and never will be, replies lost or not; dropped and failed mean the
\* same as long as no reply of the network was lost.
VerdictsStayTrue ==
    /\ status = "confirmed" => signed \in Executed
    /\ status = "expired" => signed \notin Executed /\ ~Pending(signed)
    /\ status \in {"dropped", "failed"} /\ ~lost =>
         signed \notin Executed /\ ~Pending(signed)

\* A user who signs again only when the verdict offers it never executes the
\* call twice, as long as no reply of the network was lost.
RetryExecutesOnce == ~lost => Cardinality(Executed) <= 1

\* Once signed, an envelope gets a verdict: the send budget, the bound of the
\* envelope, the tolerated transport errors and the wall clock leave no way to
\* submit or poll forever.
EverySubmissionEnds == status \in {"submitting", "polling"} ~> status \in Verdicts

\* The header of transactionSubmission.ts: "`dropped` and `expired` are
\* provably-not-included, so re-signing cannot double-execute `create_token` /
\* `mint_tokens`"; RETRY_SAFETY says the same of `failed`.
RetryCannotDoubleExecute == Cardinality(Executed) <= 1

=============================================================================
