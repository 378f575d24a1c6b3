------------------------- MODULE TxSubmissionProofs -------------------------
(***************************************************************************)
(* Proofs about TxSubmission: verdicts stay true and retries execute once, *)
(* for any number of envelopes, attempts, tolerated errors and any bound.  *)
(***************************************************************************)
EXTENDS TxSubmission, FiniteSetTheorems, TLAPS

Fates == {"unseen", "live", "executed", "reverted"}

ClientOK ==
    /\ signed \in 0..MaxEnvelopes
    /\ seq \in [Envelopes -> Nat]
    /\ maxLedger \in [Envelopes -> Nat]
    /\ status \in {"idle", "submitting", "polling"} \cup Verdicts
    /\ IF status = "idle" THEN signed = 0 ELSE signed \in Envelopes

NetworkOK ==
    /\ fate \in [Envelopes -> Fates]
    /\ accountSeq \in Nat
    /\ ledger \in Nat
    /\ lost \in BOOLEAN

\* Nobody signs ahead: an envelope whose sequence number is not the next one
\* will not become includable later.
SignedInTurn ==
    /\ \A e \in 1..signed : seq[e] <= accountSeq + 1
    /\ \A e \in Envelopes : e > signed => fate[e] = "unseen"

\* Envelope e is not in a ledger as executed and never will be.
Dead(e) == fate[e] # "executed" /\ ~Pending(e)

\* The client knows of every acceptance whose reply reached it.
UnseenWhileSubmitting == status = "submitting" /\ ~lost => fate[signed] = "unseen"

RetriesFollowFailures ==
    safeToRetry => status \in {"dropped", "failed", "expired"}

\* What was given up for another envelope is dead.
EarlierDead == ~lost => \A e \in 1..(signed - 1) : Dead(e)

IInv ==
    /\ ClientOK /\ NetworkOK /\ SignedInTurn /\ UnseenWhileSubmitting
    /\ RetriesFollowFailures /\ VerdictsStayTrue /\ EarlierDead

USE DEF Envelopes, Verdicts, Fates

-----------------------------------------------------------------------------

\* Nothing is signed at the start.
LEMMA InitIInv == Init => IInv
<1> SUFFICES ASSUME Init PROVE IInv
    OBVIOUS
<1>1. /\ ClientOK
      /\ NetworkOK
      /\ SignedInTurn
    <2>1. ClientOK
        BY BoundsAssumption DEF Init, ClientOK
    <2>2. NetworkOK
        BY DEF Init, NetworkOK
    <2>3. SignedInTurn
        BY BoundsAssumption DEF Init, SignedInTurn
    <2> QED
        BY <2>1, <2>2, <2>3
<1>2. UnseenWhileSubmitting /\ RetriesFollowFailures /\ VerdictsStayTrue
    BY DEF Init, UnseenWhileSubmitting, RetriesFollowFailures, VerdictsStayTrue
<1>3. EarlierDead
    BY DEF Init, EarlierDead
<1> QED
    BY <1>1, <1>2, <1>3 DEF IInv

\* The user signs again only what a verdict, still true, says is dead.
LEMMA SignIInv ==
    ASSUME IInv, NEW bounded \in BOOLEAN, Sign(bounded)
    PROVE  IInv'
<1> USE BoundsAssumption
<1>1. signed' = signed + 1 /\ signed' \in Envelopes /\ fate[signed'] = "unseen"
    BY DEF Sign, IInv, ClientOK, SignedInTurn
<1>2. ClientOK' /\ NetworkOK'
    BY <1>1 DEF Sign, network, IInv, ClientOK, NetworkOK
<1>3. \A e \in 1..signed : seq'[e] = seq[e] /\ maxLedger'[e] = maxLedger[e]
    BY <1>1 DEF Sign, IInv, ClientOK
<1>4. SignedInTurn'
    BY <1>1, <1>3 DEF Sign, network, IInv, ClientOK, NetworkOK, SignedInTurn
<1>5. UnseenWhileSubmitting' /\ RetriesFollowFailures' /\ VerdictsStayTrue'
    BY <1>1 DEF Sign, network, UnseenWhileSubmitting, RetriesFollowFailures, VerdictsStayTrue
<1>6. EarlierDead'
    <2> SUFFICES ASSUME ~lost, NEW e \in 1..signed PROVE Dead(e)'
        BY <1>1 DEF Sign, EarlierDead, IInv, ClientOK
    <2>1. Dead(e)
        <3>1. CASE e < signed
            BY <3>1 DEF IInv, ClientOK, EarlierDead
        <3>2. CASE e = signed
            BY <3>2 DEF Sign, IInv, ClientOK, RetriesFollowFailures, VerdictsStayTrue,
                        Executed, Dead
        <3> QED
            BY <3>1, <3>2 DEF IInv, ClientOK
    <2> QED
        BY <2>1, <1>3 DEF Sign, network, Dead, Pending, Includable, InTime
<1> QED
    BY <1>2, <1>4, <1>5, <1>6 DEF IInv

\* What is dead stays dead: sequence numbers are consumed in turn and deadlines
\* do not come back.
LEMMA DeadStaysDead ==
    ASSUME IInv, CloseLedger, NEW e \in 1..signed, Dead(e)
    PROVE  Dead(e)' /\ fate'[e] = fate[e]
<1> USE BoundsAssumption DEF IInv, ClientOK, NetworkOK, SignedInTurn, Dead
<1>1. UNCHANGED <<seq, maxLedger>> /\ ledger' = ledger + 1 /\ e \in Envelopes
    BY DEF CloseLedger, client
<1>2. CASE UNCHANGED <<fate, accountSeq>>
    BY <1>1, <1>2 DEF Pending, Includable, InTime
<1>3. ASSUME NEW f \in 1..signed, NEW result \in {"executed", "reverted"},
             Pending(f), fate' = [fate EXCEPT ![f] = result], accountSeq' = seq[f]
      PROVE  Dead(e)' /\ fate'[e] = fate[e]
    <2>1. f # e /\ fate'[e] = fate[e]
        BY <1>3, <1>1
    <2>2. accountSeq' = accountSeq + 1 /\ seq[e] <= accountSeq + 1 /\ seq[e] \in Nat
        BY <1>3, <1>1 DEF Pending, Includable
    <2> QED
        BY <2>1, <2>2, <1>1 DEF Pending, Includable
<1> QED
    BY <1>2, <1>3 DEF CloseLedger

\* A ledger closes.
LEMMA CloseLedgerIInv == IInv /\ CloseLedger => IInv'
<1> SUFFICES ASSUME IInv, CloseLedger PROVE IInv'
    OBVIOUS
<1> USE BoundsAssumption
<1>1. UNCHANGED <<signed, seq, maxLedger, status, safeToRetry, lost>> /\ ledger' = ledger + 1
    BY DEF CloseLedger, client
<1>2. ClientOK' /\ RetriesFollowFailures'
    BY <1>1 DEF IInv, ClientOK, RetriesFollowFailures
<1>3. /\ NetworkOK' /\ accountSeq' >= accountSeq
      /\ \A e \in Envelopes : fate'[e] = fate[e] \/ fate[e] = "live"
      /\ \A e \in Envelopes : e > signed => fate'[e] = fate[e]
    <2>1. CASE UNCHANGED <<fate, accountSeq>>
        BY <2>1, <1>1 DEF IInv, NetworkOK
    <2>2. ASSUME NEW f \in 1..signed, NEW result \in {"executed", "reverted"},
                 Pending(f), fate' = [fate EXCEPT ![f] = result], accountSeq' = seq[f]
          PROVE  /\ NetworkOK' /\ accountSeq' >= accountSeq
                 /\ \A e \in Envelopes : fate'[e] = fate[e] \/ fate[e] = "live"
                 /\ \A e \in Envelopes : e > signed => fate'[e] = fate[e]
        BY <2>2, <1>1 DEF IInv, ClientOK, NetworkOK, Pending, Includable
    <2> QED
        BY <2>1, <2>2 DEF CloseLedger
<1>4. SignedInTurn' /\ UnseenWhileSubmitting'
    BY <1>1, <1>3 DEF IInv, ClientOK, NetworkOK, SignedInTurn, UnseenWhileSubmitting
<1>5. VerdictsStayTrue'
    <2>1. CASE status = "confirmed"
        BY <2>1, <1>1, <1>3 DEF IInv, ClientOK, VerdictsStayTrue, Executed
    <2>2. CASE status = "expired" \/ (status \in {"dropped", "failed"} /\ ~lost)
        <3>1. signed \in 1..signed /\ Dead(signed)
            BY <2>2 DEF IInv, ClientOK, VerdictsStayTrue, Executed, Dead
        <3> QED
            BY <3>1, <2>2, <1>1, DeadStaysDead DEF VerdictsStayTrue, Executed, Dead
    <2> QED
        BY <2>1, <2>2, <1>1 DEF VerdictsStayTrue
<1>6. EarlierDead'
    <2> SUFFICES ASSUME ~lost, NEW e \in 1..(signed - 1) PROVE Dead(e)'
        BY <1>1 DEF EarlierDead
    <2>1. e \in 1..signed /\ Dead(e)
        BY DEF IInv, ClientOK, EarlierDead
    <2> QED
        BY <2>1, DeadStaysDead
<1> QED
    BY <1>2, <1>3, <1>4, <1>5, <1>6 DEF IInv

-----------------------------------------------------------------------------

\* What a call of a server's does to the network: nothing, or it accepts the
\* envelope that is being submitted.
Reached == UNCHANGED network \/ Accept(signed)

\* A request keeps the invariant if it reaches no verdict, or one that is true.
LEMMA RequestIInv ==
    ASSUME IInv, signed \in Envelopes, Reached, UNCHANGED <<signed, seq, maxLedger>>,
           lost' \in BOOLEAN, lost => lost',
           status' \in {"submitting", "polling"} \cup Verdicts,
           UnseenWhileSubmitting', RetriesFollowFailures', VerdictsStayTrue'
    PROVE  IInv'
<1> USE BoundsAssumption
<1>1. ClientOK' /\ NetworkOK' /\ SignedInTurn'
    BY DEF Reached, network, Accept, IInv, ClientOK, NetworkOK, SignedInTurn
<1>2. \A e \in 1..(signed - 1) :
         /\ fate'[e] = fate[e]
         /\ accountSeq' = accountSeq /\ ledger' = ledger
    BY DEF Reached, network, Accept, IInv, ClientOK, NetworkOK
<1>3. EarlierDead'
    BY <1>2 DEF IInv, EarlierDead, Dead, Pending, Includable, InTime, ClientOK
<1> QED
    BY <1>1, <1>3 DEF IInv

\* A call of sendTransaction.
LEMMA SendIInv == IInv /\ SendTransaction => IInv'
<1> SUFFICES ASSUME IInv, SendTransaction PROVE IInv'
    OBVIOUS
<1> USE DEF End, Resend, RETRY_SAFETY, UnseenWhileSubmitting, RetriesFollowFailures,
            VerdictsStayTrue, Executed, Reached, network
<1>1. status = "submitting" /\ signed \in Envelopes /\ ~safeToRetry /\ lost \in BOOLEAN
    BY DEF IInv, ClientOK, NetworkOK, SendTransaction
<1>2. ~lost => fate[signed] = "unseen"
    BY <1>1 DEF IInv
<1>3. CASE SendAccepted
    <2> SUFFICES Reached /\ UnseenWhileSubmitting' /\ VerdictsStayTrue'
        BY <1>3, <1>1, RequestIInv DEF SendAccepted
    <2> QED
        BY <1>3 DEF SendAccepted
<1>4. CASE SendTryAgainLater
    BY <1>4, <1>1, <1>2, RequestIInv DEF SendTryAgainLater, Pending
<1>5. ASSUME NEW d \in BOOLEAN, SendError(d) PROVE IInv'
    BY <1>5, <1>1, <1>2, RequestIInv DEF SendError, Pending, Includable, InTime
<1>6. CASE SendUnknownStatus
    BY <1>6, <1>1, RequestIInv DEF SendUnknownStatus
<1>7. ASSUME NEW t \in BOOLEAN, SendThrows(t) PROVE IInv'
    BY <1>7, <1>1, <1>2, RequestIInv DEF SendThrows, Pending
<1> QED
    BY <1>3, <1>4, <1>5, <1>6, <1>7 DEF SendTransaction

\* A poll finds the envelope's fate or the ledger past its bound.
LEMMA PollIInv == IInv /\ (GetTransaction \/ PollTimeout) => IInv'
<1> SUFFICES ASSUME IInv, GetTransaction \/ PollTimeout PROVE IInv'
    OBVIOUS
<1> USE DEF End, RETRY_SAFETY, UnseenWhileSubmitting, RetriesFollowFailures,
            VerdictsStayTrue, Executed, Reached, network
<1>1. /\ status = "polling" /\ signed \in Envelopes /\ ~safeToRetry /\ lost \in BOOLEAN
      /\ UNCHANGED <<fate, accountSeq, ledger, lost>>
    BY DEF IInv, ClientOK, NetworkOK, GetTransaction, PollTimeout
<1>2. ASSUME NEW t \in BOOLEAN, PollThrows(t) PROVE IInv'
    BY <1>2, <1>1, RequestIInv DEF PollThrows
<1>3. CASE PollIncluded
    BY <1>3, <1>1, RequestIInv DEF PollIncluded, Pending
<1>4. CASE PollNotFound
    <2>1. DeadlinePassed(signed) => ~InTime(signed)
        BY <1>1 DEF DeadlinePassed, InTime, IInv, ClientOK, NetworkOK
    <2> QED
        BY <1>4, <1>1, <2>1, RequestIInv DEF PollNotFound, Pending, Includable, InTime
<1>5. CASE PollTimeout
    <2>1. /\ status' = "unconfirmed" /\ ~safeToRetry'
          /\ UNCHANGED <<signed, seq, maxLedger, network, lost>>
        BY <1>5 DEF PollTimeout
    <2> QED
        BY <2>1, <1>1, RequestIInv
<1> QED
    BY <1>2, <1>3, <1>4, <1>5 DEF GetTransaction

\* Every state satisfies the invariant.
LEMMA Invariance == Spec => []IInv
<1>1. IInv /\ [Next]_vars => IInv'
    <2>1. CASE UNCHANGED vars
        BY <2>1 DEF vars, client, network, IInv, ClientOK, NetworkOK, SignedInTurn,
                    UnseenWhileSubmitting, RetriesFollowFailures, VerdictsStayTrue,
                    EarlierDead, Dead, Executed, Pending, Includable, InTime
    <2> QED
        BY <2>1, SignIInv, SendIInv, PollIInv, CloseLedgerIInv DEF Next
<1> QED
    BY <1>1, InitIInv, PTL DEF Spec

-----------------------------------------------------------------------------

\* A verdict (TransactionSubmissionError, or the confirmed result) stays true
\* whatever ledgers close after it.
THEOREM VerdictsHold == Spec => []VerdictsStayTrue
<1>1. IInv => VerdictsStayTrue
    BY DEF IInv
<1> QED
    BY <1>1, Invariance, PTL

\* A user who signs again when useTransaction offers it executes the call once,
\* unless a reply of the network was lost.
THEOREM RetriesExecuteOnce == Spec => []RetryExecutesOnce
<1>1. IInv => RetryExecutesOnce
    <2> SUFFICES ASSUME IInv, ~lost PROVE Cardinality(Executed) <= 1
        BY DEF RetryExecutesOnce
    <2>1. Executed \subseteq {signed}
        BY BoundsAssumption DEF IInv, ClientOK, SignedInTurn, EarlierDead, Dead, Executed
    <2>2. IsFiniteSet({signed}) /\ Cardinality({signed}) = 1
        BY FS_Singleton
    <2>3. Cardinality(Executed) <= Cardinality({signed})
        BY <2>1, <2>2, FS_Subset
    <2>4. Cardinality(Executed) \in Nat
        BY <2>1, <2>2, FS_Subset, FS_CardinalityType
    <2> QED
        BY <2>2, <2>3, <2>4
<1> QED
    BY <1>1, Invariance, PTL

=============================================================================
